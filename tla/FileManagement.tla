---------------------------- MODULE FileManagement ----------------------------
(***************************************************************************)
(* ST[23] file management (FileManagementService) over the file system of  *)
(* the x86 platform (Filesystem.cpp).                                      *)
(*                                                                         *)
(* A telecommand names a repository and an object in it; either may have   *)
(* several components, and a name that is too long to be read is empty.    *)
(* The service looks at the repository in some telecommands and at the     *)
(* node the whole path leads to in all of them; what the file system       *)
(* itself refuses shows as a silent failure or as an exception nothing     *)
(* catches. Files are written by others, which a lock (no permission to    *)
(* write) is to stop.                                                      *)
(*                                                                         *)
(* A path is the sequence of its components from the working directory,    *)
(* << >>; "." and ".." are taken as resolved, and a repository without a   *)
(* name, which leads out of the working directory, is left out. TC[23,3]   *)
(* reads the attributes and changes nothing: left out.                     *)
(***************************************************************************)
EXTENDS Naturals, Sequences, FiniteSets, Functions

CONSTANTS
  Names,                     \* the components of paths
  RepositoryPaths,           \* what a telecommand may name as a repository
  ObjectPaths,               \* what a telecommand may name as an object
  Wildcard,                  \* the component that is a wildcard
  FileSizes,                 \* maximum file sizes a telecommand may hold
  MaxPossibleFileSizeBytes,
  Contents,                  \* what files may hold
  NoContent                  \* what a new file holds: nothing

Paths == { repository \o object : repository \in RepositoryPaths, object \in ObjectPaths }

ASSUME ConstantsAssumption ==
  /\ RepositoryPaths \subseteq Seq(Names) /\ ObjectPaths \subseteq Seq(Names)
  /\ FileSizes \subseteq Nat /\ MaxPossibleFileSizeBytes \in Nat
  /\ NoContent \in Contents

VARIABLES
  nodes,    \* the nodes of the file system below the working directory
  uncaught, \* the telecommand whose handling threw what nothing catches, if there was one
  picture   \* history: the tree as ground knows it from the telecommands that met no error

vars == << nodes, uncaught, picture >>

Directory == [type |-> "Directory"]
File == [type : { "File" }, isLocked : BOOLEAN, content : Contents]

Telecommand == [repository : RepositoryPaths, object : ObjectPaths]

\* In ground's picture a node is "checked" if its telecommand named an object right in the
\* repository, with no directory in between that the service does not look at.
Pictured == [type : { "File", "Directory" }, isLocked : BOOLEAN, checked : BOOLEAN]

-----------------------------------------------------------------------------
Root == << >>

\* A slip for mutation: the working directory itself is forgotten.
ExistsBelow(path) == path \in DOMAIN nodes

\* getNodeType: what a path leads to.
Exists(path) == path = Root \/ path \in DOMAIN nodes

IsDirectory(path) == path = Root \/ (path \in DOMAIN nodes /\ nodes[path].type = "Directory")
IsFile(path) == path \in DOMAIN nodes /\ nodes[path].type = "File"

Parent(path) == SubSeq(path, 1, Len(path) - 1)

Children(path) == { p \in DOMAIN nodes : p # Root /\ Parent(p) = path }

\* getFullPath and findWildcardPosition.
FullPath(repository, object) == repository \o object
HasWildcard(path) == Wildcard \in Range(path)

Add(path, node) ==
  nodes' = [p \in DOMAIN nodes \cup { path } |-> IF p = path THEN node ELSE nodes[p]]

Remove(path) == nodes' = Restrict(nodes, DOMAIN nodes \ { path })

\* A slip for mutation: that the repository is there is enough, be it a file.
RepositoryExists(repository) == Exists(repository)

\* What the service asks of the repository.
IsRepository(repository) == IsDirectory(repository)

\* The file system makes a node only where there is a directory to hold it.
TakesNode(path) == IsDirectory(Parent(path))

\* No error was reported: ground takes what it asked for to be done.
Learns(path, node) ==
  picture' = [p \in DOMAIN picture \cup { path } |-> IF p = path THEN node ELSE picture[p]]

Forgets(path) == picture' = Restrict(picture, DOMAIN picture \ { path })

\* Nothing catches what the file system throws: the program ends.
Throws(repository, object) ==
  /\ uncaught' = { [repository |-> repository, object |-> object] }
  /\ UNCHANGED << nodes, picture >>

Init ==
  /\ nodes = << >>
  /\ uncaught = {}
  /\ picture = << >>

-----------------------------------------------------------------------------
(* TC[23,1] and TC[23,2].                                                  *)

\* The stream that makes the file fails without a word if the directory is missing; the
\* lock is then asked for a file that does not exist, and its answer is not looked at.
CreateFile(repository, object, maxFileSizeBytes, isFileLocked) ==
  LET path == FullPath(repository, object)
  IN /\ uncaught = {}
     /\ ~HasWildcard(path)
     /\ IsRepository(repository)
     /\ maxFileSizeBytes <= MaxPossibleFileSizeBytes
     /\ ~Exists(path)
     /\ \/ /\ TakesNode(path)
           /\ Add(path, [type |-> "File", isLocked |-> isFileLocked, content |-> NoContent])
        \/ /\ ~TakesNode(path)
           /\ UNCHANGED nodes
     /\ Learns(path, [type |-> "File", isLocked |-> isFileLocked, checked |-> Len(object) = 1])
     /\ UNCHANGED uncaught

\* A slip for mutation: the lock is not looked at.
MayDeleteLocked(path) == IsFile(path)

MayDeleteFile(path) == IsFile(path) /\ ~nodes[path].isLocked

DeleteFile(repository, object) ==
  LET path == FullPath(repository, object)
  IN /\ uncaught = {}
     /\ ~HasWildcard(path)
     /\ IsRepository(repository)
     /\ MayDeleteFile(path)
     /\ Remove(path)
     /\ Forgets(path)
     /\ UNCHANGED uncaught

-----------------------------------------------------------------------------
(* TC[23,5] and TC[23,6]: the repository is not looked at.                 *)

SetLock(repository, object, isLocked) ==
  LET path == FullPath(repository, object)
  IN /\ uncaught = {}
     /\ ~HasWildcard(path)
     /\ IsFile(path)
     /\ nodes' = [nodes EXCEPT ![path].isLocked = isLocked]
     /\ Learns(path, [type |-> "File", isLocked |-> isLocked, checked |-> TRUE])
     /\ UNCHANGED uncaught

LockFile(repository, object) == SetLock(repository, object, TRUE)
UnlockFile(repository, object) == SetLock(repository, object, FALSE)

-----------------------------------------------------------------------------
(* TC[23,9] and TC[23,10].                                                 *)

\* Unlike the stream, create_directory throws if the directory it goes into is missing.
CreateDirectory(repository, object) ==
  LET path == FullPath(repository, object)
  IN /\ uncaught = {}
     /\ ~HasWildcard(path)
     /\ IsRepository(repository)
     /\ ~Exists(path)
     /\ \/ /\ TakesNode(path)
           /\ Add(path, Directory)
           /\ Learns(path, [type |-> "Directory", isLocked |-> FALSE, checked |-> Len(object) = 1])
           /\ UNCHANGED uncaught
        \/ /\ ~TakesNode(path)
           /\ Throws(repository, object)

\* is_empty, of a directory or of a file.
IsEmpty(path) ==
  IF IsDirectory(path) THEN Children(path) = {} ELSE nodes[path].content = NoContent

\* That the path leads to a directory is not looked at: an empty file goes too, locked or
\* not.  An empty object means the repository itself, and the working directory
\* cannot be removed: the file system throws.
DeleteDirectory(repository, object) ==
  LET path == FullPath(repository, object)
  IN /\ uncaught = {}
     /\ ~HasWildcard(path)
     /\ IsRepository(repository)
     /\ Exists(path)
     /\ IsEmpty(path)
     /\ \/ /\ path # Root
           /\ Remove(path)
           /\ Forgets(path)
           /\ UNCHANGED uncaught
        \/ /\ path = Root
           /\ Throws(repository, object)

-----------------------------------------------------------------------------
\* Others write to a file they have permission to write.
WriteFile(path, content) ==
  /\ uncaught = {}
  /\ IsFile(path)
  /\ ~nodes[path].isLocked
  /\ nodes' = [nodes EXCEPT ![path].content = content]
  /\ UNCHANGED << uncaught, picture >>

Next ==
  \/ \E repository \in RepositoryPaths, object \in ObjectPaths :
       \/ \E size \in FileSizes, isFileLocked \in BOOLEAN :
            CreateFile(repository, object, size, isFileLocked)
       \/ DeleteFile(repository, object)
       \/ LockFile(repository, object)
       \/ UnlockFile(repository, object)
       \/ CreateDirectory(repository, object)
       \/ DeleteDirectory(repository, object)
  \/ \E path \in Paths, content \in Contents : WriteFile(path, content)

Spec == Init /\ [][Next]_vars

-----------------------------------------------------------------------------
(* Properties.                                                             *)

TypeOK ==
  /\ DOMAIN nodes \subseteq Paths \ { Root }
  /\ nodes \in [DOMAIN nodes -> { Directory } \cup File]
  /\ uncaught \subseteq Telecommand
  /\ picture \in [DOMAIN picture -> Pictured]

IsAsPictured(path) ==
  /\ nodes[path].type = picture[path].type
  /\ IsFile(path) => nodes[path].isLocked = picture[path].isLocked

\* Ground may take a telecommand that meets no error as carried out, although createFile looks
\* neither at what became of its stream nor at the answer of its lock: whatever ground and
\* others do, under whichever names, the tree holds nothing ground was not told of, and holds
\* what ground was told of, of the type and with the lock it asked for.  What is missing, or
\* ended the program by throwing, was named with directories between the repository and
\* the object (or is the working directory, which cannot be deleted).
AcceptedIsDone ==
  /\ \A path \in DOMAIN nodes : path \in DOMAIN picture /\ IsAsPictured(path)
  /\ \A path \in DOMAIN picture : picture[path].checked => path \in DOMAIN nodes
  /\ \A telecommand \in uncaught : Len(telecommand.object) # 1

HoldsUnderLock(path) ==
  /\ IsFile(path)
  /\ nodes[path].isLocked
  /\ nodes[path].content # NoContent

\* A locked file that holds something keeps it, and stays where it is, until it is unlocked,
\* whatever is done to it, by whichever repository and object it is named, or to the
\* directories above it.  (An empty one may be deleted as if it were a directory.)
LockedContentKept ==
  [][\A path \in DOMAIN nodes :
       HoldsUnderLock(path) =>
         /\ path \in DOMAIN nodes' /\ nodes'[path].type = "File"
         /\ nodes'[path].content = nodes[path].content
         /\ \A n \in 0 .. Len(path) - 1 :
              LET above == SubSeq(path, 1, n)
              IN above = Root \/ (above \in DOMAIN nodes' /\ nodes'[above].type = "Directory")]_vars
=============================================================================
