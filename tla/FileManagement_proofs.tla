------------------------ MODULE FileManagement_proofs ------------------------
(***************************************************************************)
(* Proofs about FileManagement, for every value of its constants.          *)
(***************************************************************************)
EXTENDS FileManagement, SequenceTheorems, TLAPS

(* The inductive invariant: not only the directory a node is in, but all   *)
(* above it are there.                                                     *)
AncestorsIntact ==
  \A path \in DOMAIN nodes : \A n \in 0 .. Len(path) - 1 : IsDirectory(SubSeq(path, 1, n))

IInv == TypeOK /\ AncestorsIntact

\* The part of TypeOK that is not about the nodes.
HistoryTyped ==
  /\ uncaught \subseteq Telecommand
  /\ picture \in [DOMAIN picture -> Pictured]

-----------------------------------------------------------------------------
(* Paths.                                                                  *)

\* Prefixes of a path: how long they are, and that their prefixes are the path's.
LEMMA Prefixes ==
  ASSUME NEW path \in Seq(Names), NEW n \in 0 .. Len(path)
  PROVE  /\ SubSeq(path, 1, n) \in Seq(Names)
         /\ Len(SubSeq(path, 1, n)) = n
         /\ \A m \in 0 .. n : SubSeq(SubSeq(path, 1, n), 1, m) = SubSeq(path, 1, m)
<1>1. n \in Int /\ Len(path) \in Nat /\ \A i \in 1 .. n : path[i] \in Names
  BY LenProperties, ElementOfSeq
<1> DEFINE prefix == SubSeq(path, 1, n)
<1>2. /\ prefix \in Seq(Names)
      /\ Len(prefix) = n
      /\ \A i \in 1 .. n : prefix[i] = path[i]
  BY <1>1, SubSeqProperties
<1>3. ASSUME NEW m \in 0 .. n
      PROVE  SubSeq(prefix, 1, m) = SubSeq(path, 1, m)
  <2>1. m \in Int /\ \A i \in 1 .. m : prefix[i] = path[i] /\ path[i] \in Names
    BY <1>1, <1>2
  <2>2. /\ SubSeq(prefix, 1, m) \in Seq(Names)
        /\ Len(SubSeq(prefix, 1, m)) = m
        /\ \A i \in 1 .. m : SubSeq(prefix, 1, m)[i] = prefix[i]
    <3> HIDE DEF prefix
    <3> QED BY <2>1, SubSeqProperties
  <2>3. /\ SubSeq(path, 1, m) \in Seq(Names)
        /\ Len(SubSeq(path, 1, m)) = m
        /\ \A i \in 1 .. m : SubSeq(path, 1, m)[i] = path[i]
    BY <2>1, SubSeqProperties
  <2> HIDE DEF prefix
  <2>4. QED BY <2>1, <2>2, <2>3, SeqEqual
<1>4. QED BY <1>2, <1>3

\* A path that a telecommand names is a sequence of names; any but the working
\* directory is itself a prefix of its own after those above it.
LEMMA PathIsSeq ==
  ASSUME NEW path \in Paths
  PROVE  /\ path \in Seq(Names)
         /\ SubSeq(path, 1, Len(path)) = path
         /\ path # Root => Len(path) \in Nat \ {0}
<1>1. PICK repository \in RepositoryPaths, object \in ObjectPaths : path = repository \o object
  BY DEF Paths
<1>2. path \in Seq(Names)
  BY <1>1, ConstantsAssumption, ConcatProperties
<1>3. QED BY <1>2, SubSeqFull, EmptySeq DEF Root

-----------------------------------------------------------------------------
(* What the three kinds of step do to the tree.                            *)

LEMMA NodesArePaths ==
  ASSUME TypeOK, NEW path \in DOMAIN nodes
  PROVE  path \in Paths /\ path # Root /\ nodes[path] \in { Directory } \cup File
BY DEF TypeOK

\* A new node in a directory that exists.
LEMMA AddKeeps ==
  ASSUME IInv, HistoryTyped',
         NEW path \in Paths, ~Exists(path), TakesNode(path),
         NEW node \in { Directory } \cup File, Add(path, node)
  PROVE  IInv'
<1>1. path # Root /\ path \notin DOMAIN nodes
  BY DEF Exists
<1>2. /\ DOMAIN nodes' = DOMAIN nodes \cup { path }
      /\ nodes'[path] = node
      /\ \A p \in DOMAIN nodes : nodes'[p] = nodes[p]
  BY <1>1 DEF Add
<1>3. TypeOK'
  BY <1>1, <1>2 DEF IInv, TypeOK, HistoryTyped, Add
<1>4. ASSUME NEW p, IsDirectory(p)
      PROVE  IsDirectory(p)'
  BY <1>1, <1>2, <1>4 DEF IsDirectory
<1>5. ASSUME NEW p \in DOMAIN nodes', NEW n \in 0 .. Len(p) - 1
      PROVE  IsDirectory(SubSeq(p, 1, n))
  <2>1. CASE p \in DOMAIN nodes
    BY <2>1, <1>5 DEF IInv, AncestorsIntact
  <2>2. CASE p = path
    <3> DEFINE parent == SubSeq(path, 1, Len(path) - 1)
    <3>1. path \in Seq(Names) /\ Len(path) \in Nat \ {0} /\ n \in 0 .. Len(path) - 1
      BY <1>1, <1>5, <2>2, PathIsSeq
    <3>2. IsDirectory(parent)
      BY DEF TakesNode, Parent
    <3>3. /\ Len(parent) = Len(path) - 1
          /\ SubSeq(parent, 1, n) = SubSeq(path, 1, n)
          /\ parent \in Seq(Names)
      <4>1. Len(path) - 1 \in 0 .. Len(path) /\ n \in 0 .. Len(path) - 1
        BY <3>1
      <4>2. QED BY <3>1, <4>1, Prefixes
    <3>4. CASE n = Len(path) - 1
      BY <2>2, <3>2, <3>4
    <3>5. CASE n < Len(path) - 1
      <4> HIDE DEF parent
      <4>1. parent # Root /\ n \in 0 .. Len(parent) - 1
        <5>1. n \in Nat /\ Len(parent) # 0 /\ n \in 0 .. Len(parent) - 1
          BY <3>1, <3>3, <3>5
        <5>2. QED BY <5>1 DEF Root
      <4>2. parent \in DOMAIN nodes
        BY <3>2, <4>1 DEF IsDirectory
      <4>3. IsDirectory(SubSeq(parent, 1, n))
        BY <4>1, <4>2 DEF IInv, AncestorsIntact
      <4>4. QED BY <2>2, <3>3, <4>3
    <3>6. QED BY <3>1, <3>4, <3>5
  <2>3. QED BY <1>2, <2>1, <2>2
<1>6. AncestorsIntact'
  BY <1>4, <1>5 DEF AncestorsIntact
<1>7. QED BY <1>3, <1>6 DEF IInv

\* A file, or a directory without anything in it, is taken away.
LEMMA RemoveKeeps ==
  ASSUME IInv, HistoryTyped',
         NEW path \in DOMAIN nodes, Remove(path),
         IsDirectory(path) => Children(path) = {}
  PROVE  IInv'
<1>1. /\ DOMAIN nodes' = DOMAIN nodes \ { path }
      /\ \A p \in DOMAIN nodes \ { path } : nodes'[p] = nodes[p]
      /\ nodes' = [p \in DOMAIN nodes \ { path } |-> nodes[p]]
  BY DEF Remove, Restrict
<1>2. TypeOK'
  BY <1>1 DEF IInv, TypeOK, HistoryTyped
<1>3. ASSUME NEW p \in DOMAIN nodes', NEW n \in 0 .. Len(p) - 1
      PROVE  IsDirectory(SubSeq(p, 1, n))'
  <2>1. p \in DOMAIN nodes /\ p # path
    BY <1>1
  <2>2. p \in Seq(Names) /\ Len(p) \in Nat \ {0} /\ SubSeq(p, 1, Len(p)) = p /\ p # Root
    BY <2>1, NodesArePaths, PathIsSeq DEF IInv
  <2>3. IsDirectory(SubSeq(p, 1, n))
    BY <2>1, <1>3 DEF IInv, AncestorsIntact
  <2>4. SubSeq(p, 1, n) # path
    <3> SUFFICES ASSUME SubSeq(p, 1, n) = path
                 PROVE  FALSE
      OBVIOUS
    <3> DEFINE below == SubSeq(p, 1, n + 1)
    <3>1. below \in Seq(Names) /\ Len(below) = n + 1 /\ SubSeq(below, 1, n) = path
      BY <1>3, <2>2, Prefixes
    <3>2. below \in DOMAIN nodes
      <4>1. CASE n + 1 = Len(p)
        BY <2>1, <2>2, <4>1
      <4>2. CASE n + 1 # Len(p)
        <5>1. n + 1 \in 0 .. Len(p) - 1
          <6>1. n \in 0 .. Len(p) - 1 /\ Len(p) \in Nat
            BY <1>3, <2>2
          <6>2. QED BY <6>1, <4>2
        <5>2. IsDirectory(below)
          BY <2>1, <5>1 DEF IInv, AncestorsIntact
        <5>3. below # Root
          <6> HIDE DEF below
          <6> QED BY <3>1, <1>3, <2>2 DEF Root
        <5>4. QED BY <5>2, <5>3 DEF IsDirectory
      <4>3. QED BY <4>1, <4>2
    <3> HIDE DEF below
    <3>3. Parent(below) = path /\ below # Root
      <4>1. Len(below) - 1 = n /\ Len(below) # 0
        BY <3>1, <1>3, <2>2
      <4>2. QED BY <3>1, <4>1 DEF Parent, Root
    <3>4. below \in Children(path)
      BY <3>2, <3>3 DEF Children
    <3>5. QED BY <2>3, <3>4
  <2>5. QED BY <1>1, <2>3, <2>4 DEF IsDirectory
<1>4. AncestorsIntact'
  BY <1>3 DEF AncestorsIntact
<1>5. QED BY <1>2, <1>4 DEF IInv

\* A file stays a file where it is.
LEMMA RewriteKeeps ==
  ASSUME IInv, HistoryTyped',
         NEW path, IsFile(path), NEW file \in File,
         nodes' = [nodes EXCEPT ![path] = file]
  PROVE  IInv'
<1>1. path \in DOMAIN nodes /\ nodes[path].type = "File" /\ file.type = "File"
  BY DEF IsFile, File
<1>2. /\ DOMAIN nodes' = DOMAIN nodes
      /\ nodes'[path] = file
      /\ \A p \in DOMAIN nodes : p # path => nodes'[p] = nodes[p]
  BY <1>1
<1>3. TypeOK'
  BY <1>1 DEF IInv, TypeOK, HistoryTyped
<1>4. ASSUME NEW p, IsDirectory(p)
      PROVE  IsDirectory(p)'
  BY <1>1, <1>2, <1>4 DEF IsDirectory
<1>5. AncestorsIntact'
  BY <1>2, <1>4 DEF IInv, AncestorsIntact
<1>6. QED BY <1>3, <1>5 DEF IInv

\* A node without permissions, or one that stays a file, is typed.
LEMMA FileRecords ==
  ASSUME IInv, NEW path, IsFile(path), NEW content \in Contents, NEW isLocked \in BOOLEAN
  PROVE  /\ nodes[path] \in File
         /\ [nodes[path] EXCEPT !.isLocked = isLocked] \in File
         /\ [nodes[path] EXCEPT !.content = content] \in File
<1>1. nodes[path] \in { Directory } \cup File /\ nodes[path].type = "File"
  BY NodesArePaths DEF IInv, IsFile
<1>2. nodes[path] \in File
  BY <1>1 DEF Directory
<1>3. QED BY <1>2 DEF File

-----------------------------------------------------------------------------
(* What ground learns.                                                     *)

\* What the picture holds once ground has learnt of a node, or of its end.
LEMMA PictureChanges ==
  ASSUME IInv, NEW path
  PROVE  /\ \A node \in Pictured :
              Learns(path, node) =>
                /\ picture' \in [DOMAIN picture' -> Pictured]
                /\ DOMAIN picture' = DOMAIN picture \cup { path }
                /\ picture'[path] = node
                /\ \A p \in DOMAIN picture \ { path } : picture'[p] = picture[p]
         /\ Forgets(path) =>
                /\ picture' \in [DOMAIN picture' -> Pictured]
                /\ DOMAIN picture' = DOMAIN picture \ { path }
                /\ \A p \in DOMAIN picture \ { path } : picture'[p] = picture[p]
<1>1. picture \in [DOMAIN picture -> Pictured]
  BY DEF IInv, TypeOK
<1>2. QED BY <1>1 DEF Learns, Forgets, Restrict

\* The telecommand that threw is one ground may send.
LEMMA ThrowsTyped ==
  ASSUME IInv, NEW repository \in RepositoryPaths, NEW object \in ObjectPaths,
         Throws(repository, object)
  PROVE  HistoryTyped'
BY DEF Throws, HistoryTyped, IInv, TypeOK, Telecommand

\* What ground learns from a telecommand that creates or locks is typed.
LEMMA PicturedNodes ==
  ASSUME NEW isLocked \in BOOLEAN, NEW object
  PROVE  /\ [type |-> "File", isLocked |-> isLocked, checked |-> Len(object) = 1] \in Pictured
         /\ [type |-> "File", isLocked |-> isLocked, checked |-> TRUE] \in Pictured
         /\ [type |-> "Directory", isLocked |-> FALSE, checked |-> Len(object) = 1] \in Pictured
BY DEF Pictured

-----------------------------------------------------------------------------
(* The steps.                                                              *)

LEMMA InitInvariant == Init => IInv
<1> SUFFICES ASSUME Init
             PROVE  IInv
  OBVIOUS
<1>1. DOMAIN nodes = {} /\ DOMAIN picture = {} /\ uncaught = {}
  <2>1. DOMAIN nodes = 1 .. 0 /\ picture = nodes
    BY EmptySeq, LenProperties DEF Init
  <2>2. uncaught = {}
    BY DEF Init
  <2>3. 1 .. 0 = {}
    OBVIOUS
  <2>4. QED BY <2>1, <2>2, <2>3
<1>2. /\ nodes = [path \in DOMAIN nodes |-> nodes[path]]
      /\ picture = [path \in DOMAIN picture |-> picture[path]]
  BY DEF Init
<1>3. QED BY <1>1, <1>2 DEF IInv, TypeOK, AncestorsIntact

LEMMA CreateFileInvariant ==
  ASSUME IInv, NEW repository \in RepositoryPaths, NEW object \in ObjectPaths,
         NEW size \in FileSizes, NEW isFileLocked \in BOOLEAN,
         CreateFile(repository, object, size, isFileLocked)
  PROVE  IInv'
<1> DEFINE path == FullPath(repository, object)
           node == [type |-> "File", isLocked |-> isFileLocked, content |-> NoContent]
<1>1. path \in Paths /\ node \in File /\ ~Exists(path)
  BY ConstantsAssumption DEF CreateFile, FullPath, Paths, File
<1>0. HistoryTyped'
  <2>1. uncaught' = uncaught
    BY DEF CreateFile
  <2>2. picture' \in [DOMAIN picture' -> Pictured]
    BY PictureChanges, PicturedNodes DEF CreateFile
  <2>3. QED BY <2>1, <2>2 DEF HistoryTyped, IInv, TypeOK
<1>2. CASE TakesNode(path) /\ Add(path, node)
  BY <1>0, <1>1, <1>2, AddKeeps
<1>3. CASE UNCHANGED nodes
  BY <1>0, <1>3 DEF IInv, TypeOK, HistoryTyped, AncestorsIntact, IsDirectory
<1>4. QED BY <1>2, <1>3 DEF CreateFile

LEMMA DeleteFileInvariant ==
  ASSUME IInv, NEW repository \in RepositoryPaths, NEW object \in ObjectPaths,
         DeleteFile(repository, object)
  PROVE  IInv'
<1> DEFINE path == FullPath(repository, object)
<1>1. /\ IsFile(path) /\ Remove(path) /\ Forgets(path) /\ uncaught' = uncaught
  BY DEF DeleteFile, MayDeleteFile
<1>0. HistoryTyped'
  BY <1>1, PictureChanges DEF HistoryTyped, IInv, TypeOK
<1>2. path \in DOMAIN nodes /\ path # Root /\ ~IsDirectory(path)
  BY <1>1, NodesArePaths DEF IInv, IsFile, IsDirectory
<1> HIDE DEF path
<1>3. QED BY <1>0, <1>1, <1>2, RemoveKeeps

LEMMA SetLockInvariant ==
  ASSUME IInv, NEW repository \in RepositoryPaths, NEW object \in ObjectPaths,
         NEW isLocked \in BOOLEAN, SetLock(repository, object, isLocked)
  PROVE  IInv'
<1> DEFINE path == FullPath(repository, object)
           file == [nodes[path] EXCEPT !.isLocked = isLocked]
<1>1. IsFile(path)
  BY DEF SetLock
<1>0. HistoryTyped'
  <2>1. uncaught' = uncaught
    BY DEF SetLock
  <2>2. picture' \in [DOMAIN picture' -> Pictured]
    BY PictureChanges, PicturedNodes DEF SetLock
  <2>3. QED BY <2>1, <2>2 DEF HistoryTyped, IInv, TypeOK
<1>2. nodes' = [nodes EXCEPT ![path] = file]
  BY DEF SetLock
<1>3. file \in File
  <2>1. PICK content \in Contents : TRUE
    BY ConstantsAssumption
  <2>2. QED BY <1>1, <2>1, FileRecords
<1> HIDE DEF path, file
<1>4. QED BY <1>0, <1>1, <1>2, <1>3, RewriteKeeps

LEMMA CreateDirectoryInvariant ==
  ASSUME IInv, NEW repository \in RepositoryPaths, NEW object \in ObjectPaths,
         CreateDirectory(repository, object)
  PROVE  IInv'
<1> DEFINE path == FullPath(repository, object)
<1>1. path \in Paths /\ ~Exists(path)
  BY DEF FullPath, Paths, CreateDirectory
<1>0. HistoryTyped'
  <2>1. CASE Throws(repository, object)
    BY <2>1, ThrowsTyped
  <2>2. CASE uncaught' = uncaught
    <3>1. picture' \in [DOMAIN picture' -> Pictured]
      BY <2>2, PictureChanges, PicturedNodes DEF CreateDirectory, Throws, IInv, TypeOK
    <3>2. QED BY <2>2, <3>1 DEF HistoryTyped, IInv, TypeOK
  <2>3. QED BY <2>1, <2>2 DEF CreateDirectory
<1>2. CASE TakesNode(path) /\ Add(path, Directory)
  BY <1>0, <1>1, <1>2, AddKeeps
<1>3. CASE UNCHANGED nodes
  BY <1>0, <1>3 DEF IInv, TypeOK, HistoryTyped, AncestorsIntact, IsDirectory
<1>4. QED BY <1>2, <1>3 DEF CreateDirectory, Throws

LEMMA DeleteDirectoryInvariant ==
  ASSUME IInv, NEW repository \in RepositoryPaths, NEW object \in ObjectPaths,
         DeleteDirectory(repository, object)
  PROVE  IInv'
<1> DEFINE path == FullPath(repository, object)
<1>1. Exists(path) /\ IsEmpty(path)
  BY DEF DeleteDirectory
<1>0. HistoryTyped'
  <2>1. CASE Throws(repository, object)
    BY <2>1, ThrowsTyped
  <2>2. CASE Forgets(path) /\ uncaught' = uncaught
    BY <2>2, PictureChanges DEF HistoryTyped, IInv, TypeOK
  <2>3. QED BY <2>1, <2>2 DEF DeleteDirectory
<1>2. CASE path # Root /\ Remove(path)
  <2>1. path \in DOMAIN nodes /\ (IsDirectory(path) => Children(path) = {})
    BY <1>1, <1>2 DEF Exists, IsEmpty
  <2> HIDE DEF path
  <2>2. QED BY <1>0, <1>1, <1>2, <2>1, RemoveKeeps
<1>3. CASE UNCHANGED nodes
  BY <1>0, <1>3 DEF IInv, TypeOK, HistoryTyped, AncestorsIntact, IsDirectory
<1>4. QED BY <1>2, <1>3 DEF DeleteDirectory, Throws

LEMMA WriteFileInvariant ==
  ASSUME IInv, NEW path \in Paths, NEW content \in Contents, WriteFile(path, content)
  PROVE  IInv'
<1> DEFINE file == [nodes[path] EXCEPT !.content = content]
<1>1. IsFile(path)
  BY DEF WriteFile
<1>0. HistoryTyped'
  BY DEF WriteFile, HistoryTyped, IInv, TypeOK
<1>2. nodes' = [nodes EXCEPT ![path] = file]
  BY DEF WriteFile
<1>3. file \in File
  BY <1>1, FileRecords
<1> HIDE DEF file
<1>4. QED BY <1>0, <1>1, <1>2, <1>3, RewriteKeeps

LEMMA NextInvariant == IInv /\ [Next]_vars => IInv'
<1> SUFFICES ASSUME IInv, [Next]_vars
             PROVE  IInv'
  OBVIOUS
<1>1. ASSUME NEW repository \in RepositoryPaths, NEW object \in ObjectPaths,
             NEW size \in FileSizes, NEW isFileLocked \in BOOLEAN,
             CreateFile(repository, object, size, isFileLocked)
      PROVE  IInv'
  BY <1>1, CreateFileInvariant
<1>2. ASSUME NEW repository \in RepositoryPaths, NEW object \in ObjectPaths
      PROVE  /\ DeleteFile(repository, object) => IInv'
             /\ LockFile(repository, object) => IInv'
             /\ UnlockFile(repository, object) => IInv'
             /\ CreateDirectory(repository, object) => IInv'
             /\ DeleteDirectory(repository, object) => IInv'
  BY <1>2, DeleteFileInvariant, SetLockInvariant, CreateDirectoryInvariant,
     DeleteDirectoryInvariant DEF LockFile, UnlockFile
<1>3. ASSUME NEW path \in Paths, NEW content \in Contents, WriteFile(path, content)
      PROVE  IInv'
  BY <1>3, WriteFileInvariant
<1>4. CASE UNCHANGED vars
  BY <1>4 DEF vars, IInv, TypeOK, AncestorsIntact, IsDirectory
<1>5. QED BY <1>1, <1>2, <1>3, <1>4 DEF Next

\* The tree is typed and whole, whatever ground sends and others write.
THEOREM Invariance == Spec => []IInv
BY InitInvariant, NextInvariant, PTL DEF Spec

-----------------------------------------------------------------------------
(* The properties.                                                         *)

\* TypeOK: every node is below the working directory, a file or a directory
\* (Filesystem::getNodeType).
THEOREM TypeCorrect == Spec => []TypeOK
<1>1. IInv => TypeOK
  BY DEF IInv
<1>2. QED BY <1>1, Invariance, PTL

\* What the service looks at is enough: an object named right in its repository has a
\* directory to go into.
LEMMA CheckedHasPlace ==
  ASSUME NEW repository \in RepositoryPaths, NEW object \in ObjectPaths,
         IsRepository(repository), Len(object) = 1
  PROVE  TakesNode(FullPath(repository, object))
<1>1. repository \in Seq(Names) /\ object \in Seq(Names)
  BY ConstantsAssumption
<1> DEFINE path == repository \o object
<1>2. path \in Seq(Names) /\ Len(path) = Len(repository) + 1 /\ Len(repository) \in Nat
  <2>1. path \in Seq(Names) /\ Len(path) = Len(repository) + Len(object)
    BY <1>1, ConcatProperties
  <2>2. Len(repository) \in Nat
    BY <1>1, LenProperties
  <2> HIDE DEF path
  <2>3. QED BY <2>1, <2>2
<1>3. \A i \in 1 .. Len(repository) : path[i] = repository[i]
  BY <1>1, ConcatProperties, LenProperties
<1>4. Parent(path) = repository
  <2>1. Len(path) - 1 = Len(repository) /\ \A i \in 1 .. Len(repository) : path[i] \in Names
    BY <1>1, <1>2, <1>3, ElementOfSeq
  <2> HIDE DEF path
  <2>2. /\ SubSeq(path, 1, Len(repository)) \in Seq(Names)
        /\ Len(SubSeq(path, 1, Len(repository))) = Len(repository)
        /\ \A i \in 1 .. Len(repository) : SubSeq(path, 1, Len(repository))[i] = path[i]
    BY <1>2, <2>1, SubSeqProperties
  <2>3. SubSeq(path, 1, Len(repository)) = repository
    BY <1>1, <1>3, <2>2, SeqEqual
  <2>4. QED BY <2>1, <2>3 DEF Parent
<1>5. QED BY <1>4 DEF TakesNode, FullPath, IsRepository

\* A telecommand that met no error and created, or changed, one node.
LEMMA LearntIsSo ==
  ASSUME IInv, AcceptedIsDone, UNCHANGED uncaught,
         NEW path, NEW node \in Pictured, Learns(path, node),
         DOMAIN nodes' \ { path } = DOMAIN nodes \ { path },
         \A p \in DOMAIN nodes \ { path } : nodes'[p] = nodes[p],
         path \in DOMAIN nodes' =>
           /\ nodes'[path].type = node.type
           /\ node.type = "File" => nodes'[path].isLocked = node.isLocked,
         node.checked => path \in DOMAIN nodes'
  PROVE  AcceptedIsDone'
<1>1. /\ DOMAIN picture' = DOMAIN picture \cup { path }
      /\ picture'[path] = node
      /\ \A p \in DOMAIN picture \ { path } : picture'[p] = picture[p]
  BY PictureChanges
<1>2. ASSUME NEW p \in DOMAIN nodes'
      PROVE  p \in DOMAIN picture' /\ IsAsPictured(p)'
  <2>1. CASE p = path
    BY <1>1, <1>2, <2>1 DEF IsAsPictured, IsFile
  <2>2. CASE p # path
    BY <1>1, <1>2, <2>2 DEF AcceptedIsDone, IsAsPictured, IsFile
  <2>3. QED BY <2>1, <2>2
<1>3. ASSUME NEW p \in DOMAIN picture', picture'[p].checked
      PROVE  p \in DOMAIN nodes'
  BY <1>1, <1>3 DEF AcceptedIsDone
<1>4. QED BY <1>2, <1>3 DEF AcceptedIsDone

\* One that met no error and deleted a node.
LEMMA ForgottenIsGone ==
  ASSUME IInv, AcceptedIsDone, UNCHANGED uncaught, NEW path, Remove(path), Forgets(path)
  PROVE  AcceptedIsDone'
<1>1. /\ DOMAIN picture' = DOMAIN picture \ { path }
      /\ \A p \in DOMAIN picture \ { path } : picture'[p] = picture[p]
  BY PictureChanges
<1>2. /\ DOMAIN nodes' = DOMAIN nodes \ { path }
      /\ \A p \in DOMAIN nodes \ { path } : nodes'[p] = nodes[p]
  BY DEF Remove, Restrict
<1>3. QED BY <1>1, <1>2 DEF AcceptedIsDone, IsAsPictured, IsFile

\* One that threw.
LEMMA ThrownIsUnchecked ==
  ASSUME AcceptedIsDone, NEW repository, NEW object, Throws(repository, object), Len(object) # 1
  PROVE  AcceptedIsDone'
BY DEF AcceptedIsDone, Throws, IsAsPictured, IsFile

LEMMA InitAccepted == Init => AcceptedIsDone
<1> SUFFICES ASSUME Init
             PROVE  AcceptedIsDone
  OBVIOUS
<1>1. DOMAIN nodes = 1 .. 0 /\ DOMAIN picture = 1 .. 0 /\ uncaught = {}
  BY EmptySeq, LenProperties DEF Init
<1>2. 1 .. 0 = {}
  OBVIOUS
<1>3. QED BY <1>1, <1>2 DEF AcceptedIsDone

LEMMA CreateFileAccepted ==
  ASSUME IInv, AcceptedIsDone, NEW repository \in RepositoryPaths, NEW object \in ObjectPaths,
         NEW size \in FileSizes, NEW isFileLocked \in BOOLEAN,
         CreateFile(repository, object, size, isFileLocked)
  PROVE  AcceptedIsDone'
<1> DEFINE path == FullPath(repository, object)
           file == [type |-> "File", isLocked |-> isFileLocked, content |-> NoContent]
           node == [type |-> "File", isLocked |-> isFileLocked, checked |-> Len(object) = 1]
<1>1. node \in Pictured /\ Learns(path, node) /\ UNCHANGED uncaught /\ path \notin DOMAIN nodes
  BY PicturedNodes DEF CreateFile, Exists
<1>2. CASE Add(path, file)
  <2>1. /\ DOMAIN nodes' = DOMAIN nodes \cup { path }
        /\ nodes'[path] = file
        /\ \A p \in DOMAIN nodes \ { path } : nodes'[p] = nodes[p]
    BY <1>2 DEF Add
  <2>2. nodes'[path].type = node.type /\ nodes'[path].isLocked = node.isLocked
    BY <2>1
  <2> HIDE DEF path, file, node
  <2>3. QED BY <1>1, <2>1, <2>2, LearntIsSo
<1>3. CASE ~TakesNode(path) /\ UNCHANGED nodes
  <2>1. ~node.checked
    BY <1>3, CheckedHasPlace DEF CreateFile
  <2> HIDE DEF path, file, node
  <2>2. QED BY <1>1, <1>3, <2>1, LearntIsSo
<1>4. QED BY <1>2, <1>3 DEF CreateFile

LEMMA SetLockAccepted ==
  ASSUME IInv, AcceptedIsDone, NEW repository \in RepositoryPaths, NEW object \in ObjectPaths,
         NEW isLocked \in BOOLEAN, SetLock(repository, object, isLocked)
  PROVE  AcceptedIsDone'
<1> DEFINE path == FullPath(repository, object)
           node == [type |-> "File", isLocked |-> isLocked, checked |-> TRUE]
<1>1. node \in Pictured /\ Learns(path, node) /\ UNCHANGED uncaught /\ IsFile(path)
  BY PicturedNodes DEF SetLock
<1>2. nodes[path] \in File /\ path \in DOMAIN nodes
  <2>1. PICK content \in Contents : TRUE
    BY ConstantsAssumption
  <2>2. QED BY <1>1, <2>1, FileRecords DEF IsFile
<1>3. /\ DOMAIN nodes' = DOMAIN nodes
      /\ nodes'[path] = [nodes[path] EXCEPT !.isLocked = isLocked]
      /\ \A p \in DOMAIN nodes \ { path } : nodes'[p] = nodes[p]
  BY <1>2 DEF SetLock
<1>4. nodes'[path].type = node.type /\ nodes'[path].isLocked = node.isLocked
  BY <1>2, <1>3 DEF File
<1> HIDE DEF path, node
<1>5. QED BY <1>1, <1>2, <1>3, <1>4, LearntIsSo

LEMMA CreateDirectoryAccepted ==
  ASSUME IInv, AcceptedIsDone, NEW repository \in RepositoryPaths, NEW object \in ObjectPaths,
         CreateDirectory(repository, object)
  PROVE  AcceptedIsDone'
<1> DEFINE path == FullPath(repository, object)
           node == [type |-> "Directory", isLocked |-> FALSE, checked |-> Len(object) = 1]
<1>1. node \in Pictured /\ path \notin DOMAIN nodes /\ IsRepository(repository)
  BY PicturedNodes DEF CreateDirectory, Exists
<1>2. CASE Add(path, Directory) /\ Learns(path, node) /\ UNCHANGED uncaught
  <2>1. /\ DOMAIN nodes' = DOMAIN nodes \cup { path }
        /\ nodes'[path] = Directory
        /\ \A p \in DOMAIN nodes \ { path } : nodes'[p] = nodes[p]
    BY <1>2 DEF Add
  <2>2. nodes'[path].type = node.type /\ node.type # "File"
    BY <2>1 DEF Directory
  <2> HIDE DEF path, node
  <2>3. QED BY <1>1, <1>2, <2>1, <2>2, LearntIsSo
<1>3. CASE ~TakesNode(path) /\ Throws(repository, object)
  <2>1. Len(object) # 1
    BY <1>1, <1>3, CheckedHasPlace
  <2>2. QED BY <1>3, <2>1, ThrownIsUnchecked
<1>4. QED BY <1>2, <1>3 DEF CreateDirectory

LEMMA DeleteDirectoryAccepted ==
  ASSUME IInv, AcceptedIsDone, NEW repository \in RepositoryPaths, NEW object \in ObjectPaths,
         DeleteDirectory(repository, object)
  PROVE  AcceptedIsDone'
<1> DEFINE path == FullPath(repository, object)
<1>1. CASE Remove(path) /\ Forgets(path) /\ UNCHANGED uncaught
  <2> HIDE DEF path
  <2>1. QED BY <1>1, ForgottenIsGone
<1>2. CASE path = Root /\ Throws(repository, object)
  <2>1. /\ Len(path) = Len(repository) + Len(object)
        /\ Len(repository) \in Nat /\ Len(object) \in Nat
    BY ConstantsAssumption, ConcatProperties, LenProperties DEF FullPath
  <2>2. Len(path) = 0
    BY <1>2, EmptySeq DEF Root
  <2>3. Len(object) # 1
    <3> HIDE DEF path
    <3>1. QED BY <2>1, <2>2, SMTT(30)
  <2>4. QED BY <1>2, <2>3, ThrownIsUnchecked
<1>3. QED BY <1>1, <1>2 DEF DeleteDirectory

LEMMA WriteFileAccepted ==
  ASSUME IInv, AcceptedIsDone, NEW path \in Paths, NEW content \in Contents,
         WriteFile(path, content)
  PROVE  AcceptedIsDone'
<1>1. IsFile(path) /\ path \in DOMAIN nodes /\ UNCHANGED << uncaught, picture >>
  BY DEF WriteFile, IsFile
<1>2. nodes[path] \in File
  BY <1>1, FileRecords
<1>3. /\ DOMAIN nodes' = DOMAIN nodes
      /\ \A p \in DOMAIN nodes \ { path } : nodes'[p] = nodes[p]
      /\ nodes'[path].type = nodes[path].type
      /\ nodes'[path].isLocked = nodes[path].isLocked
  BY <1>1, <1>2 DEF WriteFile, File
<1>4. QED BY <1>1, <1>3 DEF AcceptedIsDone, IsAsPictured, IsFile

\* AcceptedIsDone: the tree is what the telecommands without an error say it is, for trees and
\* names of any depth (FileManagementService::createFile, createDirectory and those that
\* delete, lock and unlock).
THEOREM AcceptedIsAlwaysDone == Spec => []AcceptedIsDone
<1>1. IInv /\ AcceptedIsDone /\ [Next]_vars => AcceptedIsDone'
  <2> SUFFICES ASSUME IInv, AcceptedIsDone, [Next]_vars
               PROVE  AcceptedIsDone'
    OBVIOUS
  <2>1. ASSUME NEW repository \in RepositoryPaths, NEW object \in ObjectPaths
        PROVE  /\ \A size \in FileSizes, isFileLocked \in BOOLEAN :
                     CreateFile(repository, object, size, isFileLocked) => AcceptedIsDone'
               /\ LockFile(repository, object) => AcceptedIsDone'
               /\ UnlockFile(repository, object) => AcceptedIsDone'
               /\ CreateDirectory(repository, object) => AcceptedIsDone'
               /\ DeleteDirectory(repository, object) => AcceptedIsDone'
    BY <2>1, CreateFileAccepted, SetLockAccepted, CreateDirectoryAccepted,
       DeleteDirectoryAccepted DEF LockFile, UnlockFile
  <2>2. ASSUME NEW repository \in RepositoryPaths, NEW object \in ObjectPaths,
               DeleteFile(repository, object)
        PROVE  AcceptedIsDone'
    BY <2>2, ForgottenIsGone DEF DeleteFile
  <2>3. ASSUME NEW path \in Paths, NEW content \in Contents, WriteFile(path, content)
        PROVE  AcceptedIsDone'
    BY <2>3, WriteFileAccepted
  <2>4. CASE UNCHANGED vars
    BY <2>4 DEF vars, AcceptedIsDone, IsAsPictured, IsFile
  <2>5. QED BY <2>1, <2>2, <2>3, <2>4 DEF Next
<1>2. QED BY <1>1, InitAccepted, Invariance, PTL DEF Spec

\* The file at the path is there after the step, with what it holds.
Kept(path) ==
  /\ path \in DOMAIN nodes'
  /\ nodes'[path].type = "File"
  /\ nodes'[path].content = nodes[path].content

\* What a step does to a file that is locked and holds something.
LEMMA LockHolds ==
  ASSUME IInv, [Next]_vars, NEW path \in DOMAIN nodes, HoldsUnderLock(path)
  PROVE  Kept(path)
<1>1. /\ path # Root
      /\ nodes[path] \in File /\ nodes[path].type = "File"
      /\ nodes[path].isLocked /\ nodes[path].content # NoContent
  BY NodesArePaths, FileRecords, ConstantsAssumption DEF IInv, HoldsUnderLock, IsFile
<1>2. ASSUME NEW other, ~Exists(other), NEW node, Add(other, node)
      PROVE  Kept(path)
  BY <1>1, <1>2 DEF Kept, Exists, Add
<1>3. ASSUME NEW other, other # path, Remove(other)
      PROVE  Kept(path)
  BY <1>1, <1>3 DEF Kept, Remove, Restrict
<1>4. ASSUME NEW repository \in RepositoryPaths, NEW object \in ObjectPaths,
             NEW size \in FileSizes, NEW isFileLocked \in BOOLEAN,
             CreateFile(repository, object, size, isFileLocked)
      PROVE  Kept(path)
  BY <1>1, <1>2, <1>4 DEF Kept, CreateFile
<1>5. ASSUME NEW repository \in RepositoryPaths, NEW object \in ObjectPaths,
             DeleteFile(repository, object)
      PROVE  Kept(path)
  BY <1>1, <1>3, <1>5 DEF DeleteFile, MayDeleteFile
<1>6. ASSUME NEW repository \in RepositoryPaths, NEW object \in ObjectPaths,
             NEW isLocked \in BOOLEAN, SetLock(repository, object, isLocked)
      PROVE  Kept(path)
  BY <1>1, <1>6 DEF Kept, SetLock, File
<1>7. ASSUME NEW repository \in RepositoryPaths, NEW object \in ObjectPaths,
             CreateDirectory(repository, object)
      PROVE  Kept(path)
  BY <1>1, <1>2, <1>7 DEF Kept, CreateDirectory, Throws
<1>8. ASSUME NEW repository \in RepositoryPaths, NEW object \in ObjectPaths,
             DeleteDirectory(repository, object)
      PROVE  Kept(path)
  <2>1. ~IsDirectory(path)
    BY <1>1 DEF IsDirectory
  <2>2. ~IsEmpty(path)
    BY <1>1, <2>1 DEF IsEmpty
  <2> DEFINE other == FullPath(repository, object)
  <2>3. IsEmpty(other) /\ (Remove(other) \/ UNCHANGED nodes)
    BY <1>8 DEF DeleteDirectory, Throws
  <2>4. other # path
    BY <2>2, <2>3
  <2> HIDE DEF other
  <2>5. CASE Remove(other)
    BY <1>3, <2>4, <2>5
  <2>6. CASE UNCHANGED nodes
    BY <1>1, <2>6 DEF Kept
  <2>7. QED BY <2>3, <2>5, <2>6
<1>9. ASSUME NEW other \in Paths, NEW content \in Contents, WriteFile(other, content)
      PROVE  Kept(path)
  BY <1>1, <1>9 DEF Kept, WriteFile
<1>10. CASE UNCHANGED vars
  BY <1>1, <1>10 DEF Kept, vars
<1>11. ASSUME NEW repository \in RepositoryPaths, NEW object \in ObjectPaths
       PROVE  /\ DeleteFile(repository, object) => Kept(path)
              /\ LockFile(repository, object) => Kept(path)
              /\ UnlockFile(repository, object) => Kept(path)
              /\ CreateDirectory(repository, object) => Kept(path)
              /\ DeleteDirectory(repository, object) => Kept(path)
  BY <1>5, <1>6, <1>7, <1>8, <1>11 DEF LockFile, UnlockFile
<1>12. QED
  BY <1>4, <1>9, <1>10, <1>11 DEF Next

\* LockedContentKept: a locked file that holds something keeps it, and its place under the
\* directories above it, in every step (Filesystem::deleteFile, deleteDirectory).
THEOREM LockedContentIsKept == Spec => LockedContentKept
<1>1. IInv /\ IInv' /\ [Next]_vars =>
        [\A path \in DOMAIN nodes :
           HoldsUnderLock(path) =>
             /\ path \in DOMAIN nodes' /\ nodes'[path].type = "File"
             /\ nodes'[path].content = nodes[path].content
             /\ \A n \in 0 .. Len(path) - 1 :
                  LET above == SubSeq(path, 1, n)
                  IN above = Root \/ (above \in DOMAIN nodes' /\ nodes'[above].type = "Directory")]_vars
  <2> SUFFICES ASSUME IInv, IInv', [Next]_vars, NEW path \in DOMAIN nodes, HoldsUnderLock(path)
               PROVE  /\ path \in DOMAIN nodes' /\ nodes'[path].type = "File"
                      /\ nodes'[path].content = nodes[path].content
                      /\ \A n \in 0 .. Len(path) - 1 :
                           LET above == SubSeq(path, 1, n)
                           IN \/ above = Root
                              \/ above \in DOMAIN nodes' /\ nodes'[above].type = "Directory"
    OBVIOUS
  <2>1. /\ path \in DOMAIN nodes' /\ nodes'[path].type = "File"
        /\ nodes'[path].content = nodes[path].content
    BY LockHolds DEF Kept
  <2>2. ASSUME NEW n \in 0 .. Len(path) - 1
        PROVE  \/ SubSeq(path, 1, n) = Root
               \/ /\ SubSeq(path, 1, n) \in DOMAIN nodes'
                  /\ nodes'[SubSeq(path, 1, n)].type = "Directory"
    BY <2>1 DEF IInv, AncestorsIntact, IsDirectory
  <2>3. QED BY <2>1, <2>2
<1>2. QED BY <1>1, Invariance, PTL DEF Spec, LockedContentKept
=============================================================================
