--------------------------- MODULE MC_FileManagement ---------------------------
(***************************************************************************)
(* An instance of FileManagement for TLC.                                  *)
(***************************************************************************)
EXTENDS FileManagement

MCRepositoryPaths == { << >>, << "a" >>, << "b" >> }

\* Nothing (also a name too long to be read), one component, two, and a wildcard.
MCObjectPaths == { << >>, << "a" >>, << "b" >>, << "b", "a" >>, << "*" >> }
=============================================================================
