----------------------------- MODULE FilePaths ------------------------------
(***************************************************************************)
(* Relative paths of a file system: a path is the sequence of its names.   *)
(***************************************************************************)
EXTENDS Sequences, SequencesExt

\* filepath.Clean of a relative path.
Clean(path) ==
    FoldLeft(LAMBDA done, name :
               IF name = "." THEN done
               ELSE IF name = ".." /\ done # <<>> /\ Last(done) # ".." THEN Front(done)
               ELSE Append(done, name), <<>>, path)

Escapes(path) == path # <<>> /\ Head(path) = ".."

Within(path, parent) == IsPrefix(parent, path)
=============================================================================
