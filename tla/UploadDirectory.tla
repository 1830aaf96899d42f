-------------------------- MODULE UploadDirectory --------------------------
(***************************************************************************)
(* The upload directory of one project, which the Slither and the fuzzing  *)
(* task read and the cleanup removes under them.                           *)
(***************************************************************************)
VARIABLE onDisk   \* the directory exists

DirectoryInit == onDisk = TRUE

\* The daily cleanup looks at the age of the directory, not for tasks.
RemoveDirectory == onDisk /\ onDisk' = FALSE
=============================================================================
