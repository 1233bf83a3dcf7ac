--------------------------- MODULE MCOutputNames ----------------------------
\* A folder with two subfolders, one of which has a subfolder again, and all of
\* them with the same name: the worst case for the search of a free name.  A name
\* that needs cleaning is "a/b"; it becomes "a_b".
EXTENDS OutputNames

MCFolders == {"root", "left", "right", "inner"}
MCAbove == [f \in MCFolders |-> IF f = "inner" THEN "left" ELSE "root"]

\* The innermost folder may have the name of a file of its outer folder instead.
MCModes == {"normal", "recurse", "kmail", "separate"}
Fred == [f \in MCFolders |-> "fred"]
MCNames == [m \in MCModes |->
  CASE m = "recurse"  -> {Fred, [Fred EXCEPT !["inner"] = "mbox"]}
    [] m = "separate" -> {Fred, [Fred EXCEPT !["inner"] = "1"]}
    [] OTHER          -> {Fred}]
MCSlashNames == [m \in MCModes |-> {[f \in MCFolders |-> "a/b"]}]
MCClean == [s \in {"fred", "mbox", "1", "a/b", "a_b"} |-> IF s = "a/b" THEN "a_b" ELSE s]
=============================================================================
