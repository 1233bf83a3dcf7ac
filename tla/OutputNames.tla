---------------------------- MODULE OutputNames -----------------------------
(***************************************************************************)
(* Where readpst puts its output: create_enter_dir() and close_enter_dir() *)
(* of readpst.c, with the functions that make directories and open files.  *)
(*                                                                         *)
(* Every folder of the pst file is worked on by an activation of           *)
(* process().  In a sequential run a folder runs inside the loop of the    *)
(* folder above it; in a parallel run try_fork may have made it a process  *)
(* of its own.  Of the four output files of a folder (mail, contacts,      *)
(* journal, calendar), whose names cannot meet, one is modelled, and of    *)
(* the numbered files of the separate modes the first.  Files and          *)
(* directories share the names of a directory.                             *)
(***************************************************************************)
EXTENDS Naturals, Sequences, FiniteSets, Functions

CONSTANTS Folders,   \* the folders of the pst file
          Root,      \* the top of folders
          Above,     \* Above[f]: the folder that holds f; Above[Root] is Root
          Names,     \* Names[m]: the names (file_as of every folder) tried in mode m
          Clean,     \* check_filename: "/", "\" and ":" become "_"
          Modes      \* "normal", or "recurse", "kmail", "separate": -r, -k, -S

ASSUME FoldersAssumption ==
  /\ IsFiniteSet(Folders) /\ Root \in Folders
  /\ Above \in [Folders -> Folders] /\ Above[Root] = Root
ASSUME CleanAssumption == \A m \in Modes : \A n \in Names[m] : \A f \in Folders :
                            Clean[Clean[n[f]]] = Clean[n[f]]
ASSUME ModesAssumption == Modes \subseteq {"normal", "recurse", "kmail", "separate"}

VARIABLES
  mode,       \* the mode of this run of readpst,
  overwrite,  \* -w,
  parallel,   \* and whether try_fork may fork
  name,       \* the names of the folders in the pst file, any strings
  pc,         \* where the activation for each folder is
  dir,        \* its working directory, below the output directory
  bump,       \* x of create_enter_dir, y of mk_separate_dir
  dirs,       \* the directories that exist
  entry,      \* the directory entries: the inode of every file that exists
  file,       \* the inode an activation has open
  data,       \* data[i]: the folders whose items can be read from inode i
  written,    \* history: the folders that have written their items
  raced       \* history: a name found free by its probe was taken at its opening

settings == <<mode, overwrite, parallel, name>>
tree == <<dirs, entry, data>>
vars == <<settings, pc, dir, bump, tree, file, written, raced>>

-----------------------------------------------------------------------------
\* A name that was bumped x times; an inode is named after the folder that
\* created it.
Path(d, s, x) == Append(d, <<s, x>>)

\* The name of the output file before and after check_filename.
FileName(f) == CASE mode = "recurse" -> "mbox"
                 [] mode = "separate" -> "1"
                 [] OTHER -> name[f]
CleanName(f) == IF mode \in {"recurse", "separate"} THEN FileName(f) ELSE Clean[name[f]]

\* The file of a folder; in separate mode the directories are bumped instead.
Target(f) == Path(dir[f], CleanName(f), IF mode = "separate" THEN 0 ELSE bump[f])
Exists(path) == path \in DOMAIN entry

\* mkdir says EEXIST to both, and fopen for reading opens a directory too.
InUse(path) == Exists(path) \/ path \in dirs

\* Mutant of Taken: a bumped name is not probed again.
TakenOnce(f) == bump[f] = 0 /\ InUse(Target(f))

\* fopen(temp, "r"): the plain name is probed cleaned, a bumped one as it is, and
\* no file has a name that needs cleaning.
Taken(f) == InUse(Target(f)) /\ (bump[f] > 0 => FileName(f) = CleanName(f))

Inside(f) == {g \in Folders \ {Root} : Above[g] = f}
Ended == {"refused", "dead"}
Active(f) == pc[f] \notin {"idle", "done"}

\* In a sequential run only the innermost activation runs, and none after DIE.
MayRun(f) == parallel \/ \A g \in Inside(f) : ~Active(g)

\* process() for f is called, or its process forked, in the loop of the folder
\* above it; the forked process may be slow.
MayEnter(f) ==
  \/ f = Root
  \/ pc[Above[f]] = "write" /\ MayRun(Above[f])
  \/ parallel /\ pc[Above[f]] \in {"stat", "remove", "done", "dead"}

At(f, label) == pc[f] = label /\ MayRun(f)
Goto(f, label) == pc' = [pc EXCEPT ![f] = label]

-----------------------------------------------------------------------------
Init ==
  /\ mode \in Modes /\ overwrite \in BOOLEAN /\ parallel \in BOOLEAN
  /\ name \in Names[mode]
  /\ pc = [f \in Folders |-> "idle"]
  /\ dir = [f \in Folders |-> <<>>]
  /\ bump = [f \in Folders |-> 0]
  /\ dirs = {<<>>}
  /\ entry = <<>>
  /\ file = [f \in Folders |-> Root]
  /\ data = [f \in Folders |-> {}]
  /\ written = {}
  /\ raced = FALSE

\* create_enter_dir: the working directory is that of the folder above.
Start(f) ==
  /\ At(f, "idle") /\ MayEnter(f)
  /\ dir' = [dir EXCEPT ![f] = dir[Above[f]]]
  /\ Goto(f, "enter")
  /\ UNCHANGED <<settings, bump, tree, file, written, raced>>

\* The directory of a folder without separate files: none in MODE_NORMAL, and
\* in MODE_KMAIL one with a name like no file's.
FolderDir(f) ==
  LET d == Path(dir[f], Clean[name[f]], 0)
  IN  CASE mode = "normal" -> dir[f]
        [] mode = "kmail"  -> Path(d, "directory", 0)
        [] OTHER           -> d

\* mk_recurse_dir and mk_kmail_dir make the directory unless it exists and
\* change to it.
Enter(f) ==
  /\ At(f, "enter") /\ mode # "separate"
  /\ dir[f] \in dirs /\ ~Exists(FolderDir(f))
  /\ dir' = [dir EXCEPT ![f] = FolderDir(f)]
  /\ dirs' = dirs \cup {FolderDir(f)}
  /\ Goto(f, IF overwrite THEN "open" ELSE "probe")
  /\ UNCHANGED <<settings, bump, entry, file, data, written, raced>>

SeparateDir(f) == Path(dir[f], Clean[name[f]], bump[f])

\* DIE in create_enter_dir: no directory can be made, because somebody removed
\* the one it belongs into; or what mkdir found is a file, and chdir fails.
Refuse(f) ==
  /\ At(f, "enter")
  /\ \/ mode # "separate" /\ (dir[f] \notin dirs \/ Exists(FolderDir(f)))
     \/ mode = "separate" /\ overwrite /\ Exists(SeparateDir(f))
  /\ Goto(f, "refused")
  /\ UNCHANGED <<settings, dir, bump, tree, file, written, raced>>

\* mk_separate_dir goes on until mkdir makes a directory.
MakeSeparateDir(f) ==
  /\ At(f, "enter") /\ mode = "separate"
  /\ ~InUse(SeparateDir(f))
  /\ dirs' = dirs \cup {SeparateDir(f)}
  /\ dir' = [dir EXCEPT ![f] = SeparateDir(f)]
  /\ Goto(f, "write")
  /\ UNCHANGED <<settings, bump, entry, file, data, written, raced>>

BumpDir(f) ==
  /\ At(f, "enter") /\ mode = "separate"
  /\ InUse(SeparateDir(f)) /\ ~overwrite
  /\ bump' = [bump EXCEPT ![f] = @ + 1]
  /\ UNCHANGED <<settings, pc, dir, tree, file, written, raced>>

\* Mutant of ClearDir: the files are deleted before the directory is changed to.
ClearBeforeEntering(f) ==
  /\ At(f, "enter") /\ mode = "separate"
  /\ SeparateDir(f) \in dirs /\ overwrite
  /\ entry' = Restrict(entry, {p \in DOMAIN entry : SubSeq(p, 1, Len(p) - 1) # dir[f]})
  /\ dir' = [dir EXCEPT ![f] = SeparateDir(f)]
  /\ Goto(f, "write")
  /\ UNCHANGED <<settings, bump, dirs, file, data, written, raced>>

\* With -w: "we should probably delete all files from this directory".
ClearDir(f) ==
  /\ At(f, "enter") /\ mode = "separate"
  /\ SeparateDir(f) \in dirs /\ overwrite
  /\ entry' = Restrict(entry, {p \in DOMAIN entry : SubSeq(p, 1, Len(p) - 1) # SeparateDir(f)})
  /\ dir' = [dir EXCEPT ![f] = SeparateDir(f)]
  /\ Goto(f, "write")
  /\ UNCHANGED <<settings, bump, dirs, file, data, written, raced>>

\* Mutant of BumpFile: the number of the next name is not counted up.
BumpAgain(f) ==
  /\ At(f, "probe") /\ Taken(f)
  /\ bump' = [bump EXCEPT ![f] = 1]
  /\ UNCHANGED <<settings, pc, dir, tree, file, written, raced>>

\* The loop of create_enter_dir that looks for a free name.
BumpFile(f) ==
  /\ At(f, "probe") /\ Taken(f)
  /\ bump' = [bump EXCEPT ![f] = @ + 1]
  /\ UNCHANGED <<settings, pc, dir, tree, file, written, raced>>

FreeFile(f) ==
  /\ At(f, "probe") /\ ~Taken(f)
  /\ Goto(f, "open")
  /\ UNCHANGED <<settings, dir, bump, tree, file, written, raced>>

\* fopen(name, "w") on path: the file is created or loses what it holds.
OpenForWriting(f, path, contents) ==
  LET i == IF Exists(path) THEN entry[path] ELSE f
  IN  /\ entry' = [p \in DOMAIN entry \cup {path} |-> IF p = path THEN i ELSE entry[p]]
      /\ file' = [file EXCEPT ![f] = i]
      /\ data' = [data EXCEPT ![i] = contents]

\* fopen for writing fails when a directory has the name, or when the working
\* directory has been removed: DIE.
MayOpen(f) == Target(f) \notin dirs /\ dir[f] \in dirs

RefuseFile(f) ==
  /\ At(f, "open") /\ ~MayOpen(f)
  /\ Goto(f, "refused")
  /\ UNCHANGED <<settings, dir, bump, tree, file, written, raced>>

Open(f) ==
  /\ At(f, "open") /\ MayOpen(f)
  /\ OpenForWriting(f, Target(f), {})
  /\ raced' = (raced \/ (~overwrite /\ Exists(Target(f))))
  /\ Goto(f, "write")
  /\ UNCHANGED <<settings, dir, bump, dirs, written>>

\* The items reach the file, over what somebody else may have written there.
Write(f) ==
  /\ At(f, "write") /\ f \notin written /\ mode # "separate"
  /\ data' = [data EXCEPT ![file[f]] = {f}]
  /\ written' = written \cup {f}
  /\ UNCHANGED <<settings, pc, dir, bump, dirs, entry, file, raced>>

\* mk_separate_file and close_separate_file around the first item.
WriteSeparate(f) ==
  /\ At(f, "write") /\ f \notin written /\ mode = "separate" /\ MayOpen(f)
  /\ OpenForWriting(f, Target(f), {f})
  /\ written' = written \cup {f}
  /\ UNCHANGED <<settings, pc, dir, bump, dirs, raced>>

\* mk_separate_file cannot open it: DIE.
WriteRefused(f) ==
  /\ At(f, "write") /\ f \notin written /\ mode = "separate" /\ ~MayOpen(f)
  /\ Goto(f, "dead")
  /\ UNCHANGED <<settings, dir, bump, tree, file, written, raced>>

\* The process of a folder inside has died: so does the one that waits for it,
\* as grim_reaper ends with the status it is given.
DieToo(f) ==
  /\ At(f, "write") /\ parallel
  /\ \E g \in Inside(f) : pc[g] \in Ended
  /\ Goto(f, "dead")
  /\ UNCHANGED <<settings, dir, bump, tree, file, written, raced>>

\* The loop of process() is over; close_enter_dir closes the file.
Close(f) ==
  /\ At(f, "write")
  /\ parallel \/ \A g \in Inside(f) : pc[g] = "done"
  /\ Goto(f, IF mode = "separate" THEN "done" ELSE "stat")
  /\ UNCHANGED <<settings, dir, bump, tree, file, written, raced>>

\* stat() of the file; when it fails the size is that of an older call, and a
\* directory is never empty.
Empty(f) == Target(f) \notin dirs /\ (Exists(Target(f)) => data[entry[Target(f)]] = {})

\* chdir("..") ends close_enter_dir; it fails in a directory that was removed.
Leave(f, d) == Goto(f, IF dir[f] \in d THEN "done" ELSE "dead")

KeepFile(f) ==
  /\ At(f, "stat")
  /\ Exists(Target(f)) => data[entry[Target(f)]] # {}
  /\ Leave(f, dirs)
  /\ UNCHANGED <<settings, dir, bump, tree, file, written, raced>>

FindEmpty(f) ==
  /\ At(f, "stat") /\ Empty(f)
  /\ Goto(f, "remove")
  /\ UNCHANGED <<settings, dir, bump, tree, file, written, raced>>

\* remove() of the name, whatever has it now: an empty directory goes, too.
EmptyDir(d) ==
  d \in dirs /\ \A p \in dirs \cup DOMAIN entry : p # <<>> => SubSeq(p, 1, Len(p) - 1) # d

RemoveEmpty(f) ==
  /\ At(f, "remove")
  /\ entry' = Restrict(entry, DOMAIN entry \ {Target(f)})
  /\ dirs' = {d \in dirs : d = Target(f) => ~EmptyDir(d)}
  /\ Leave(f, dirs')
  /\ UNCHANGED <<settings, dir, bump, file, data, written, raced>>

Work(f) ==
  \/ Start(f) \/ Enter(f) \/ Refuse(f)
  \/ MakeSeparateDir(f) \/ BumpDir(f) \/ ClearDir(f)
  \/ BumpFile(f) \/ FreeFile(f) \/ RefuseFile(f) \/ Open(f)
  \/ Write(f) \/ WriteSeparate(f) \/ WriteRefused(f) \/ DieToo(f)
  \/ Close(f) \/ KeepFile(f) \/ FindEmpty(f) \/ RemoveEmpty(f)

Next == \E f \in Folders : Work(f)

\* Every process is scheduled.
Spec == Init /\ [][Next]_vars
FairSpec == Spec /\ \A f \in Folders : WF_vars(Work(f))

-----------------------------------------------------------------------------
Entered(f) == pc[f] \notin {"idle", "enter", "probe", "open", "refused"}
Intact(f) == Exists(Target(f)) /\ data[entry[Target(f)]] = {f}

\* The type invariant.
TypeOK ==
  /\ mode \in Modes /\ overwrite \in BOOLEAN /\ parallel \in BOOLEAN
  /\ pc \in [Folders -> {"idle", "enter", "probe", "open", "write", "stat", "remove", "done"} \cup Ended]
  /\ bump \in [Folders -> Nat]
  /\ <<>> \in dirs /\ dirs \cap DOMAIN entry = {}
  /\ IsFiniteSet(DOMAIN entry) /\ Range(entry) \subseteq Folders
  /\ file \in [Folders -> Folders]
  /\ data \in [Folders -> SUBSET Folders]
  /\ written \subseteq Folders /\ raced \in BOOLEAN

\* Folders with the same name do not lose their items to each other without -w,
\* through the bumped names, the reuse of a name whose empty file was removed and
\* the removal by name itself: unless another process creates a file between the
\* probe of its name and its opening, which a sequential run cannot meet.  A
\* folder without items leaves no empty file behind.
KeptUnlessRaced ==
  ~overwrite =>
    /\ ~raced => \A f \in written : Intact(f)
    /\ ~parallel => ~raced
    /\ ~raced => \A f \in Folders \ written : pc[f] = "done" /\ mode # "separate" =>
                   \A p \in DOMAIN entry : entry[p] = f => data[f] # {}

\* Whatever the options, with -w and with races too, items are lost only to a
\* folder whose output goes by the same name in the same directory.  In separate
\* mode mkdir decides who gets a directory: without -w no two folders share one.
\* And a process dies only if a folder has the name of an output file of the
\* directory it is made in.
OnlyNamesakesHarm ==
  /\ TypeOK
  /\ \A f \in written :
       (\A g \in Folders \ {f} : Entered(g) => Target(g) # Target(f)) => Intact(f)
  /\ mode = "separate" /\ ~overwrite =>
       /\ \A f, g \in Folders : f # g /\ Entered(f) /\ Entered(g) => dir[f] # dir[g]
       /\ ~raced /\ \A f \in written : Intact(f)
  /\ (\E f \in Folders : pc[f] \in Ended) =>
       /\ mode \in {"recurse", "separate"}
       /\ \E f, g \in Folders :
            f # g /\ dir[Above[f]] = dir[g] /\ Clean[name[f]] = CleanName(g)

\* The search for a free name ends, and every folder is done unless a process
\* dies.
EveryFolderDone ==
  <>((\A f \in Folders : pc[f] = "done") \/ \E f \in Folders : pc[f] \in Ended)

-----------------------------------------------------------------------------
\* ChangeLog:843, "Output files are now not overwritten if they already exist":
\* refuted by a run of its own.
NotOverwritten == ~parallel /\ ~overwrite => \A f \in written : Intact(f)
=============================================================================
