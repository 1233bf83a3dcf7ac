---------------------------- MODULE WriterProofs ----------------------------
(***************************************************************************)
(* What readpst writes, proved.                                            *)
(*                                                                         *)
(* The folders: none loses its items to another one without -w, for any    *)
(* tree of folders with any names that need no cleaning; and whatever the  *)
(* options and the names, only a folder with the same name does harm to    *)
(* another.                                                                *)
(*                                                                         *)
(* The mails, for any messages, however deep they embed each other and     *)
(* whatever headers, bodies and attachments they have: borrowed headers    *)
(* never go back, no attachment is lost, and a mail is well-formed MIME.   *)
(***************************************************************************)
EXTENDS OutputNames, EmailWriter, FiniteSetTheorems, SequenceTheorems, WellFoundedInduction, TLAPS

\* "a/b" and the like are left out: for them the property does not hold.
CleanNames == \A m \in Modes : \A n \in Names[m] : \A f \in Folders : Clean[n[f]] = n[f]

AllNames == UNION {Names[m] : m \in Modes}
Word == {"mbox", "1", "directory"} \cup {n[f] : n \in AllNames, f \in Folders}
                                   \cup {Clean[n[f]] : n \in AllNames, f \in Folders}
Paths == Seq(Word \X Nat)
Labels == {"idle", "enter", "probe", "open", "write", "stat", "remove", "done",
           "refused", "dead"}

Types ==
  /\ mode \in Modes /\ overwrite \in BOOLEAN /\ parallel \in BOOLEAN
  /\ name \in Names[mode]
  /\ pc \in [Folders -> Labels]
  /\ dir \in [Folders -> Paths] /\ bump \in [Folders -> Nat]
  /\ entry \in [DOMAIN entry -> Folders]
  /\ file \in [Folders -> Folders] /\ data \in [Folders -> SUBSET Folders]
  /\ written \subseteq Folders /\ raced \in BOOLEAN
  /\ mode = "separate" => \A f \in Folders : pc[f] \notin {"probe", "open", "stat", "remove"}

\* In separate mode every folder that has a directory has it for itself.
InDir(f) == pc[f] \in {"write", "done", "dead"}
Separate ==
  mode = "separate" /\ ~overwrite =>
    \A f \in Folders : InDir(f) =>
      dir[f] \in dirs /\ \A g \in Folders : InDir(g) /\ dir[f] = dir[g] => f = g

\* The folders that have made an inode, and what becomes of it: the inode has
\* the name of its folder as long as the folder needs it, and no other.
Opened(f) == IF mode = "separate" THEN f \in written
             ELSE pc[f] \in {"write", "stat", "remove", "done", "dead"}
NamedByMaker == \A p \in DOMAIN entry : Opened(entry[p]) /\ p = Target(entry[p])
HasName == \A f \in Folders :
  Opened(f) /\ (f \in written \/ pc[f] \in {"write", "stat", "remove"})
    => Exists(Target(f)) /\ entry[Target(f)] = f
OwnItems == \A f \in Folders :
  Opened(f) => /\ data[f] = IF f \in written THEN {f} ELSE {}
               /\ mode # "separate" => file[f] = f
AfterOpening == \A f \in written : Opened(f) /\ pc[f] \in {"write", "stat", "done", "dead"}
NoneLeft == \A f \in Folders \ written :
  pc[f] = "done" => \A p \in DOMAIN entry : entry[p] # f
Kept == NamedByMaker /\ HasName /\ OwnItems /\ AfterOpening /\ NoneLeft

KeptInv == ~overwrite /\ ~raced => Kept

\* In a sequential run one activation is innermost, and only it moves.
Innermost(f) == Active(f) /\ \A g \in Inside(f) : ~Active(g)
Chain ==
  /\ \A f \in Folders \ {Root} : Active(f) => pc[Above[f]] = "write"
  /\ \A f, g \in Folders \ {Root} : Active(f) /\ Active(g) /\ Above[f] = Above[g] => f = g
  /\ \A f, g \in Folders : Innermost(f) /\ Innermost(g) => f = g
  /\ pc[Root] = "idle" => \A f \in Folders : ~Active(f)
ChainInv == ~parallel => Chain

\* What the probe has found is still so when the file is opened.
ProbeHolds ==
  ~parallel /\ ~overwrite =>
    ~raced /\ \A f \in Folders : pc[f] = "open" => ~Exists(Target(f))

-----------------------------------------------------------------------------
\* The names that occur in paths.
LEMMA Words ==
  ASSUME Types, NEW f \in Folders
  PROVE  /\ name[f] \in Word /\ Clean[name[f]] \in Word /\ CleanName(f) \in Word
         /\ "mbox" \in Word /\ "1" \in Word /\ "directory" \in Word
<1>1. name \in AllNames
  BY DEF Types, AllNames
<1>2. name[f] \in Word /\ Clean[name[f]] \in Word
  BY <1>1 DEF Word
<1>3. CleanName(f) \in {"mbox", "1", Clean[name[f]]}
  BY ModesAssumption DEF Types, CleanName, FileName
<1>4. QED
  BY <1>2, <1>3 DEF Word

\* A path with one more name is a path.
LEMMA PathType ==
  ASSUME NEW d \in Paths, NEW s \in Word, NEW x \in Nat
  PROVE  Path(d, s, x) \in Paths
<1>1. <<s, x>> \in Word \X Nat
  OBVIOUS
<1>2. QED
  BY <1>1, AppendProperties DEF Path, Paths

\* A name in two directories is two paths.
LEMMA PathApart ==
  ASSUME NEW d \in Paths, NEW e \in Paths, NEW s \in Word, NEW x \in Nat,
         Path(d, s, x) = Path(e, s, x)
  PROVE  d = e
<1> DEFINE el == <<s, x>>
           T == Word \X Nat
<1>0. d \in Seq(T) /\ e \in Seq(T)
  BY DEF Paths
<1>1. el \in T /\ Append(d, el) = Append(e, el)
  BY DEF Path
<1> HIDE DEF el, T
<1>2. /\ Len(Append(d, el)) = Len(d) + 1 /\ Len(Append(e, el)) = Len(e) + 1
      /\ \A i \in 1 .. Len(d) : Append(d, el)[i] = d[i]
      /\ \A i \in 1 .. Len(e) : Append(e, el)[i] = e[i]
  BY <1>0, <1>1, AppendProperties
<1>3. Len(d) = Len(e)
  BY <1>0, <1>1, <1>2
<1>4. \A i \in 1 .. Len(d) : d[i] = e[i]
  BY <1>1, <1>2, <1>3
<1>5. QED
  BY <1>0, <1>3, <1>4, SeqEqual

\* The path of a folder's file depends on its directory and number only.
LEMMA SameTarget ==
  ASSUME UNCHANGED settings, NEW g \in Folders, dir'[g] = dir[g], bump'[g] = bump[g]
  PROVE  Target(g)' = Target(g)
BY DEF settings, Target, CleanName, FileName, Path

\* The initial state is well typed.
LEMMA InitTypes == Init => Types
<1> SUFFICES ASSUME Init PROVE Types
  OBVIOUS
<1>1. <<>> \in Paths
  BY DEF Paths
<1>2. DOMAIN entry = {} /\ entry \in [{} -> Folders]
  BY DEF Init
<1>3. Root \in Folders
  BY FoldersAssumption
<1>4. QED
  BY <1>1, <1>2, <1>3 DEF Init, Types, Labels

\* fopen for writing.
LEMMA OpenTypes ==
  ASSUME Types, NEW f \in Folders, NEW path, NEW contents \in SUBSET Folders,
         OpenForWriting(f, path, contents)
  PROVE  /\ entry' \in [DOMAIN entry' -> Folders]
         /\ file' \in [Folders -> Folders] /\ data' \in [Folders -> SUBSET Folders]
<1> DEFINE i == IF Exists(path) THEN entry[path] ELSE f
<1>1. i \in Folders
  BY DEF Types, Exists
<1>2. /\ entry' = [p \in DOMAIN entry \cup {path} |-> IF p = path THEN i ELSE entry[p]]
      /\ file' = [file EXCEPT ![f] = i]
      /\ data' = [data EXCEPT ![i] = contents]
  BY DEF OpenForWriting
<1> HIDE DEF i
<1>3. \A p \in DOMAIN entry : entry[p] \in Folders
  BY DEF Types
<1>4. entry' \in [DOMAIN entry' -> Folders]
  BY <1>1, <1>2, <1>3
<1>5. QED
  BY <1>1, <1>2, <1>4 DEF Types

\* Every step keeps the types.
LEMMA StepTypes ==
  ASSUME Types, NEW f \in Folders, Work(f)
  PROVE  Types'
<1>1. CASE Start(f)
  BY <1>1, FoldersAssumption DEF Start, At, Goto, settings, tree, Types, Labels
<1>2. CASE Enter(f)
  <2>1. name[f] \in Word /\ Clean[name[f]] \in Word /\ "directory" \in Word
    BY Words
  <2>2. Path(dir[f], Clean[name[f]], 0) \in Paths
    BY <2>1, PathType DEF Types
  <2>3. Path(Path(dir[f], Clean[name[f]], 0), "directory", 0) \in Paths
    BY <2>1, <2>2, PathType
  <2>4. FolderDir(f) \in Paths
    BY <2>2, <2>3 DEF FolderDir, Types
  <2>5. QED
    BY <1>2, <2>4 DEF Enter, At, Goto, settings, Types, Labels
<1>3. CASE MakeSeparateDir(f) \/ ClearDir(f)
  <2>1. SeparateDir(f) \in Paths
    BY Words, PathType DEF SeparateDir, Types
  <2>2. entry' \in [DOMAIN entry' -> Folders]
    BY <1>3 DEF MakeSeparateDir, ClearDir, Restrict, Types
  <2>3. /\ UNCHANGED <<settings, bump, file, data, written, raced>>
        /\ dir' = [dir EXCEPT ![f] = SeparateDir(f)]
        /\ pc' = [pc EXCEPT ![f] = "write"] /\ mode = "separate"
    BY <1>3 DEF MakeSeparateDir, ClearDir, Goto
  <2>4. QED
    BY <2>1, <2>2, <2>3 DEF settings, Types, Labels
<1>4. CASE BumpDir(f) \/ BumpFile(f)
  BY <1>4 DEF BumpDir, BumpFile, settings, tree, Types
<1>5. CASE Refuse(f) \/ FreeFile(f) \/ RefuseFile(f) \/ WriteRefused(f) \/ DieToo(f)
           \/ Close(f) \/ KeepFile(f) \/ FindEmpty(f)
  <2>1. /\ UNCHANGED <<settings, dir, bump, tree, file, written, raced>>
        /\ \E l \in Labels :
             pc' = [pc EXCEPT ![f] = l]
             /\ (mode = "separate" => l \in {"refused", "dead", "done"})
    <3>1. CASE Refuse(f) \/ RefuseFile(f) \/ WriteRefused(f) \/ DieToo(f)
      BY <3>1 DEF Refuse, RefuseFile, WriteRefused, DieToo, Goto, Labels
    <3>2. CASE FreeFile(f) \/ FindEmpty(f)
      BY <3>2 DEF FreeFile, FindEmpty, At, Goto, Labels, Types
    <3>3. CASE Close(f)
      BY <3>3 DEF Close, Goto, Labels
    <3>4. CASE KeepFile(f)
      BY <3>4 DEF KeepFile, Leave, Goto, Labels
    <3>5. QED
      BY <1>5, <3>1, <3>2, <3>3, <3>4
  <2>2. QED
    BY <2>1 DEF settings, tree, Types
<1>6. CASE Open(f)
  <2>1. /\ OpenForWriting(f, Target(f), {}) /\ raced' \in BOOLEAN
        /\ pc' = [pc EXCEPT ![f] = "write"] /\ UNCHANGED <<settings, dir, bump, written>>
    BY <1>6 DEF Open, Goto
  <2>2. QED
    BY <2>1, OpenTypes DEF settings, Types, Labels
<1>7. CASE Write(f)
  BY <1>7 DEF Write, settings, Types
<1>8. CASE WriteSeparate(f)
  <2>1. /\ OpenForWriting(f, Target(f), {f})
        /\ written' = written \cup {f} /\ UNCHANGED <<settings, pc, dir, bump, raced>>
    BY <1>8 DEF WriteSeparate
  <2>2. QED
    BY <2>1, OpenTypes DEF settings, Types
<1>9. CASE RemoveEmpty(f)
  <2>1. /\ entry' \in [DOMAIN entry' -> Folders] /\ mode # "separate"
        /\ UNCHANGED <<settings, dir, bump, file, data, written, raced>>
        /\ \E l \in {"done", "dead"} : pc' = [pc EXCEPT ![f] = l]
    BY <1>9 DEF RemoveEmpty, At, Leave, Goto, Restrict, Types
  <2>2. QED
    BY <2>1 DEF settings, Types, Labels
<1>10. QED
  BY <1>1, <1>2, <1>3, <1>4, <1>5, <1>6, <1>7, <1>8, <1>9 DEF Work

\* So does a step that changes nothing.
LEMMA StutterTypes == Types /\ UNCHANGED vars => Types'
BY DEF Types, vars, settings, tree

-----------------------------------------------------------------------------
\* mkdir gives a directory to one folder only.
LEMMA StepSeparate ==
  ASSUME Types, Separate, NEW f \in Folders, Work(f)
  PROVE  Separate'
<1> SUFFICES ASSUME mode' = "separate", ~overwrite' PROVE Separate'
  BY DEF Separate
<1>1. mode = "separate" /\ ~overwrite
  BY DEF Work, Start, Enter, Refuse, MakeSeparateDir, BumpDir, ClearDir, BumpFile, FreeFile,
         RefuseFile, Open, Write, WriteSeparate, WriteRefused, DieToo, Close, KeepFile,
         FindEmpty, RemoveEmpty, settings
<1>2. \A g \in Folders : InDir(g) =>
        dir[g] \in dirs /\ \A h \in Folders : InDir(h) /\ dir[g] = dir[h] => g = h
  BY <1>1 DEF Separate
<1>3. CASE MakeSeparateDir(f)
  <2>1. /\ SeparateDir(f) \notin dirs /\ dirs' = dirs \cup {SeparateDir(f)}
        /\ dir'[f] = SeparateDir(f) /\ \A g \in Folders \ {f} : dir'[g] = dir[g] /\ pc'[g] = pc[g]
    BY <1>3 DEF MakeSeparateDir, InUse, Goto, Types
  <2>2. \A g \in Folders \ {f} : InDir(g)' => InDir(g)
    BY <2>1 DEF InDir
  <2>3. \A g \in Folders : InDir(g)' => dir'[g] \in dirs'
    BY <1>2, <2>1, <2>2
  <2>4. \A g, h \in Folders : InDir(g)' /\ InDir(h)' /\ dir'[g] = dir'[h] => g = h
    BY <1>2, <2>1, <2>2
  <2>5. QED
    BY <2>3, <2>4 DEF Separate
<1>4. CASE Start(f)
  <2>1. /\ dirs' = dirs /\ pc'[f] = "enter"
        /\ \A g \in Folders \ {f} : dir'[g] = dir[g] /\ pc'[g] = pc[g]
    BY <1>4 DEF Start, Goto, tree, Types
  <2>2. \A g \in Folders : InDir(g)' => InDir(g) /\ dir'[g] = dir[g]
    BY <2>1 DEF InDir
  <2>3. QED
    BY <1>2, <2>1, <2>2 DEF Separate
<1>5. CASE ~MakeSeparateDir(f) /\ ~Start(f)
  <2>1. ~Enter(f) /\ ~ClearDir(f) /\ ~Open(f) /\ ~RemoveEmpty(f) /\ ~KeepFile(f) /\ ~FindEmpty(f)
        /\ ~Write(f) /\ ~FreeFile(f) /\ ~RefuseFile(f) /\ ~BumpFile(f)
    BY <1>1 DEF Enter, ClearDir, Open, RemoveEmpty, KeepFile, FindEmpty, Write, FreeFile, RefuseFile,
                BumpFile, At, Types
  <2>2. dirs' = dirs /\ dir' = dir
    BY <1>5, <2>1 DEF Work, Refuse, BumpDir, WriteSeparate, WriteRefused, DieToo, Close, tree
  <2>3. \A g \in Folders : InDir(g)' => InDir(g)
    BY <1>5, <2>1 DEF Work, Refuse, BumpDir, WriteSeparate, WriteRefused, DieToo, Close,
                      At, Goto, InDir, Types
  <2>4. QED
    BY <1>2, <2>2, <2>3 DEF Separate
<1>6. QED
  BY <1>3, <1>4, <1>5

-----------------------------------------------------------------------------
\* Steps of a folder that has no file yet.
LEMMA KeptBefore ==
  ASSUME Types, Kept, NEW f \in Folders, pc[f] \in {"idle", "enter", "probe", "open"},
         UNCHANGED <<settings, entry, file, data, written>>,
         \A g \in Folders \ {f} : pc'[g] = pc[g] /\ dir'[g] = dir[g] /\ bump'[g] = bump[g],
         \/ pc'[f] \in {"enter", "probe", "open", "refused"}
         \/ mode = "separate" /\ pc'[f] = "write"
  PROVE  Kept'
<1>1. ~Opened(f) /\ f \notin written
  BY DEF Kept, AfterOpening, Opened
<1>2. mode' = mode /\ entry' = entry /\ written' = written /\ data' = data /\ file' = file
  BY DEF settings
<1>3. \A g \in Folders : Opened(g)' <=> Opened(g)
  BY <1>1, <1>2 DEF Opened
<1>4. \A g \in Folders \ {f} : Target(g)' = Target(g)
  BY SameTarget
<1>5. NamedByMaker'
  <2>1. \A p \in DOMAIN entry : entry[p] \in Folders /\ Opened(entry[p]) /\ p = Target(entry[p])
    BY DEF Kept, NamedByMaker, Types
  <2>2. \A p \in DOMAIN entry : entry[p] # f
    BY <1>1, <2>1
  <2>3. \A p \in DOMAIN entry' : entry'[p] \in Folders \ {f} /\ Opened(entry[p])
                                /\ p = Target(entry[p]) /\ entry'[p] = entry[p]
    BY <1>2, <2>1, <2>2
  <2>4. SUFFICES ASSUME NEW p \in DOMAIN entry'
                 PROVE  Opened(entry[p])' /\ p = Target(entry[p])'
    BY DEF NamedByMaker
  <2>5. \A g : g = entry'[p] => Opened(g)' /\ p = Target(g)'
    BY <1>3, <1>4, <2>3
  <2>6. QED
    BY <2>5
<1>6. HasName'
  <2>1. \A g \in Folders \ {f} :
          Opened(g) /\ (g \in written \/ pc[g] \in {"write", "stat", "remove"})
            => Exists(Target(g)) /\ entry[Target(g)] = g
    BY DEF Kept, HasName
  <2>2. QED
    BY <1>1, <1>2, <1>3, <1>4, <2>1 DEF Exists, HasName
<1>7. OwnItems'
  BY <1>2, <1>3 DEF Kept, OwnItems
<1>8. AfterOpening'
  BY <1>1, <1>2, <1>3 DEF Kept, AfterOpening, Types
<1>9. NoneLeft'
  BY <1>2 DEF Kept, NoneLeft
<1>10. QED
  BY <1>5, <1>6, <1>7, <1>8, <1>9 DEF Kept

\* Steps that only move a folder whose file is open.  What stat() finds empty is
\* a file without items, and what it keeps is not.
LEMMA KeptAfter ==
  ASSUME Types, Kept, NEW f \in Folders,
         WriteRefused(f) \/ DieToo(f) \/ Close(f) \/ KeepFile(f) \/ FindEmpty(f)
  PROVE  Kept'
<1>1. /\ UNCHANGED <<settings, dir, bump, tree, file, written>>
      /\ \A g \in Folders \ {f} : pc'[g] = pc[g]
      /\ pc[f] \in {"write", "stat"} /\ pc'[f] \in {"stat", "remove", "done", "dead"}
  BY DEF WriteRefused, DieToo, Close, KeepFile, FindEmpty, At, Goto, Leave, Types
<1>2. mode' = mode /\ entry' = entry /\ written' = written /\ data' = data /\ file' = file
  BY <1>1 DEF settings, tree
<1>3. \A g \in Folders : Opened(g)' <=> Opened(g)
  BY <1>1, <1>2 DEF Opened
<1>4. \A g \in Folders : Target(g)' = Target(g)
  BY <1>1, SameTarget
<1>5. Opened(f) => (f \in written \/ pc[f] \in {"write", "stat", "remove"})
  BY <1>1
<1>6. pc'[f] = "remove" => f \notin written
  <2>1. SUFFICES ASSUME pc'[f] = "remove", f \in written PROVE FALSE
    OBVIOUS
  <2>2. FindEmpty(f)
    BY <2>1 DEF WriteRefused, DieToo, Close, KeepFile, FindEmpty, At, Goto, Leave, Types
  <2>3. Opened(f) /\ Exists(Target(f)) /\ entry[Target(f)] = f /\ data[f] = {f}
    BY <1>1, <2>1 DEF Kept, AfterOpening, HasName, OwnItems
  <2>4. QED
    BY <2>2, <2>3 DEF FindEmpty, Empty
<1>7. pc'[f] = "done" /\ f \notin written => mode = "separate"
  <2>1. SUFFICES ASSUME pc'[f] = "done", f \notin written, mode # "separate" PROVE FALSE
    OBVIOUS
  <2>2. KeepFile(f) /\ pc[f] = "stat"
    BY <2>1 DEF WriteRefused, DieToo, Close, KeepFile, FindEmpty, At, Goto, Leave, Types
  <2>3. Opened(f)
    BY <2>1, <2>2 DEF Opened
  <2>4. Exists(Target(f)) /\ entry[Target(f)] = f /\ data[f] = {}
    BY <2>1, <2>2, <2>3 DEF Kept, HasName, OwnItems
  <2>5. QED
    BY <2>2, <2>4 DEF KeepFile
<1>8. NamedByMaker'
  <2>1. \A p \in DOMAIN entry : entry[p] \in Folders /\ Opened(entry[p]) /\ p = Target(entry[p])
    BY DEF Kept, NamedByMaker, Types
  <2>2. SUFFICES ASSUME NEW p \in DOMAIN entry'
                 PROVE  Opened(entry[p])' /\ p = Target(entry[p])'
    BY DEF NamedByMaker
  <2>3. \A g : g = entry'[p] => Opened(g)' /\ p = Target(g)'
    BY <1>2, <1>3, <1>4, <2>1
  <2>4. QED
    BY <2>3
<1>9. HasName'
  BY <1>1, <1>2, <1>3, <1>4, <1>5 DEF Kept, HasName, Exists
<1>10. OwnItems'
  BY <1>2, <1>3 DEF Kept, OwnItems
<1>11. AfterOpening'
  BY <1>1, <1>2, <1>3, <1>6 DEF Kept, AfterOpening, Types
<1>12. NoneLeft'
  <2>1. pc'[f] = "done" /\ f \notin written => \A p \in DOMAIN entry : entry[p] # f
    BY <1>7 DEF Kept, NamedByMaker, Opened
  <2>2. QED
    BY <1>1, <1>2, <2>1 DEF Kept, NoneLeft
<1>13. QED
  BY <1>8, <1>9, <1>10, <1>11, <1>12 DEF Kept

\* A file that is created: an inode that nobody had, under a name that nobody had.
LEMMA KeptCreated ==
  ASSUME Types, Kept, NEW f \in Folders, NEW contents,
         ~Exists(Target(f)), ~Opened(f), OpenForWriting(f, Target(f), contents),
         UNCHANGED <<settings, dir, bump>>,
         \A g \in Folders \ {f} : pc'[g] = pc[g],
         Opened(f)', pc'[f] = "write",
         \/ written' = written /\ contents = {}
         \/ written' = written \cup {f} /\ contents = {f}
  PROVE  Kept'
<1>1. /\ entry' = [p \in DOMAIN entry \cup {Target(f)} |-> IF p = Target(f) THEN f ELSE entry[p]]
      /\ file' = [file EXCEPT ![f] = f]
      /\ data' = [data EXCEPT ![f] = contents]
  BY DEF OpenForWriting
<1>2. Target(f) \notin DOMAIN entry /\ mode' = mode
  BY DEF Exists, settings
<1>3. f \notin written
  BY DEF Kept, AfterOpening
<1>4. \A g \in Folders \ {f} : (Opened(g)' <=> Opened(g)) /\ (g \in written' <=> g \in written)
  BY <1>2 DEF Opened
<1>5. \A g \in Folders : Target(g)' = Target(g)
  BY SameTarget
<1>6. /\ \A g \in Folders \ {f} : data'[g] = data[g] /\ file'[g] = file[g]
      /\ data'[f] = contents /\ file'[f] = f
  BY <1>1 DEF Types
<1>7. \A p \in DOMAIN entry : /\ entry[p] \in Folders \ {f} /\ Opened(entry[p])
                               /\ p = Target(entry[p]) /\ entry'[p] = entry[p]
  BY <1>1, <1>2 DEF Kept, NamedByMaker, Types
<1>8. NamedByMaker'
  <2>1. SUFFICES ASSUME NEW p \in DOMAIN entry'
                 PROVE  Opened(entry[p])' /\ p = Target(entry[p])'
    BY DEF NamedByMaker
  <2>2. \A g : g = entry'[p] => Opened(g)' /\ p = Target(g)'
    BY <1>1, <1>4, <1>5, <1>7
  <2>3. QED
    BY <2>2
<1>9. HasName'
  <2>1. \A g \in Folders \ {f} : Exists(Target(g)) => Exists(Target(g))' /\ Target(g) # Target(f)
    BY <1>1, <1>2, <1>5 DEF Exists
  <2>2. Exists(Target(f))' /\ entry'[Target(f)'] = f
    BY <1>1, <1>5 DEF Exists
  <2>3. \A g \in Folders \ {f} :
          Opened(g) /\ (g \in written \/ pc[g] \in {"write", "stat", "remove"})
            => Exists(Target(g)) /\ entry[Target(g)] = g /\ entry'[Target(g)] = g
    BY <1>7 DEF Kept, HasName, Exists
  <2>4. QED
    BY <1>4, <1>5, <2>1, <2>2, <2>3 DEF HasName
<1>10. OwnItems'
  BY <1>2, <1>3, <1>4, <1>6 DEF Kept, OwnItems
<1>11. AfterOpening'
  BY <1>4 DEF Kept, AfterOpening, Types
<1>12. NoneLeft'
  <2>1. \A g \in Folders \ {f} : (\A p \in DOMAIN entry : entry[p] # g)
                                 => \A p \in DOMAIN entry' : entry'[p] # g
    BY <1>1
  <2>2. QED
    BY <1>4, <2>1 DEF Kept, NoneLeft
<1>13. QED
  BY <1>8, <1>9, <1>10, <1>11, <1>12 DEF Kept

\* The items go to the inode the folder made itself.
LEMMA KeptWrite ==
  ASSUME Types, Kept, NEW f \in Folders, Write(f)
  PROVE  Kept'
<1>1. /\ pc[f] = "write" /\ mode # "separate" /\ written' = written \cup {f}
      /\ data' = [data EXCEPT ![file[f]] = {f}]
      /\ UNCHANGED <<settings, pc, dir, bump, entry, file>>
  BY DEF Write, At
<1>2. Opened(f) /\ file[f] = f
  BY <1>1 DEF Kept, Opened, OwnItems
<1>3. data'[f] = {f} /\ \A g \in Folders \ {f} : data'[g] = data[g]
  BY <1>1, <1>2 DEF Types
<1>4. mode' = mode
  BY <1>1 DEF settings
<1>5. \A g \in Folders : Opened(g)' <=> Opened(g)
  BY <1>1, <1>4 DEF Opened
<1>6. \A g \in Folders : Target(g)' = Target(g)
  BY <1>1, SameTarget
<1>7. NamedByMaker'
  <2>1. \A p \in DOMAIN entry : entry[p] \in Folders /\ Opened(entry[p]) /\ p = Target(entry[p])
    BY DEF Kept, NamedByMaker, Types
  <2>2. SUFFICES ASSUME NEW p \in DOMAIN entry'
                 PROVE  Opened(entry[p])' /\ p = Target(entry[p])'
    BY DEF NamedByMaker
  <2>3. \A g : g = entry'[p] => Opened(g)' /\ p = Target(g)'
    BY <1>1, <1>5, <1>6, <2>1
  <2>4. QED
    BY <2>3
<1>8. HasName'
  BY <1>1, <1>5, <1>6 DEF Kept, HasName, Exists
<1>9. OwnItems'
  BY <1>1, <1>2, <1>3, <1>4, <1>5 DEF Kept, OwnItems
<1>10. AfterOpening'
  BY <1>1, <1>2, <1>5 DEF Kept, AfterOpening, Types
<1>11. NoneLeft'
  BY <1>1 DEF Kept, NoneLeft
<1>12. QED
  BY <1>7, <1>8, <1>9, <1>10, <1>11 DEF Kept

\* remove() takes the name of the folder's own empty file.
LEMMA KeptRemove ==
  ASSUME Types, Kept, NEW f \in Folders, RemoveEmpty(f)
  PROVE  Kept'
<1>1. /\ pc[f] = "remove" /\ pc'[f] \in {"done", "dead"}
      /\ \A g \in Folders \ {f} : pc'[g] = pc[g]
      /\ entry' = [p \in DOMAIN entry \ {Target(f)} |-> entry[p]]
      /\ UNCHANGED <<settings, dir, bump, file, data, written>>
  BY DEF RemoveEmpty, At, Leave, Goto, Restrict, Types
<1>2. mode # "separate" /\ mode' = mode
  BY <1>1 DEF Types, settings
<1>3. Opened(f) /\ f \notin written
  BY <1>1, <1>2 DEF Opened, Kept, AfterOpening
<1>4. entry[Target(f)] = f
  BY <1>1, <1>3 DEF Kept, HasName
<1>5. \A g \in Folders : Opened(g)' <=> Opened(g)
  BY <1>1, <1>2 DEF Opened
<1>6. \A g \in Folders : Target(g)' = Target(g)
  BY <1>1, SameTarget
<1>7. \A p \in DOMAIN entry' : entry'[p] = entry[p] /\ p \in DOMAIN entry /\ p # Target(f)
  BY <1>1
<1>8. \A p \in DOMAIN entry : entry[p] \in Folders /\ Opened(entry[p]) /\ p = Target(entry[p])
  BY DEF Kept, NamedByMaker, Types
<1>9. NamedByMaker'
  <2>1. SUFFICES ASSUME NEW p \in DOMAIN entry'
                 PROVE  Opened(entry[p])' /\ p = Target(entry[p])'
    BY DEF NamedByMaker
  <2>2. \A g : g = entry'[p] => Opened(g)' /\ p = Target(g)'
    BY <1>5, <1>6, <1>7, <1>8
  <2>3. QED
    BY <2>2
<1>10. HasName'
  <2>1. \A g \in Folders \ {f} :
          Opened(g) /\ (g \in written \/ pc[g] \in {"write", "stat", "remove"})
            => /\ Exists(Target(g)) /\ entry[Target(g)] = g
               /\ Target(g) # Target(f)
    BY <1>4 DEF Kept, HasName
  <2>2. \A g \in Folders : Exists(Target(g)) /\ Target(g) # Target(f)
          => Exists(Target(g))' /\ entry'[Target(g)] = entry[Target(g)]
    BY <1>1, <1>6 DEF Exists
  <2>3. QED
    BY <1>1, <1>3, <1>5, <1>6, <2>1, <2>2 DEF HasName
<1>11. OwnItems'
  BY <1>1, <1>2, <1>5 DEF Kept, OwnItems
<1>12. AfterOpening'
  BY <1>1, <1>3, <1>5 DEF Kept, AfterOpening, Types
<1>13. NoneLeft'
  <2>1. \A p \in DOMAIN entry' : entry'[p] # f
    BY <1>7, <1>8
  <2>2. QED
    BY <1>1, <1>7, <2>1 DEF Kept, NoneLeft
<1>14. QED
  BY <1>9, <1>10, <1>11, <1>12, <1>13 DEF Kept

\* In separate mode a file is new because its directory is the folder's own.
LEMMA KeptWriteSeparate ==
  ASSUME Types, Kept, Separate, ~overwrite, NEW f \in Folders, WriteSeparate(f)
  PROVE  Kept'
<1>1. /\ pc[f] = "write" /\ mode = "separate" /\ f \notin written
      /\ OpenForWriting(f, Target(f), {f}) /\ written' = written \cup {f}
      /\ UNCHANGED <<settings, pc, dir, bump>>
  BY DEF WriteSeparate, At
<1>2. \A g \in Folders : Target(g) = Path(dir[g], "1", 0)
  BY <1>1 DEF Target, CleanName, FileName
<1>3. ~Exists(Target(f))
  <2>1. SUFFICES ASSUME Exists(Target(f)) PROVE FALSE
    OBVIOUS
  <2>2. PICK g \in Folders : g = entry[Target(f)]
    BY <2>1 DEF Exists, Types
  <2>3. Opened(g) /\ Target(f) = Target(g)
    BY <2>1, <2>2 DEF Exists, Kept, NamedByMaker
  <2>4. g \in written /\ pc[g] \in {"write", "done", "dead"}
    BY <1>1, <2>3 DEF Opened, Kept, AfterOpening, Types
  <2>5. dir[f] = dir[g]
    <3>1. dir[f] \in Paths /\ dir[g] \in Paths /\ "1" \in Word
      BY Words DEF Types
    <3>2. QED
      BY <1>2, <2>3, <3>1, PathApart
  <2>6. f = g
    BY <1>1, <2>4, <2>5 DEF Separate, InDir
  <2>7. QED
    BY <1>1, <2>4, <2>6
<1>4. mode' = "separate" /\ f \in written'
  BY <1>1 DEF settings
<1>5. ~Opened(f) /\ Opened(f)'
  BY <1>1, <1>4 DEF Opened
<1>6. QED
  BY <1>1, <1>3, <1>5, KeptCreated

\* Every step keeps what is found under a name with its folder.
LEMMA StepKept ==
  ASSUME Types, KeptInv, Separate, NEW f \in Folders, Work(f)
  PROVE  KeptInv'
<1> SUFFICES ASSUME ~overwrite', ~raced' PROVE Kept'
  BY DEF KeptInv
<1>1. UNCHANGED settings
  BY DEF Work, Start, Enter, Refuse, MakeSeparateDir, BumpDir, ClearDir, BumpFile, FreeFile,
         RefuseFile, Open, Write, WriteSeparate, WriteRefused, DieToo, Close, KeepFile,
         FindEmpty, RemoveEmpty
<1>2. ~overwrite
  BY <1>1 DEF settings
<1>3. ~raced
  BY DEF Work, Start, Enter, Refuse, MakeSeparateDir, BumpDir, ClearDir, BumpFile, FreeFile,
         RefuseFile, Open, Write, WriteSeparate, WriteRefused, DieToo, Close, KeepFile,
         FindEmpty, RemoveEmpty
<1>4. Kept
  BY <1>2, <1>3 DEF KeptInv
<1>5. CASE \/ Start(f) \/ Enter(f) \/ Refuse(f) \/ MakeSeparateDir(f) \/ BumpDir(f)
           \/ BumpFile(f) \/ FreeFile(f) \/ RefuseFile(f)
  <2>1. /\ pc[f] \in {"idle", "enter", "probe", "open"}
        /\ UNCHANGED <<entry, file, data, written>>
        /\ \A g \in Folders \ {f} : pc'[g] = pc[g] /\ dir'[g] = dir[g] /\ bump'[g] = bump[g]
        /\ \/ pc'[f] \in {"enter", "probe", "open", "refused"}
           \/ mode = "separate" /\ pc'[f] = "write"
    <3>1. CASE Start(f) \/ Enter(f)
      BY <3>1 DEF Start, Enter, At, Goto, tree, Types
    <3>2. CASE Refuse(f) \/ FreeFile(f) \/ RefuseFile(f)
      BY <3>2 DEF Refuse, FreeFile, RefuseFile, At, Goto, tree, Types
    <3>3. CASE MakeSeparateDir(f)
      BY <3>3 DEF MakeSeparateDir, At, Goto, tree, Types
    <3>4. CASE BumpDir(f) \/ BumpFile(f)
      BY <3>4 DEF BumpDir, BumpFile, At, tree, Types
    <3>5. QED
      BY <1>5, <3>1, <3>2, <3>3, <3>4
  <2>2. QED
    BY <1>1, <1>4, <2>1, KeptBefore
<1>6. CASE ClearDir(f)
  BY <1>2, <1>6 DEF ClearDir
<1>7. CASE WriteRefused(f) \/ DieToo(f) \/ Close(f) \/ KeepFile(f) \/ FindEmpty(f)
  BY <1>4, <1>7, KeptAfter
<1>8. CASE Open(f)
  <2>1. /\ pc[f] = "open" /\ pc'[f] = "write" /\ \A g \in Folders \ {f} : pc'[g] = pc[g]
        /\ OpenForWriting(f, Target(f), {}) /\ UNCHANGED <<dir, bump, written>>
    BY <1>8 DEF Open, At, Goto, Types
  <2>2. ~Exists(Target(f))
    BY <1>2, <1>8 DEF Open
  <2>3. mode # "separate" /\ mode' = mode
    BY <1>1, <2>1 DEF Types, settings
  <2>4. ~Opened(f) /\ Opened(f)'
    BY <2>1, <2>3 DEF Opened
  <2>5. QED
    BY <1>1, <1>4, <2>1, <2>2, <2>4, KeptCreated
<1>9. CASE Write(f)
  BY <1>4, <1>9, KeptWrite
<1>10. CASE WriteSeparate(f)
  BY <1>2, <1>4, <1>10, KeptWriteSeparate
<1>11. CASE RemoveEmpty(f)
  BY <1>4, <1>11, KeptRemove
<1>12. QED
  BY <1>5, <1>6, <1>7, <1>8, <1>9, <1>10, <1>11 DEF Work

-----------------------------------------------------------------------------
\* In a sequential run whoever moves is innermost; who starts is called by it.
LEMMA OnlyInnermost ==
  ASSUME ~parallel, NEW f \in Folders, Work(f)
  PROVE  \/ Innermost(f)
         \/ Start(f) /\ (f = Root \/ (pc[Above[f]] = "write" /\ Innermost(Above[f])))
<1>1. CASE Start(f)
  BY <1>1 DEF Start, MayEnter, MayRun, Innermost, Active
<1>2. CASE ~Start(f)
  <2>1. pc[f] \notin {"idle", "done"} /\ MayRun(f)
    BY <1>2 DEF Work, Enter, Refuse, MakeSeparateDir, BumpDir, ClearDir, BumpFile, FreeFile,
         RefuseFile, Open, Write, WriteSeparate, WriteRefused, DieToo, Close, KeepFile,
         FindEmpty, RemoveEmpty, At
  <2>2. QED
    BY <2>1 DEF MayRun, Innermost, Active
<1>3. QED
  BY <1>1, <1>2

\* What a step does to the places of the folders.
LEMMA Moves ==
  ASSUME Types, NEW f \in Folders, Work(f)
  PROVE  /\ \A g \in Folders \ {f} : pc'[g] = pc[g]
         /\ pc'[f] # "idle" /\ (Start(f) <=> pc[f] = "idle")
         /\ Start(f) => pc'[f] = "enter"
         /\ pc[f] # "done"
<1>1. CASE Start(f) \/ Enter(f) \/ Refuse(f) \/ MakeSeparateDir(f) \/ ClearDir(f) \/ FreeFile(f)
           \/ RefuseFile(f) \/ Open(f)
  BY <1>1 DEF Start, Enter, Refuse, MakeSeparateDir, ClearDir, FreeFile, RefuseFile, Open,
              At, Goto, Types
<1>2. CASE WriteRefused(f) \/ DieToo(f) \/ Close(f) \/ KeepFile(f) \/ FindEmpty(f) \/ RemoveEmpty(f)
  BY <1>2 DEF WriteRefused, DieToo, Close, KeepFile, FindEmpty, RemoveEmpty, Start,
              At, Goto, Leave, Types
<1>3. CASE BumpDir(f) \/ BumpFile(f) \/ Write(f) \/ WriteSeparate(f)
  BY <1>3 DEF BumpDir, BumpFile, Write, WriteSeparate, Start, At, Types
<1>4. QED
  BY <1>1, <1>2, <1>3 DEF Work

\* In a sequential run every step leaves one path of active folders.
LEMMA StepChain ==
  ASSUME Types, ChainInv, NEW f \in Folders, Work(f)
  PROVE  ChainInv'
<1> SUFFICES ASSUME ~parallel' PROVE Chain'
  BY DEF ChainInv
<1>1. ~parallel
  BY DEF Work, Start, Enter, Refuse, MakeSeparateDir, BumpDir, ClearDir, BumpFile, FreeFile,
         RefuseFile, Open, Write, WriteSeparate, WriteRefused, DieToo, Close, KeepFile,
         FindEmpty, RemoveEmpty, settings
<1>2. /\ \A g \in Folders \ {Root} : Active(g) => pc[Above[g]] = "write"
      /\ \A g, h \in Folders \ {Root} : Active(g) /\ Active(h) /\ Above[g] = Above[h] => g = h
      /\ \A g, h \in Folders : Innermost(g) /\ Innermost(h) => g = h
      /\ pc[Root] = "idle" => \A g \in Folders : ~Active(g)
  BY <1>1 DEF ChainInv, Chain
<1>3. /\ \A g \in Folders \ {f} : pc'[g] = pc[g]
      /\ pc'[f] # "idle" /\ (Start(f) <=> pc[f] = "idle")
      /\ Start(f) => pc'[f] = "enter"
      /\ pc[f] # "done"
  BY Moves
<1>4. \A g \in Folders : Above[g] \in Folders
  BY FoldersAssumption
<1>5. Root \in Folders
  BY FoldersAssumption
<1>6. CASE Start(f) /\ f = Root
  <2>1. \A g \in Folders : ~Active(g)
    BY <1>2, <1>3, <1>6
  <2>2. \A g \in Folders : Active(g)' => g = Root
    BY <1>3, <1>6, <2>1 DEF Active
  <2>3. pc'[Root] # "idle"
    BY <1>3, <1>6
  <2>4. QED
    BY <2>2, <2>3 DEF Chain, Innermost
<1>7. CASE Start(f) /\ f # Root
  <2>1. pc[Above[f]] = "write" /\ Innermost(Above[f]) /\ Above[f] # f /\ pc[f] = "idle"
    BY <1>1, <1>3, <1>7, OnlyInnermost DEF Innermost, Active
  <2>2. \A g \in Folders \ {Root} : Above[g] = Above[f] => ~Active(g)
    BY <2>1 DEF Innermost, Inside
  <2>3. \A g \in Folders \ {Root} : Above[g] = f => ~Active(g)
    BY <1>2, <2>1
  <2>4. Active(f)' /\ \A g \in Folders \ {f} : Active(g)' <=> Active(g)
    BY <1>3, <1>7 DEF Active
  <2>5. \A g \in Folders \ {Root} : Active(g)' => pc'[Above[g]] = "write"
    BY <1>2, <1>3, <1>4, <2>1, <2>3, <2>4
  <2>6. \A g, h \in Folders \ {Root} : Active(g)' /\ Active(h)' /\ Above[g] = Above[h] => g = h
    BY <1>2, <2>2, <2>4
  <2>7. \A g \in Folders : Innermost(g)' => g = f
    <3>1. SUFFICES ASSUME NEW g \in Folders, Innermost(g)', g # f PROVE FALSE
      OBVIOUS
    <3>2. Active(g) /\ \A h \in Inside(g) : ~Active(h)'
      BY <2>4, <3>1 DEF Innermost, Inside
    <3>3. f \notin Inside(g)
      BY <2>4, <3>2
    <3>4. Innermost(g)
      BY <2>4, <3>2, <3>3 DEF Innermost, Inside
    <3>5. g = Above[f]
      BY <1>2, <1>4, <2>1, <3>4
    <3>6. QED
      BY <1>7, <3>3, <3>5 DEF Inside
  <2>8. pc'[Root] # "idle"
    BY <1>2, <1>3, <1>4, <1>5, <2>1 DEF Innermost
  <2>9. QED
    BY <2>5, <2>6, <2>7, <2>8 DEF Chain
<1>8. CASE ~Start(f)
  <2>1. Innermost(f) /\ pc[f] # "idle"
    BY <1>1, <1>3, <1>8, OnlyInnermost
  <2>2. \A g \in Folders \ {Root} : Above[g] = f => ~Active(g)
    BY <2>1 DEF Innermost, Inside
  <2>3. \A g \in Folders : Active(g)' => Active(g)
    BY <1>3, <2>1 DEF Active, Innermost
  <2>4. \A g \in Folders \ {Root} : Active(g)' => pc'[Above[g]] = "write"
    BY <1>2, <1>3, <1>4, <2>2, <2>3
  <2>5. \A g, h \in Folders \ {Root} : Active(g)' /\ Active(h)' /\ Above[g] = Above[h] => g = h
    BY <1>2, <2>3
  <2>6. ASSUME NEW g \in Folders, Innermost(g)'
        PROVE  IF Active(f)' THEN g = f ELSE f # Root /\ g = Above[f]
    <3>1. Active(g)' /\ Active(g) /\ \A h \in Inside(g) : ~Active(h)'
      BY <2>3, <2>6 DEF Innermost, Inside
    <3>2. CASE g = f
      BY <3>1, <3>2
    <3>3. CASE g # f
      <4>1. ~Innermost(g)
        BY <1>2, <2>1, <3>3
      <4>2. PICK h \in Inside(g) : Active(h)
        BY <3>1, <4>1 DEF Innermost
      <4>3. h = f
        BY <1>3, <3>1, <4>2 DEF Active, Inside
      <4>4. QED
        BY <3>1, <4>2, <4>3 DEF Inside
    <3>4. QED
      BY <3>2, <3>3
  <2>7. pc'[Root] # "idle"
    BY <1>2, <1>3, <1>5, <2>1 DEF Innermost
  <2>8. \A g, h \in Folders : Innermost(g)' /\ Innermost(h)' => g = h
    BY <2>6
  <2>9. QED
    BY <2>4, <2>5, <2>7, <2>8 DEF Chain
<1>9. QED
  BY <1>6, <1>7, <1>8

\* Nobody but the folder itself moves between its probe and its opening.
LEMMA StepProbe ==
  ASSUME CleanNames, Types, ChainInv, ProbeHolds, NEW f \in Folders, Work(f)
  PROVE  ProbeHolds'
<1> SUFFICES ASSUME ~parallel', ~overwrite'
             PROVE  ~raced' /\ \A g \in Folders : pc'[g] = "open" => ~Exists(Target(g))'
  BY DEF ProbeHolds
<1>1. UNCHANGED settings
  BY DEF Work, Start, Enter, Refuse, MakeSeparateDir, BumpDir, ClearDir, BumpFile, FreeFile,
         RefuseFile, Open, Write, WriteSeparate, WriteRefused, DieToo, Close, KeepFile,
         FindEmpty, RemoveEmpty
<1>2. ~parallel /\ ~overwrite
  BY <1>1 DEF settings
<1>3. ~raced /\ \A g \in Folders : pc[g] = "open" => ~Exists(Target(g))
  BY <1>2 DEF ProbeHolds
<1>4. Chain
  BY <1>2 DEF ChainInv
<1>5. \A g \in Folders : pc[g] = "open" => Innermost(g)
  BY <1>4, FoldersAssumption DEF Chain, Innermost, Active, Inside
<1>6. ~raced'
  <2>1. CASE Open(f)
    <3>1. ~Exists(Target(f)) /\ raced' = (raced \/ (~overwrite /\ Exists(Target(f))))
      BY <1>3, <2>1 DEF Open, At
    <3>2. QED
      BY <1>3, <3>1
  <2>2. CASE ~Open(f)
    BY <1>3, <2>2 DEF Work, Start, Enter, Refuse, MakeSeparateDir, BumpDir, ClearDir, BumpFile,
         FreeFile, RefuseFile, Write, WriteSeparate, WriteRefused, DieToo, Close, KeepFile,
         FindEmpty, RemoveEmpty
  <2>3. QED
    BY <2>1, <2>2
<1>7. ASSUME NEW g \in Folders, pc'[g] = "open"
      PROVE  ~Exists(Target(g))'
  <2>1. CASE g = f
    <3>1. pc'[f] = "open"
      BY <1>7, <2>1
    <3>2. FreeFile(f) \/ (Enter(f) /\ overwrite)
      <4>1. ~Start(f) /\ ~Refuse(f) /\ ~MakeSeparateDir(f) /\ ~ClearDir(f) /\ ~RefuseFile(f) /\ ~Open(f)
        BY <3>1 DEF Start, Refuse, MakeSeparateDir, ClearDir, RefuseFile, Open, Goto, Types
      <4>2. ~BumpDir(f) /\ ~BumpFile(f) /\ ~Write(f) /\ ~WriteSeparate(f)
        BY <3>1 DEF BumpDir, BumpFile, Write, WriteSeparate, At
      <4>3. ~WriteRefused(f) /\ ~DieToo(f) /\ ~Close(f) /\ ~KeepFile(f) /\ ~FindEmpty(f) /\ ~RemoveEmpty(f)
        BY <3>1 DEF WriteRefused, DieToo, Close, KeepFile, FindEmpty, RemoveEmpty, Leave, Goto, Types
      <4>4. Enter(f) => overwrite
        BY <3>1 DEF Enter, Goto, Types
      <4>5. QED
        BY <4>1, <4>2, <4>3, <4>4 DEF Work
    <3>3. FreeFile(f)
      BY <1>2, <3>2
    <3>4. FileName(f) = CleanName(f)
      BY ModesAssumption DEF FileName, CleanName, CleanNames, Types
    <3>5. ~Exists(Target(f)) /\ UNCHANGED <<dir, bump, entry>>
      BY <3>3, <3>4 DEF FreeFile, Taken, InUse, tree
    <3>6. Target(f)' = Target(f)
      BY <1>1, <3>5, SameTarget
    <3>7. QED
      BY <2>1, <3>5, <3>6 DEF Exists
  <2>2. CASE g # f
    <3>1. pc[g] = "open" /\ Innermost(g) /\ ~Exists(Target(g))
      BY <1>3, <1>5, <1>7, <2>2, Moves
    <3>2. Start(f)
      <4>1. Innermost(f) => f = g
        BY <1>4, <3>1 DEF Chain
      <4>2. QED
        BY <1>2, <2>2, <4>1, OnlyInnermost
    <3>3. dir'[g] = dir[g] /\ bump' = bump /\ entry' = entry
      BY <2>2, <3>2 DEF Start, tree, Types
    <3>4. Target(g)' = Target(g)
      BY <1>1, <3>3, SameTarget
    <3>5. QED
      BY <3>1, <3>3, <3>4 DEF Exists
  <2>3. QED
    BY <2>1, <2>2
<1>8. QED
  BY <1>6, <1>7

-----------------------------------------------------------------------------
Whole == Types /\ Separate /\ KeptInv /\ ChainInv /\ ProbeHolds

\* The whole invariant holds at the start.
LEMMA InitWhole == Init => Whole
<1> SUFFICES ASSUME Init PROVE Whole
  OBVIOUS
<1>1. Types
  BY InitTypes
<1>2. Separate
  BY DEF Init, Separate, InDir
<1>3. KeptInv
  BY DEF Init, KeptInv, Kept, NamedByMaker, HasName, OwnItems, AfterOpening, NoneLeft, Opened
<1>4. ChainInv
  BY FoldersAssumption DEF Init, ChainInv, Chain, Innermost, Active
<1>5. ProbeHolds
  BY DEF Init, ProbeHolds
<1>6. QED
  BY <1>1, <1>2, <1>3, <1>4, <1>5 DEF Whole

\* It is strong enough.
LEMMA WholeKept ==
  ASSUME Whole
  PROVE  KeptUnlessRaced
<1> SUFFICES ASSUME ~overwrite PROVE KeptUnlessRaced
  BY DEF KeptUnlessRaced
<1>1. ~parallel => ~raced
  BY DEF Whole, ProbeHolds
<1>2. ASSUME ~raced PROVE \A f \in written : Intact(f)
  BY <1>2 DEF Whole, KeptInv, Kept, AfterOpening, HasName, OwnItems, Intact, Types
<1>3. ASSUME ~raced
      PROVE  \A f \in Folders \ written : pc[f] = "done" /\ mode # "separate" =>
               \A p \in DOMAIN entry : entry[p] = f => data[f] # {}
  BY <1>3 DEF Whole, KeptInv, Kept, NoneLeft
<1>4. QED
  BY <1>1, <1>2, <1>3 DEF KeptUnlessRaced

\* Without -w no folder loses its items: for every tree of folders and all names,
\* as long as no name is taken between its probe and its opening, which cannot
\* happen in a sequential run.
THEOREM FoldersKept ==
  ASSUME CleanNames
  PROVE  Spec => []KeptUnlessRaced
<1>1. Init => Whole
  BY InitWhole
<1>2. Whole /\ [Next]_vars => Whole'
  <2>1. ASSUME Whole, NEW f \in Folders, Work(f) PROVE Whole'
    BY <2>1, StepTypes, StepSeparate, StepKept, StepChain, StepProbe DEF Whole
  <2>2. ASSUME Whole, UNCHANGED vars PROVE Whole'
    <3>1. Types'
      BY <2>2, StutterTypes DEF Whole
    <3>2. UNCHANGED <<settings, pc, dir, bump, dirs, entry, file, data, written, raced>>
      BY <2>2 DEF vars, tree
    <3>3. \A g \in Folders : Target(g)' = Target(g)
      BY <3>2, SameTarget
    <3>4. Separate'
      BY <2>2, <3>2 DEF Whole, Separate, InDir, settings
    <3>5. KeptInv'
      BY <2>2, <3>2 DEF Whole, KeptInv, Kept, NamedByMaker, HasName, OwnItems, AfterOpening,
                        NoneLeft, Opened, Target, CleanName, FileName, Path, Exists, settings
    <3>6. ChainInv'
      BY <2>2, <3>2 DEF Whole, ChainInv, Chain, Innermost, Active, Inside, settings
    <3>7. ProbeHolds'
      BY <2>2, <3>2 DEF Whole, ProbeHolds, Target, CleanName, FileName, Path, Exists, settings
    <3>8. QED
      BY <3>1, <3>4, <3>5, <3>6, <3>7 DEF Whole
  <2>3. QED
    BY <2>1, <2>2 DEF Next
<1>3. Whole => KeptUnlessRaced
  BY WholeKept
<1>4. QED
  BY <1>1, <1>2, <1>3, PTL DEF Spec

-----------------------------------------------------------------------------
(* Who can do harm to a folder, with -w and with races: its file.          *)
\* Another folder has its file under the same name.
Namesake(f) == \E g \in Folders \ {f} : Entered(g) /\ Target(g) = Target(f)

\* What a folder without a namesake has, also with -w and with races.
LoneKept == \A f \in Folders : Opened(f) /\ ~Namesake(f) =>
  /\ data[f] = IF f \in written THEN {f} ELSE {}
  /\ f \in written \/ pc[f] \in {"write", "stat", "remove"} => Exists(Target(f)) /\ entry[Target(f)] = f
  /\ pc[f] = "remove" => f \notin written

\* The inode a folder has open was made under the name of its file.
FileNamed == mode # "separate" => \A f \in Folders : Opened(f) => Opened(file[f]) /\ Target(file[f]) = Target(f)
WrittenEntered == \A f \in written : Entered(f)
Lone == NamedByMaker /\ FileNamed /\ WrittenEntered /\ LoneKept

\* A path ends with the name it was made of.
LEMMA PathParts ==
  ASSUME NEW d \in Paths, NEW e \in Paths, NEW s \in Word, NEW t \in Word, NEW x \in Nat, NEW y \in Nat
  PROVE  /\ Path(d, s, x) = Path(e, t, y) => d = e /\ s = t /\ x = y
         /\ Path(d, s, x) # <<>> /\ Len(Path(d, s, x)) = Len(d) + 1
         /\ SubSeq(Path(d, s, x), 1, Len(Path(d, s, x)) - 1) = d
<1> DEFINE T == Word \X Nat
           a == <<s, x>>
           b == <<t, y>>
<1>1. d \in Seq(T) /\ e \in Seq(T) /\ a \in T /\ b \in T
  BY DEF Paths
<1>2. Path(d, s, x) = Append(d, a) /\ Path(e, t, y) = Append(e, b)
  BY DEF Path
<1>3. a = b => s = t /\ x = y
  OBVIOUS
<1> HIDE DEF a, b, T
<1>4. /\ Len(Append(d, a)) = Len(d) + 1 /\ Len(Append(e, b)) = Len(e) + 1
      /\ \A i \in 1 .. Len(d) : Append(d, a)[i] = d[i]
      /\ \A i \in 1 .. Len(e) : Append(e, b)[i] = e[i]
      /\ Append(d, a)[Len(d) + 1] = a /\ Append(e, b)[Len(e) + 1] = b
      /\ Append(d, a) \in Seq(T)
  BY <1>1, AppendProperties
<1>5. ASSUME Append(d, a) = Append(e, b)
      PROVE  d = e /\ a = b
  <2>1. Len(d) = Len(e)
    BY <1>1, <1>4, <1>5
  <2>2. \A i \in 1 .. Len(d) : d[i] = e[i]
    BY <1>4, <1>5, <2>1
  <2>3. a = b
    BY <1>4, <1>5, <2>1
  <2> QED BY <1>1, <2>1, <2>2, <2>3, SeqEqual
<1>6. Append(d, a) # <<>>
  BY <1>1
<1>7. SubSeq(Append(d, a), 1, Len(Append(d, a)) - 1) = d
  BY <1>1
<1> QED BY <1>2, <1>3, <1>4, <1>5, <1>6, <1>7

\* The file of a folder has a path.
LEMMA TargetParts ==
  ASSUME Types, NEW f \in Folders
  PROVE  /\ dir[f] \in Paths /\ CleanName(f) \in Word /\ Clean[name[f]] \in Word
         /\ \E x \in Nat : Target(f) = Path(dir[f], CleanName(f), x)
BY Words DEF Types, Target

\* A step moves one folder only, and the files of folders that have entered
\* keep their names.
LEMMA NamesStay ==
  ASSUME Types, NEW f \in Folders, Work(f)
  PROVE  /\ UNCHANGED settings
         /\ \A g \in Folders \ {f} : /\ pc'[g] = pc[g] /\ dir'[g] = dir[g] /\ bump'[g] = bump[g]
                                     /\ Target(g)' = Target(g)
         /\ \A g \in Folders : Entered(g) => Entered(g)' /\ Target(g)' = Target(g)
         /\ pc[f] \notin {"idle", "enter"} => dir' = dir
<1>1. UNCHANGED settings
  BY DEF Work, Start, Enter, Refuse, MakeSeparateDir, BumpDir, ClearDir, BumpFile, FreeFile,
         RefuseFile, Open, Write, WriteSeparate, WriteRefused, DieToo, Close, KeepFile,
         FindEmpty, RemoveEmpty
<1>2. \A g \in Folders \ {f} : pc'[g] = pc[g]
  BY Moves
<1>3. /\ \A g \in Folders \ {f} : dir'[g] = dir[g] /\ bump'[g] = bump[g]
      /\ Entered(f) => Entered(f)' /\ dir'[f] = dir[f] /\ bump'[f] = bump[f]
      /\ pc[f] \notin {"idle", "enter"} => dir' = dir
  <2>1. CASE Start(f) \/ Enter(f)
    BY <2>1 DEF Start, Enter, At, Goto, Entered, Types
  <2>2. CASE MakeSeparateDir(f) \/ ClearDir(f)
    BY <2>2 DEF MakeSeparateDir, ClearDir, At, Goto, Entered, Types
  <2>3. CASE BumpDir(f) \/ BumpFile(f)
    BY <2>3 DEF BumpDir, BumpFile, At, Entered, Types
  <2>4. CASE Refuse(f) \/ FreeFile(f) \/ RefuseFile(f) \/ Open(f)
    BY <2>4 DEF Refuse, FreeFile, RefuseFile, Open, At, Goto, Entered, Types
  <2>5. CASE Write(f) \/ WriteSeparate(f)
    BY <2>5 DEF Write, WriteSeparate, Entered
  <2>6. CASE WriteRefused(f) \/ DieToo(f) \/ Close(f) \/ KeepFile(f) \/ FindEmpty(f) \/ RemoveEmpty(f)
    BY <2>6 DEF WriteRefused, DieToo, Close, KeepFile, FindEmpty, RemoveEmpty, At, Goto, Leave, Entered, Types
  <2> QED BY <2>1, <2>2, <2>3, <2>4, <2>5, <2>6 DEF Work
<1>4. \A g \in Folders : dir'[g] = dir[g] /\ bump'[g] = bump[g] => Target(g)' = Target(g)
  BY <1>1, SameTarget
<1>5. \A g \in Folders \ {f} : Entered(g) => Entered(g)'
  BY <1>2 DEF Entered
<1> QED BY <1>1, <1>2, <1>3, <1>4, <1>5

\* A folder that has no namesake after a step had none before.
LEMMA LoneBefore ==
  ASSUME Types, NEW f \in Folders, Work(f), NEW g \in Folders, Entered(g), ~Namesake(g)'
  PROVE  /\ ~Namesake(g)
         /\ g # f /\ Entered(f)' => Target(f)' # Target(g)
<1>1. \A h \in Folders : Entered(h) => Entered(h)' /\ Target(h)' = Target(h)
  BY NamesStay
<1>2. \A h \in Folders \ {g} : ~(Entered(h)' /\ Target(h)' = Target(g)')
  BY DEF Namesake
<1> QED BY <1>1, <1>2 DEF Namesake

\* Whoever has made an inode has entered.
LEMMA OpenedEntered ==
  ASSUME Types, WrittenEntered, NEW f \in Folders
  PROVE  /\ Opened(f) => Entered(f)
         /\ mode # "separate" => (Opened(f) <=> Entered(f))
         /\ mode = "separate" => (Opened(f) <=> f \in written)
BY DEF Opened, Entered, WrittenEntered, Types, Labels

\* The parts of Lone but the last when a step keeps the inodes that are left.
LEMMA LoneFrame ==
  ASSUME Types, Types', Lone, NEW f \in Folders, Work(f),
         DOMAIN entry' \subseteq DOMAIN entry, \A p \in DOMAIN entry' : entry'[p] = entry[p],
         file' = file, written' = written, Opened(f)' <=> Opened(f), Entered(f) => Entered(f)'
  PROVE  NamedByMaker' /\ FileNamed' /\ WrittenEntered' /\ \A g \in Folders : Opened(g)' <=> Opened(g)
<1>1. mode' = mode
  BY NamesStay DEF settings
<1>2. \A g \in Folders : Opened(g)' <=> Opened(g)
  BY <1>1, NamesStay DEF Opened
<1>3. \A g \in Folders : Opened(g) => Target(g)' = Target(g)
  BY NamesStay, OpenedEntered DEF Lone
<1>4. \A p \in DOMAIN entry : entry[p] \in Folders /\ Opened(entry[p]) /\ p = Target(entry[p])
  BY DEF Lone, NamedByMaker, Types
<1>5. NamedByMaker'
  <2>1. SUFFICES ASSUME NEW p \in DOMAIN entry' PROVE Opened(entry[p])' /\ p = Target(entry[p])'
    BY DEF NamedByMaker
  <2>2. \A g : g = entry'[p] => Opened(g)' /\ p = Target(g)'
    BY <1>2, <1>3, <1>4
  <2> QED BY <2>2
<1>6. FileNamed'
  <2>1. SUFFICES ASSUME mode # "separate", NEW g \in Folders, Opened(g)
                 PROVE  Opened(file[g])' /\ Target(file[g])' = Target(g)'
    BY <1>1, <1>2 DEF FileNamed
  <2>2. file[g] \in Folders /\ Opened(file[g]) /\ Target(file[g]) = Target(g)
    BY <2>1 DEF Types, Lone, FileNamed
  <2>3. \A h : h = file'[g] => Opened(h)' /\ Target(h)' = Target(g)'
    BY <1>2, <1>3, <2>1, <2>2
  <2> QED BY <2>3
<1>7. WrittenEntered'
  BY NamesStay DEF Lone, WrittenEntered, Types
<1> QED BY <1>2, <1>5, <1>6, <1>7

\* Steps of a folder that has no file yet.
LEMMA LoneEarly ==
  ASSUME Types, Types', Lone, NEW f \in Folders, Work(f), UNCHANGED <<entry, data, file, written>>,
         pc[f] \in {"idle", "enter", "probe", "open"}, ~Opened(f)'
  PROVE  Lone'
<1>1. ~Opened(f) /\ f \notin written
  BY OpenedEntered DEF Lone, Opened, Entered, WrittenEntered
<1>2. NamedByMaker' /\ FileNamed' /\ WrittenEntered' /\ \A g \in Folders : Opened(g)' <=> Opened(g)
  BY <1>1, LoneFrame, NamesStay
<1>3. LoneKept'
  <2>1. SUFFICES ASSUME NEW g \in Folders, Opened(g)', ~Namesake(g)'
                 PROVE  /\ data'[g] = IF g \in written' THEN {g} ELSE {}
                        /\ g \in written' \/ pc'[g] \in {"write", "stat", "remove"} =>
                             Exists(Target(g))' /\ entry'[Target(g)'] = g
                        /\ pc'[g] = "remove" => g \notin written'
    BY DEF LoneKept
  <2>2. g # f /\ Opened(g) /\ Entered(g)
    BY <1>1, <1>2, <2>1, OpenedEntered DEF Lone
  <2>3. ~Namesake(g) /\ pc'[g] = pc[g] /\ Target(g)' = Target(g)
    BY <2>1, <2>2, LoneBefore, NamesStay
  <2> QED BY <2>2, <2>3 DEF Lone, LoneKept, Exists
<1> QED BY <1>2, <1>3 DEF Lone

\* With -w the files of a directory are deleted by a folder that has the same
\* directory then.
LEMMA LoneClear ==
  ASSUME Types, Types', Lone, NEW f \in Folders, ClearDir(f), Work(f)
  PROVE  Lone'
<1>1. /\ pc[f] = "enter" /\ mode = "separate" /\ pc' = [pc EXCEPT ![f] = "write"]
      /\ entry' = Restrict(entry, {p \in DOMAIN entry : SubSeq(p, 1, Len(p) - 1) # SeparateDir(f)})
      /\ dir' = [dir EXCEPT ![f] = SeparateDir(f)] /\ bump' = bump
      /\ UNCHANGED <<settings, file, data, written>>
  BY DEF ClearDir, At, Goto
<1>2. /\ DOMAIN entry' = {p \in DOMAIN entry : SubSeq(p, 1, Len(p) - 1) # SeparateDir(f)}
      /\ \A p \in DOMAIN entry' : entry'[p] = entry[p]
  BY <1>1 DEF Restrict
<1>3. f \notin written /\ ~Opened(f) /\ ~Opened(f)' /\ Entered(f)' /\ dir'[f] = SeparateDir(f)
  BY <1>1 DEF Lone, WrittenEntered, Entered, Opened, Types, settings
<1>4. NamedByMaker' /\ FileNamed' /\ WrittenEntered' /\ \A g \in Folders : Opened(g)' <=> Opened(g)
  BY <1>1, <1>2, <1>3, LoneFrame, NamesStay
<1>5. \A g \in Folders : Target(g) = Path(dir[g], "1", 0) /\ Target(g)' = Path(dir'[g], "1", 0)
  BY <1>1 DEF Target, CleanName, FileName, settings, Path
<1>6. LoneKept'
  <2>1. SUFFICES ASSUME NEW g \in Folders, Opened(g)', ~Namesake(g)'
                 PROVE  /\ data'[g] = IF g \in written' THEN {g} ELSE {}
                        /\ g \in written' \/ pc'[g] \in {"write", "stat", "remove"} =>
                             Exists(Target(g))' /\ entry'[Target(g)'] = g
                        /\ pc'[g] = "remove" => g \notin written'
    BY DEF LoneKept
  <2>2. g # f /\ Opened(g) /\ Entered(g) /\ g \in written
    BY <1>1, <1>3, <1>4, <2>1, OpenedEntered DEF Lone
  <2>3. ~Namesake(g) /\ pc'[g] = pc[g] /\ Target(g)' = Target(g) /\ Target(f)' # Target(g)
    BY <1>3, <2>1, <2>2, LoneBefore, NamesStay
  <2>4. dir[g] # SeparateDir(f)
    BY <1>3, <1>5, <2>3
  <2>5. SubSeq(Target(g), 1, Len(Target(g)) - 1) = dir[g]
    <3>1. dir[g] \in Paths /\ "1" \in Word
      BY Words DEF Types
    <3> QED BY <1>5, <3>1, PathParts
  <2>6. Exists(Target(g)) /\ entry[Target(g)] = g /\ data[g] = {g}
    BY <2>2, <2>3 DEF Lone, LoneKept
  <2>7. Target(g) \in DOMAIN entry'
    BY <1>2, <2>4, <2>5, <2>6 DEF Exists
  <2>8. pc[g] # "remove"
    BY <1>1 DEF Types
  <2> QED BY <1>1, <1>2, <2>2, <2>3, <2>6, <2>7, <2>8 DEF Exists
<1> QED BY <1>4, <1>6 DEF Lone

\* Steps that only move a folder whose file is open.
LEMMA LoneLate ==
  ASSUME Types, Types', Lone, NEW f \in Folders, Work(f),
         WriteRefused(f) \/ DieToo(f) \/ Close(f) \/ KeepFile(f) \/ FindEmpty(f)
  PROVE  Lone'
<1>1. /\ UNCHANGED <<settings, dir, bump, tree, file, written>>
      /\ pc[f] \in {"write", "stat"} /\ pc'[f] \in {"stat", "remove", "done", "dead"}
  BY DEF WriteRefused, DieToo, Close, KeepFile, FindEmpty, At, Goto, Leave, Types
<1>2. /\ mode' = mode /\ entry' = entry /\ written' = written /\ data' = data /\ file' = file
      /\ (Opened(f)' <=> Opened(f)) /\ Entered(f)
  BY <1>1 DEF settings, tree, Opened, Entered
<1>3. NamedByMaker' /\ FileNamed' /\ WrittenEntered' /\ \A g \in Folders : Opened(g)' <=> Opened(g)
  BY <1>2, LoneFrame, NamesStay
<1>4. LoneKept'
  <2>1. SUFFICES ASSUME NEW g \in Folders, Opened(g)', ~Namesake(g)'
                 PROVE  /\ data'[g] = IF g \in written' THEN {g} ELSE {}
                        /\ g \in written' \/ pc'[g] \in {"write", "stat", "remove"} =>
                             Exists(Target(g))' /\ entry'[Target(g)'] = g
                        /\ pc'[g] = "remove" => g \notin written'
    BY DEF LoneKept
  <2>2. Opened(g) /\ Entered(g)
    BY <1>3, <2>1, OpenedEntered DEF Lone
  <2>3. ~Namesake(g) /\ Target(g)' = Target(g)
    BY <2>1, <2>2, LoneBefore, NamesStay
  <2>4. /\ data[g] = IF g \in written THEN {g} ELSE {}
        /\ g \in written \/ pc[g] \in {"write", "stat", "remove"} => Exists(Target(g)) /\ entry[Target(g)] = g
        /\ pc[g] = "remove" => g \notin written
    BY <2>2, <2>3 DEF Lone, LoneKept
  <2>5. CASE g # f
    <3>1. pc'[g] = pc[g]
      BY <2>5, NamesStay
    <3> QED BY <1>2, <2>3, <2>4, <3>1 DEF Exists
  <2>6. CASE g = f
    <3>1. Exists(Target(f)) /\ entry[Target(f)] = f
      BY <1>1, <2>4, <2>6
    <3>2. pc'[f] = "remove" => f \notin written
      <4>1. SUFFICES ASSUME pc'[f] = "remove", f \in written PROVE FALSE
        OBVIOUS
      <4>2. FindEmpty(f)
        BY <4>1 DEF WriteRefused, DieToo, Close, KeepFile, FindEmpty, Goto, Leave, Types
      <4>3. data[entry[Target(f)]] = {}
        BY <3>1, <4>2 DEF FindEmpty, Empty
      <4> QED BY <2>4, <2>6, <3>1, <4>1, <4>3
    <3> QED BY <1>2, <2>3, <2>4, <2>6, <3>1, <3>2 DEF Exists
  <2> QED BY <2>5, <2>6
<1> QED BY <1>3, <1>4 DEF Lone

\* A file is created or opened again, which only a namesake has made.
LEMMA LoneOpened ==
  ASSUME Types, Types', Lone, NEW f \in Folders, Work(f), ~Opened(f), Opened(f)', NEW contents,
         OpenForWriting(f, Target(f), contents), Target(f)' = Target(f), pc'[f] = "write",
         \/ written' = written /\ contents = {}
         \/ written' = written \cup {f} /\ contents = {f}
  PROVE  Lone'
<1>2. \A p \in DOMAIN entry : entry[p] \in Folders /\ Opened(entry[p]) /\ p = Target(entry[p])
  BY DEF Lone, NamedByMaker, Types
<1>0. PICK i \in Folders : i = IF Exists(Target(f)) THEN entry[Target(f)] ELSE f
  BY <1>2 DEF Exists
<1>1. /\ entry' = [p \in DOMAIN entry \cup {Target(f)} |-> IF p = Target(f) THEN i ELSE entry[p]]
      /\ file' = [file EXCEPT ![f] = i] /\ data' = [data EXCEPT ![i] = contents]
  BY <1>0 DEF OpenForWriting
<1>3. /\ i \in Folders /\ Target(i) = Target(f) /\ (i = f \/ (Opened(i) /\ i # f))
      /\ i = f => ~Exists(Target(f))
  <2>0. i \in Folders
    BY <1>0
  <2>1. CASE Exists(Target(f))
    <3>1. i = entry[Target(f)] /\ Target(f) \in DOMAIN entry
      BY <1>0, <2>1 DEF Exists
    <3>2. Opened(i) /\ Target(f) = Target(i)
      BY <1>2, <3>1
    <3> QED BY <2>0, <2>1, <3>2
  <2>2. CASE ~Exists(Target(f))
    <3>1. i = f
      BY <1>0, <2>2
    <3>2. Target(i) = Target(f)
      BY <3>1
    <3>3. i = f => ~Exists(Target(f))
      BY <2>2
    <3>4. i = f \/ (Opened(i) /\ i # f)
      BY <3>1
    <3> QED BY <2>0, <3>2, <3>3, <3>4
  <2> QED BY <2>1, <2>2
<1>4. mode' = mode /\ \A g \in Folders \ {f} : pc'[g] = pc[g] /\ Target(g)' = Target(g)
  BY NamesStay DEF settings
<1>5. f \notin written /\ \A g \in Folders \ {f} : (Opened(g)' <=> Opened(g)) /\ (g \in written' <=> g \in written)
  <2>1. \A g \in Folders \ {f} : (Opened(g)' <=> Opened(g)) /\ (g \in written' <=> g \in written)
    BY <1>4 DEF Opened
  <2>2. f \notin written
    BY OpenedEntered DEF Lone, WrittenEntered, Opened, Entered, Types, Labels
  <2> QED BY <2>1, <2>2
<1>6. Entered(f)' /\ \A g \in Folders : Target(g)' = Target(g)
  BY <1>4 DEF Entered
<1>7. Opened(i)'
  BY <1>3, <1>5
<1>8. NamedByMaker'
  <2>1. SUFFICES ASSUME NEW p \in DOMAIN entry' PROVE Opened(entry[p])' /\ p = Target(entry[p])'
    BY DEF NamedByMaker
  <2>2. \A g \in Folders : Opened(g) => Opened(g)'
    BY <1>5
  <2>3. \A g : g = entry'[p] => Opened(g)' /\ p = Target(g)'
    BY <1>1, <1>2, <1>3, <1>6, <1>7, <2>2
  <2> QED BY <2>3
<1>9. FileNamed'
  <2>1. SUFFICES ASSUME mode # "separate", NEW g \in Folders, Opened(g)'
                 PROVE  Opened(file[g])' /\ Target(file[g])' = Target(g)'
    BY <1>4 DEF FileNamed
  <2>2. CASE g = f
    <3>1. file'[g] = i
      BY <1>1, <2>2 DEF Types
    <3>2. \A h : h = file'[g] => Opened(h)' /\ Target(h)' = Target(g)'
      BY <1>3, <1>6, <1>7, <2>2, <3>1
    <3> QED BY <3>2
  <2>3. CASE g # f
    <3>1. file'[g] = file[g] /\ file[g] \in Folders /\ Opened(g)
      BY <1>1, <1>5, <2>1, <2>3 DEF Types
    <3>2. Opened(file[g]) /\ Target(file[g]) = Target(g)
      BY <2>1, <3>1 DEF Lone, FileNamed
    <3>3. \A h \in Folders : Opened(h) => Opened(h)'
      BY <1>5
    <3>4. \A h : h = file'[g] => Opened(h)' /\ Target(h)' = Target(g)'
      BY <1>6, <3>1, <3>2, <3>3
    <3> QED BY <3>4
  <2> QED BY <2>2, <2>3
<1>10. WrittenEntered'
  BY <1>4, <1>6 DEF Lone, WrittenEntered, Entered, Types
<1>11. LoneKept'
  <2>1. SUFFICES ASSUME NEW g \in Folders, Opened(g)', ~Namesake(g)'
                 PROVE  /\ data'[g] = IF g \in written' THEN {g} ELSE {}
                        /\ g \in written' \/ pc'[g] \in {"write", "stat", "remove"} =>
                             Exists(Target(g))' /\ entry'[Target(g)'] = g
                        /\ pc'[g] = "remove" => g \notin written'
    BY DEF LoneKept
  <2>2. CASE g = f
    <3>1. i = f
      <4>1. SUFFICES ASSUME i # f PROVE FALSE
        OBVIOUS
      <4>2. Opened(i) /\ Entered(i)
        BY <1>3, <4>1, OpenedEntered DEF Lone
      <4>3. Entered(i)' /\ Target(i)' = Target(f)'
        BY <1>3, <1>6, <4>2, NamesStay
      <4>4. Namesake(f)'
        <5>1. \A h \in Folders \ {f} : Entered(h)' /\ Target(h)' = Target(f)' => Namesake(f)'
          BY DEF Namesake
        <5> QED BY <1>3, <4>1, <4>3, <5>1
      <4> QED BY <2>1, <2>2, <4>4
    <3>2. data'[f] = contents /\ Target(f) \in DOMAIN entry' /\ entry'[Target(f)] = f
      BY <1>1, <3>1 DEF Types
    <3>3. f \in written' <=> contents = {f}
      BY <1>5
    <3> QED BY <1>6, <2>2, <3>2, <3>3 DEF Exists
  <2>3. CASE g # f
    <3>1. Opened(g) /\ Entered(g) /\ pc'[g] = pc[g] /\ (g \in written' <=> g \in written)
      BY <1>4, <1>5, <2>1, <2>3, OpenedEntered DEF Lone
    <3>2. ~Namesake(g) /\ Target(g) # Target(f)
      BY <1>6, <2>1, <2>3, <3>1, LoneBefore
    <3>3. g # i
      BY <1>3, <3>2
    <3>4. data'[g] = data[g]
      BY <1>1, <3>3 DEF Types
    <3>5. Exists(Target(g)) => Target(g) \in DOMAIN entry' /\ entry'[Target(g)] = entry[Target(g)]
      BY <1>1, <3>2 DEF Exists
    <3>6. /\ data[g] = IF g \in written THEN {g} ELSE {}
          /\ g \in written \/ pc[g] \in {"write", "stat", "remove"} => Exists(Target(g)) /\ entry[Target(g)] = g
          /\ pc[g] = "remove" => g \notin written
      BY <3>1, <3>2 DEF Lone, LoneKept
    <3> QED BY <1>6, <3>1, <3>4, <3>5, <3>6 DEF Exists
  <2> QED BY <2>2, <2>3
<1> QED BY <1>8, <1>9, <1>10, <1>11 DEF Lone

\* Items go to the own inode, or to that of a namesake.
LEMMA LoneWrite ==
  ASSUME Types, Types', Lone, NEW f \in Folders, Work(f), Write(f)
  PROVE  Lone'
<1>1. /\ pc[f] = "write" /\ mode # "separate" /\ written' = written \cup {f}
      /\ data' = [data EXCEPT ![file[f]] = {f}]
      /\ UNCHANGED <<settings, pc, dir, bump, entry, file>>
  BY DEF Write, At
<1>2. mode' = mode /\ \A g \in Folders : Target(g)' = Target(g)
  BY <1>1, SameTarget DEF settings
<1>3. /\ \A g \in Folders : (Opened(g)' <=> Opened(g)) /\ (Entered(g)' <=> Entered(g))
      /\ Opened(f) /\ Entered(f)
  BY <1>1, <1>2 DEF Opened, Entered
<1>4. file[f] \in Folders /\ Opened(file[f]) /\ Target(file[f]) = Target(f)
  BY <1>1, <1>3 DEF Lone, FileNamed, Types
<1>5. NamedByMaker'
  <2>1. SUFFICES ASSUME NEW p \in DOMAIN entry' PROVE Opened(entry[p])' /\ p = Target(entry[p])'
    BY DEF NamedByMaker
  <2>2. \A g : g = entry'[p] => Opened(g)' /\ p = Target(g)'
    BY <1>1, <1>2, <1>3 DEF Lone, NamedByMaker, Types
  <2> QED BY <2>2
<1>6. FileNamed'
  <2>1. SUFFICES ASSUME NEW g \in Folders, Opened(g)'
                 PROVE  Opened(file[g])' /\ Target(file[g])' = Target(g)'
    BY DEF FileNamed
  <2>2. file[g] \in Folders /\ Opened(file[g]) /\ Target(file[g]) = Target(g)
    BY <1>1, <1>3, <2>1 DEF Lone, FileNamed, Types
  <2>3. \A h : h = file'[g] => Opened(h)' /\ Target(h)' = Target(g)'
    BY <1>1, <1>2, <1>3, <2>2
  <2> QED BY <2>3
<1>7. WrittenEntered'
  BY <1>1, <1>3 DEF Lone, WrittenEntered, Types
<1>8. LoneKept'
  <2>1. SUFFICES ASSUME NEW g \in Folders, Opened(g)', ~Namesake(g)'
                 PROVE  /\ data'[g] = IF g \in written' THEN {g} ELSE {}
                        /\ g \in written' \/ pc'[g] \in {"write", "stat", "remove"} =>
                             Exists(Target(g))' /\ entry'[Target(g)'] = g
                        /\ pc'[g] = "remove" => g \notin written'
    BY DEF LoneKept
  <2>2. Opened(g) /\ Entered(g)
    BY <1>3, <2>1, OpenedEntered DEF Lone
  <2>3. ~Namesake(g) /\ (g # f => Target(f) # Target(g))
    BY <1>2, <1>3, <2>1, <2>2, LoneBefore
  <2>4. /\ data[g] = IF g \in written THEN {g} ELSE {}
        /\ g \in written \/ pc[g] \in {"write", "stat", "remove"} => Exists(Target(g)) /\ entry[Target(g)] = g
        /\ pc[g] = "remove" => g \notin written
    BY <2>2, <2>3 DEF Lone, LoneKept
  <2>5. CASE g = f
    <3>1. file[f] = f
      BY <1>4, <2>3, <2>5, OpenedEntered DEF Namesake, Lone
    <3>2. data'[f] = {f}
      BY <1>1, <3>1 DEF Types
    <3> QED BY <1>1, <1>2, <2>4, <2>5, <3>2 DEF Exists
  <2>6. CASE g # f
    <3>1. data'[g] = data[g]
      BY <1>1, <1>4, <2>3, <2>6 DEF Types
    <3> QED BY <1>1, <1>2, <2>4, <2>6, <3>1 DEF Exists
  <2> QED BY <2>5, <2>6
<1> QED BY <1>5, <1>6, <1>7, <1>8 DEF Lone

\* A name that is removed is the own one.
LEMMA LoneRemove ==
  ASSUME Types, Types', Lone, NEW f \in Folders, Work(f), RemoveEmpty(f)
  PROVE  Lone'
<1>1. /\ pc[f] = "remove" /\ pc'[f] \in {"done", "dead"}
      /\ entry' = Restrict(entry, DOMAIN entry \ {Target(f)})
      /\ UNCHANGED <<settings, dir, bump, file, data, written>>
  BY DEF RemoveEmpty, At, Leave, Goto, Types
<1>2. DOMAIN entry' = DOMAIN entry \ {Target(f)} /\ \A p \in DOMAIN entry' : entry'[p] = entry[p]
  BY <1>1 DEF Restrict
<1>3. (Opened(f)' <=> Opened(f)) /\ Entered(f) /\ Entered(f)' /\ mode' = mode
  BY <1>1 DEF Opened, Entered, settings
<1>4. NamedByMaker' /\ FileNamed' /\ WrittenEntered' /\ \A g \in Folders : Opened(g)' <=> Opened(g)
  BY <1>1, <1>2, <1>3, LoneFrame
<1>5. LoneKept'
  <2>1. SUFFICES ASSUME NEW g \in Folders, Opened(g)', ~Namesake(g)'
                 PROVE  /\ data'[g] = IF g \in written' THEN {g} ELSE {}
                        /\ g \in written' \/ pc'[g] \in {"write", "stat", "remove"} =>
                             Exists(Target(g))' /\ entry'[Target(g)'] = g
                        /\ pc'[g] = "remove" => g \notin written'
    BY DEF LoneKept
  <2>2. Opened(g) /\ Entered(g)
    BY <1>4, <2>1, OpenedEntered DEF Lone
  <2>3. ~Namesake(g) /\ Target(g)' = Target(g)
    BY <2>1, <2>2, LoneBefore, NamesStay
  <2>4. /\ data[g] = IF g \in written THEN {g} ELSE {}
        /\ g \in written \/ pc[g] \in {"write", "stat", "remove"} => Exists(Target(g)) /\ entry[Target(g)] = g
        /\ pc[g] = "remove" => g \notin written
    BY <2>2, <2>3 DEF Lone, LoneKept
  <2>5. CASE g = f
    BY <1>1, <2>4, <2>5
  <2>6. CASE g # f
    <3>1. Target(g) # Target(f) /\ pc'[g] = pc[g]
      <4>1. Target(f)' = Target(f)
        BY <1>3, NamesStay
      <4> QED BY <1>3, <2>1, <2>2, <2>6, <4>1, LoneBefore, NamesStay
    <3> QED BY <1>1, <1>2, <2>3, <2>4, <3>1 DEF Exists
  <2> QED BY <2>5, <2>6
<1> QED BY <1>4, <1>5 DEF Lone

\* Every step.
LEMMA StepLone ==
  ASSUME Types, Types', Lone, NEW f \in Folders, Work(f)
  PROVE  Lone'
<1>1. CASE \/ Start(f) \/ Enter(f) \/ Refuse(f) \/ MakeSeparateDir(f) \/ BumpDir(f)
           \/ BumpFile(f) \/ FreeFile(f) \/ RefuseFile(f)
  <2>1. /\ pc[f] \in {"idle", "enter", "probe", "open"}
        /\ UNCHANGED <<entry, file, data, written, settings>>
        /\ \/ pc'[f] \in {"enter", "probe", "open", "refused"}
           \/ mode = "separate" /\ pc'[f] = "write"
    <3>1. CASE Start(f) \/ Enter(f)
      BY <3>1 DEF Start, Enter, At, Goto, tree, Types
    <3>2. CASE Refuse(f) \/ FreeFile(f) \/ RefuseFile(f)
      BY <3>2 DEF Refuse, FreeFile, RefuseFile, At, Goto, tree, Types
    <3>3. CASE MakeSeparateDir(f)
      BY <3>3 DEF MakeSeparateDir, At, Goto, tree, Types
    <3>4. CASE BumpDir(f) \/ BumpFile(f)
      BY <3>4 DEF BumpDir, BumpFile, At, tree, Types
    <3>5. QED
      BY <1>1, <3>1, <3>2, <3>3, <3>4
  <2>2. f \notin written
    BY <2>1 DEF Lone, WrittenEntered, Entered
  <2>3. ~Opened(f)'
    BY <2>1, <2>2 DEF Opened, settings
  <2> QED BY <2>1, <2>3, LoneEarly
<1>2. CASE ClearDir(f)
  BY <1>2, LoneClear
<1>3. CASE WriteRefused(f) \/ DieToo(f) \/ Close(f) \/ KeepFile(f) \/ FindEmpty(f)
  BY <1>3, LoneLate
<1>4. CASE Open(f)
  <2>1. /\ pc[f] = "open" /\ pc'[f] = "write" /\ OpenForWriting(f, Target(f), {})
        /\ UNCHANGED <<settings, dir, bump, written>>
    BY <1>4 DEF Open, At, Goto, Types
  <2>2. mode # "separate" /\ mode' = mode
    BY <2>1 DEF Types, settings
  <2>3. ~Opened(f) /\ Opened(f)' /\ Target(f)' = Target(f)
    BY <2>1, <2>2, SameTarget DEF Opened
  <2> QED BY <2>1, <2>3, LoneOpened
<1>5. CASE Write(f)
  BY <1>5, LoneWrite
<1>6. CASE WriteSeparate(f)
  <2>1. /\ pc[f] = "write" /\ pc' = pc /\ mode = "separate" /\ f \notin written
        /\ OpenForWriting(f, Target(f), {f}) /\ written' = written \cup {f}
        /\ UNCHANGED <<settings, dir, bump>>
    BY <1>6 DEF WriteSeparate, At
  <2>2. ~Opened(f) /\ Opened(f)' /\ Target(f)' = Target(f)
    BY <2>1, SameTarget DEF Opened, settings
  <2> QED BY <2>1, <2>2, LoneOpened
<1>7. CASE RemoveEmpty(f)
  BY <1>7, LoneRemove
<1> QED BY <1>1, <1>2, <1>3, <1>4, <1>5, <1>6, <1>7 DEF Work

-----------------------------------------------------------------------------
(* Its directory, and its process.                                         *)
\* Where a folder is made, and the directory of a folder in the modes that have
\* one for every folder.
Base(f) == IF f = Root THEN <<>> ELSE dir[Above[f]]
Nested == mode \in {"recurse", "separate"}
Own(f, d) == \E x \in Nat : d = Path(Base(f), Clean[name[f]], x)
Past(f) == pc[f] \notin {"idle", "enter"}
Held(f) == Past(f) /\ pc[f] # "refused"

\* A folder has the name of an output file of the directory it is made in.
Clash == \E f, g \in Folders :
  /\ f # g /\ Past(Above[f]) /\ Past(g)
  /\ dir[Above[f]] = dir[g] /\ Clean[name[f]] = CleanName(g)

Tree ==
  /\ <<>> \in dirs /\ dirs \subseteq Paths
  /\ dirs \cap DOMAIN entry = {} /\ IsFiniteSet(DOMAIN entry)

\* Whoever runs was called by somebody who had entered, and first of all by main.
Called ==
  /\ \A f \in Folders \ {Root} : pc[f] # "idle" => Entered(Above[f]) /\ Entered(Root)
  /\ \A f \in Folders : /\ pc[f] = "idle" => dir[f] = <<>>
                        /\ pc[f] = "enter" => dir[f] = Base(f)

\* In MODE_NORMAL there is only the output directory; in MODE_KMAIL a directory
\* has an even depth, and a file an odd one.
Even(d) == \E k \in Nat : Len(d) = 2 * k
Places ==
  /\ mode = "normal" => dirs = {<<>>} /\ \A f \in Folders : dir[f] = <<>>
  /\ mode = "kmail" => (\A d \in dirs : Even(d)) /\ \A f \in Folders : Even(dir[f])
  /\ Nested => /\ \A f \in Folders : Held(f) => Own(f, dir[f])
               /\ \A d \in dirs \ {<<>>} : \E f \in Folders : pc[f] # "idle" /\ Own(f, d)

\* Only then a process dies, or a directory is missing.
Harm == Nested /\ Clash
HarmOnly == /\ \A f \in Folders : dir[f] \in dirs \/ Harm
            /\ \A f \in Folders : pc[f] \in Ended => Harm

PlaceInv == Tree /\ Called /\ Places /\ HarmOnly

\* The file of a folder that has its directory under a name of a directory.
LEMMA CollideDir ==
  ASSUME Types, PlaceInv, Nested, NEW g \in Folders, Held(g), Target(g) \in dirs
  PROVE  Clash
<1>1. PICK x \in Nat : Target(g) = Path(dir[g], CleanName(g), x)
  BY TargetParts
<1>2. dir[g] \in Paths /\ CleanName(g) \in Word
  BY TargetParts
<1>3. Target(g) # <<>>
  BY <1>1, <1>2, PathParts
<1>4. PICK h \in Folders : pc[h] # "idle" /\ Own(h, Target(g))
  BY <1>3 DEF PlaceInv, Places
<1>5. PICK y \in Nat : Target(g) = Path(Base(h), Clean[name[h]], y)
  BY <1>4 DEF Own
<1>6. Base(h) \in Paths /\ Clean[name[h]] \in Word
  <2>1. dir \in [Folders -> Paths] /\ Above \in [Folders -> Folders] /\ <<>> \in Paths
    BY FoldersAssumption DEF Types, Paths
  <2> QED BY <2>1, TargetParts DEF Base
<1>7. dir[g] = Base(h) /\ CleanName(g) = Clean[name[h]]
  <2>1. Path(dir[g], CleanName(g), x) = Path(Base(h), Clean[name[h]], y) /\ x \in Nat /\ y \in Nat
    BY <1>1, <1>5
  <2> QED BY <1>2, <1>6, <2>1, PathParts
<1>8. PICK z \in Nat : dir[g] = Path(Base(g), Clean[name[g]], z)
  BY DEF PlaceInv, Places, Own
<1>9. Base(g) \in Paths /\ Clean[name[g]] \in Word
  <2>1. dir \in [Folders -> Paths] /\ Above \in [Folders -> Folders] /\ <<>> \in Paths
    BY FoldersAssumption DEF Types, Paths
  <2> QED BY <2>1, TargetParts DEF Base
<1>10. dir[g] # <<>> /\ Len(dir[g]) = Len(Base(g)) + 1
  BY <1>8, <1>9, PathParts
<1>11. h # g
  BY <1>7, <1>9, <1>10, LenProperties DEF Paths
<1>12. h # Root
  BY <1>7, <1>10 DEF Base
<1>13. Past(Above[h]) /\ Past(g) /\ dir[Above[h]] = dir[g]
  BY <1>4, <1>7, <1>12 DEF PlaceInv, Called, Entered, Past, Base, Held
<1> QED BY <1>7, <1>11, <1>13 DEF Clash

\* The directory a folder is to make under the name of a file.
LEMMA CollideFile ==
  ASSUME Types, PlaceInv, Lone, Nested, NEW f \in Folders, pc[f] = "enter", NEW y \in Nat,
         Exists(Path(dir[f], Clean[name[f]], y))
  PROVE  Clash
<1>1. PICK g \in Folders : Opened(g) /\ Path(dir[f], Clean[name[f]], y) = Target(g)
  BY DEF Exists, Lone, NamedByMaker, Types
<1>2. Entered(g)
  BY <1>1, OpenedEntered DEF Lone
<1>3. g # f /\ Past(g)
  BY <1>2 DEF Entered, Past
<1>4. f # Root
  BY <1>2, <1>3 DEF PlaceInv, Called, Entered
<1>5. dir[f] = dir[Above[f]] /\ Past(Above[f])
  BY <1>4 DEF PlaceInv, Called, Base, Entered, Past
<1>6. PICK x \in Nat : Target(g) = Path(dir[g], CleanName(g), x)
  BY TargetParts
<1>7. dir[f] = dir[g] /\ Clean[name[f]] = CleanName(g)
  BY <1>1, <1>6, TargetParts, PathParts, SMTT(30)
<1> QED BY <1>3, <1>5, <1>7 DEF Clash

\* What a step leaves as it is.
LEMMA ClashStays ==
  ASSUME Types, PlaceInv, NEW f \in Folders, Work(f)
  PROVE  /\ mode' = mode /\ name' = name /\ (Nested' <=> Nested)
         /\ \A g \in Folders : pc[g] # "idle" => pc'[g] # "idle"
         /\ \A g \in Folders : Past(g) => Past(g)' /\ dir'[g] = dir[g]
         /\ \A g \in Folders : pc'[g] # "idle" /\ (g # f \/ ~Start(f)) => Base(g)' = Base(g)
         /\ Harm => Harm'
<1>1. mode' = mode /\ name' = name
  BY NamesStay DEF settings
<1>2. \A g \in Folders : pc[g] # "idle" => pc'[g] # "idle"
  BY Moves
<1>3. Past(f) => Past(f)'
  <2>1. ~Start(f) => pc'[f] # "enter" \/ pc[f] = "enter"
    BY DEF Work, Enter, Refuse, MakeSeparateDir, BumpDir, ClearDir, BumpFile, FreeFile,
         RefuseFile, Open, Write, WriteSeparate, WriteRefused, DieToo, Close, KeepFile,
         FindEmpty, RemoveEmpty, Leave, Goto, Types
  <2> QED BY <2>1, Moves DEF Past
<1>4. \A g \in Folders : Past(g) => Past(g)' /\ dir'[g] = dir[g]
  BY <1>3, NamesStay DEF Past
<1>5. \A g \in Folders : pc[g] # "idle" => Base(g)' = Base(g)
  <2>1. \A g \in Folders \ {Root} : pc[g] # "idle" => Past(Above[g]) /\ Above[g] \in Folders
    BY FoldersAssumption DEF PlaceInv, Called, Entered, Past
  <2> QED BY <1>4, <2>1 DEF Base
<1>6. Clash => Clash'
  <2>1. SUFFICES ASSUME Clash PROVE Clash'
    OBVIOUS
  <2>2. PICK g, h \in Folders : g # h /\ Past(Above[g]) /\ Past(h) /\ dir[Above[g]] = dir[h]
                               /\ Clean[name[g]] = CleanName(h)
    BY <2>1 DEF Clash
  <2>3. Above[g] \in Folders
    BY FoldersAssumption
  <2>4. /\ Past(Above[g])' /\ Past(h)' /\ dir'[Above[g]] = dir'[h]
        /\ Clean[name'[g]] = CleanName(h)'
    BY <1>1, <1>4, <2>2, <2>3 DEF CleanName, FileName
  <2> QED BY <2>2, <2>4 DEF Clash
<1>7. \A g \in Folders : pc'[g] # "idle" /\ (g # f \/ ~Start(f)) => Base(g)' = Base(g)
  BY <1>5, Moves
<1> QED BY <1>1, <1>2, <1>4, <1>6, <1>7 DEF Nested, Harm

\* Depths are even or odd.
LEMMA OddDepth ==
  ASSUME NEW d \in Paths, NEW e \in Paths, Len(e) = Len(d) + 1
  PROVE  ~(Even(d) /\ Even(e))
<1>1. SUFFICES ASSUME NEW k \in Nat, NEW m \in Nat, Len(d) = 2 * k, Len(e) = 2 * m PROVE FALSE
  BY DEF Even
<1>2. 2 * m = 2 * k + 1
  BY <1>1
<1> QED BY <1>2

\* The file of a folder under the name of a directory.
LEMMA FileIsDir ==
  ASSUME Types, PlaceInv, NEW f \in Folders, Held(f), Target(f) \in dirs
  PROVE  Harm
<1>1. PICK x \in Nat : Target(f) = Path(dir[f], CleanName(f), x)
  BY TargetParts
<1>2. dir[f] \in Paths /\ CleanName(f) \in Word
  BY TargetParts
<1>3. Target(f) # <<>> /\ Len(Target(f)) = Len(dir[f]) + 1
  BY <1>1, <1>2, PathParts
<1>4. mode # "normal"
  BY <1>3 DEF PlaceInv, Places
<1>5. mode # "kmail"
  <2>1. SUFFICES ASSUME mode = "kmail" PROVE FALSE
    OBVIOUS
  <2>2. Even(dir[f]) /\ Even(Target(f)) /\ Target(f) \in Paths
    BY <2>1 DEF PlaceInv, Places, Tree
  <2> QED BY <1>2, <1>3, <2>2, OddDepth
<1>6. Nested
  BY <1>4, <1>5, ModesAssumption DEF Nested, Types
<1> QED BY <1>6, CollideDir DEF Harm

\* The directory of a folder under the name of a file.
LEMMA DirIsFile ==
  ASSUME Types, PlaceInv, Lone, NEW f \in Folders, pc[f] = "enter",
         \/ mode # "separate" /\ Exists(FolderDir(f)) /\ dir[f] \in dirs
         \/ mode = "separate" /\ Exists(SeparateDir(f))
  PROVE  Harm
<1>1. mode # "normal"
  <2>1. SUFFICES ASSUME mode = "normal" PROVE FALSE
    OBVIOUS
  <2>2. dir[f] \in dirs /\ Exists(dir[f])
    BY <2>1 DEF FolderDir
  <2> QED BY <2>2 DEF PlaceInv, Tree, Exists
<1>2. mode # "kmail"
  <2>1. SUFFICES ASSUME mode = "kmail" PROVE FALSE
    OBVIOUS
  <2>2. FolderDir(f) \in DOMAIN entry
    BY <2>1 DEF Exists
  <2>3. PICK g \in Folders : FolderDir(f) = Target(g)
    BY <2>2 DEF Lone, NamedByMaker, Types
  <2>4. PICK x \in Nat : Target(g) = Path(dir[g], CleanName(g), x)
    BY TargetParts
  <2>5. FolderDir(f) = Path(Path(dir[f], Clean[name[f]], 0), "directory", 0)
    BY <2>1 DEF FolderDir
  <2>6. dir[f] \in Paths /\ dir[g] \in Paths /\ Clean[name[f]] \in Word /\ CleanName(g) \in Word /\ "directory" \in Word
    BY TargetParts, Words
  <2>7. Path(dir[f], Clean[name[f]], 0) \in Paths
    BY <2>6, PathType
  <2>8. Path(dir[f], Clean[name[f]], 0) = dir[g]
    BY <2>3, <2>4, <2>5, <2>6, <2>7, PathParts
  <2>9. Len(dir[g]) = Len(dir[f]) + 1
    BY <2>6, <2>8, PathParts, SMTT(30)
  <2>10. Even(dir[f]) /\ Even(dir[g])
    BY <2>1 DEF PlaceInv, Places
  <2> QED BY <2>6, <2>9, <2>10, OddDepth
<1>3. Nested
  BY <1>1, <1>2, ModesAssumption DEF Nested, Types
<1>4. \E y \in Nat : Exists(Path(dir[f], Clean[name[f]], y))
  <2>1. CASE mode = "separate"
    <3>1. bump[f] \in Nat /\ Exists(Path(dir[f], Clean[name[f]], bump[f]))
      BY <2>1 DEF SeparateDir, Types
    <3> QED BY <3>1
  <2>2. CASE mode # "separate"
    <3>1. FolderDir(f) = Path(dir[f], Clean[name[f]], 0) /\ Exists(FolderDir(f))
      BY <1>1, <1>2, <2>2 DEF FolderDir
    <3> QED BY <3>1
  <2> QED BY <2>1, <2>2
<1> QED BY <1>3, <1>4, CollideFile DEF Harm

\* What the steps do to the directories.
LEMMA DirSteps ==
  ASSUME Types, NEW f \in Folders, Work(f)
  PROVE  \/ Enter(f) /\ mode # "separate" /\ dirs' = dirs \cup {dir'[f]} /\ dir'[f] = FolderDir(f)
            /\ entry' = entry /\ ~Exists(dir'[f]) /\ pc[f] = "enter" /\ Past(f)'
         \/ MakeSeparateDir(f) /\ mode = "separate" /\ dirs' = dirs \cup {dir'[f]} /\ dir'[f] = SeparateDir(f)
            /\ entry' = entry /\ ~Exists(dir'[f]) /\ pc[f] = "enter" /\ Past(f)'
         \/ ClearDir(f) /\ mode = "separate" /\ dirs' = dirs /\ dir'[f] = SeparateDir(f) /\ dir'[f] \in dirs
            /\ DOMAIN entry' \subseteq DOMAIN entry /\ pc[f] = "enter" /\ Past(f)'
         \/ Start(f) /\ dirs' = dirs /\ entry' = entry /\ dir'[f] = dir[Above[f]] /\ pc[f] = "idle" /\ pc'[f] = "enter"
         \/ (Open(f) \/ WriteSeparate(f)) /\ dirs' = dirs /\ dir' = dir /\ Past(f) /\ Past(f)' /\ Target(f) \notin dirs
            /\ DOMAIN entry' = DOMAIN entry \cup {Target(f)}
         \/ RemoveEmpty(f) /\ pc[f] = "remove" /\ dir' = dir /\ Past(f)' /\ DOMAIN entry' \subseteq DOMAIN entry
            /\ dirs' = {d \in dirs : d = Target(f) => ~EmptyDir(d)}
         \/ dirs' = dirs /\ entry' = entry /\ dir' = dir /\ pc[f] # "idle" /\ (Past(f)' => Past(f) \/ pc'[f] = "refused")
<1>1. CASE Start(f)
  <2>1. dirs' = dirs /\ entry' = entry /\ dir'[f] = dir[Above[f]] /\ pc[f] = "idle" /\ pc'[f] = "enter"
    BY <1>1 DEF Start, At, Goto, tree, Types
  <2> QED BY <1>1, <2>1
<1>2. CASE Enter(f)
  <2>1. mode # "separate" /\ dirs' = dirs \cup {dir'[f]} /\ dir'[f] = FolderDir(f)
        /\ entry' = entry /\ ~Exists(dir'[f]) /\ pc[f] = "enter" /\ Past(f)'
    BY <1>2 DEF Enter, At, Goto, Past, Types
  <2> QED BY <1>2, <2>1
<1>3. CASE MakeSeparateDir(f)
  <2>1. mode = "separate" /\ dirs' = dirs \cup {dir'[f]} /\ dir'[f] = SeparateDir(f)
        /\ entry' = entry /\ ~Exists(dir'[f]) /\ pc[f] = "enter" /\ Past(f)'
    BY <1>3 DEF MakeSeparateDir, InUse, At, Goto, Past, Types
  <2> QED BY <1>3, <2>1
<1>4. CASE ClearDir(f)
  <2>1. mode = "separate" /\ dirs' = dirs /\ dir'[f] = SeparateDir(f) /\ dir'[f] \in dirs
        /\ DOMAIN entry' \subseteq DOMAIN entry /\ pc[f] = "enter" /\ Past(f)'
    BY <1>4 DEF ClearDir, Restrict, At, Goto, Past, Types
  <2> QED BY <1>4, <2>1
<1>5. CASE Open(f) \/ WriteSeparate(f)
  <2>1. dirs' = dirs /\ dir' = dir /\ Past(f) /\ Past(f)' /\ Target(f) \notin dirs
        /\ (OpenForWriting(f, Target(f), {}) \/ OpenForWriting(f, Target(f), {f}))
    BY <1>5 DEF Open, WriteSeparate, MayOpen, At, Goto, Past, Types
  <2>2. DOMAIN entry' = DOMAIN entry \cup {Target(f)}
    BY <2>1 DEF OpenForWriting
  <2>3. dirs' = dirs /\ dir' = dir /\ Past(f) /\ Past(f)' /\ Target(f) \notin dirs
    BY <1>5 DEF Open, WriteSeparate, MayOpen, At, Goto, Past, Types
  <2> QED BY <1>5, <2>2, <2>3
<1>6. CASE RemoveEmpty(f)
  <2>1. pc[f] = "remove" /\ dir' = dir /\ Past(f)' /\ DOMAIN entry' \subseteq DOMAIN entry
        /\ dirs' = {d \in dirs : d = Target(f) => ~EmptyDir(d)}
    BY <1>6 DEF RemoveEmpty, Leave, Restrict, At, Goto, Past, Types
  <2> QED BY <1>6, <2>1
<1>7. CASE \/ Refuse(f) \/ BumpDir(f) \/ BumpFile(f) \/ FreeFile(f) \/ RefuseFile(f)
           \/ Write(f) \/ WriteRefused(f) \/ DieToo(f) \/ Close(f) \/ KeepFile(f) \/ FindEmpty(f)
  <2>1. dirs' = dirs /\ entry' = entry /\ dir' = dir /\ pc[f] # "idle" /\ (Past(f)' => Past(f) \/ pc'[f] = "refused")
    <3>1. CASE Refuse(f) \/ FreeFile(f) \/ RefuseFile(f)
      BY <3>1 DEF Refuse, FreeFile, RefuseFile, At, Goto, Past, tree, Types
    <3>2. CASE BumpDir(f) \/ BumpFile(f)
      BY <3>2 DEF BumpDir, BumpFile, At, Past, tree, Types
    <3>3. CASE Write(f)
      BY <3>3 DEF Write, At, Past
    <3>4. CASE WriteRefused(f) \/ DieToo(f) \/ Close(f) \/ KeepFile(f) \/ FindEmpty(f)
      BY <3>4 DEF WriteRefused, DieToo, Close, KeepFile, FindEmpty, At, Past, tree
    <3> QED BY <1>7, <3>1, <3>2, <3>3, <3>4
  <2> QED BY <2>1
<1> QED BY <1>1, <1>2, <1>3, <1>4, <1>5, <1>6, <1>7 DEF Work

\* Files and directories share no names.
LEMMA StepTree ==
  ASSUME Types, Types', PlaceInv, NEW f \in Folders, Work(f)
  PROVE  Tree'
<1>1. <<>> \in dirs /\ dirs \subseteq Paths /\ dirs \cap DOMAIN entry = {} /\ IsFiniteSet(DOMAIN entry)
  BY DEF PlaceInv, Tree
<1>2. dir'[f] \in Paths
  BY DEF Types
<1>3. CASE dirs' = dirs \cup {dir'[f]} /\ entry' = entry /\ ~Exists(dir'[f])
  BY <1>1, <1>2, <1>3 DEF Tree, Exists
<1>4. CASE dirs' = dirs /\ DOMAIN entry' = DOMAIN entry \cup {Target(f)} /\ Target(f) \notin dirs
  <2>1. IsFiniteSet(DOMAIN entry')
    BY <1>1, <1>4, FS_AddElement
  <2> QED BY <1>1, <1>4, <2>1 DEF Tree
<1>5. CASE dirs' = {d \in dirs : d = Target(f) => ~EmptyDir(d)} /\ DOMAIN entry' \subseteq DOMAIN entry
  <2>1. Target(f) # <<>>
    BY TargetParts, PathParts
  <2>2. IsFiniteSet(DOMAIN entry')
    BY <1>1, <1>5, FS_Subset
  <2> QED BY <1>1, <1>5, <2>1, <2>2 DEF Tree
<1>6. CASE dirs' = dirs /\ DOMAIN entry' \subseteq DOMAIN entry
  <2>1. IsFiniteSet(DOMAIN entry')
    BY <1>1, <1>6, FS_Subset
  <2> QED BY <1>1, <1>6, <2>1 DEF Tree
<1> QED BY <1>3, <1>4, <1>5, <1>6, DirSteps

\* The order of the calls.
LEMMA StepCalled ==
  ASSUME Types, PlaceInv, NEW f \in Folders, Work(f)
  PROVE  Called'
<1>1. /\ \A g \in Folders \ {Root} : pc[g] # "idle" => Entered(Above[g]) /\ Entered(Root)
      /\ \A g \in Folders : /\ pc[g] = "idle" => dir[g] = <<>>
                            /\ pc[g] = "enter" => dir[g] = Base(g)
  BY DEF PlaceInv, Called
<1>2. /\ \A g \in Folders : Entered(g) => Entered(g)'
      /\ \A g \in Folders \ {f} : pc'[g] = pc[g] /\ dir'[g] = dir[g]
      /\ pc'[f] # "idle" /\ (Start(f) <=> pc[f] = "idle") /\ (Start(f) => pc'[f] = "enter")
      /\ \A g \in Folders : pc'[g] # "idle" /\ (g # f \/ ~Start(f)) => Base(g)' = Base(g)
  BY NamesStay, Moves, ClashStays
<1>3. Root \in Folders /\ Above[Root] = Root /\ \A g \in Folders : Above[g] \in Folders
  BY FoldersAssumption
<1>4. CASE Start(f)
  <2>1. pc[f] = "idle" /\ pc'[f] = "enter" /\ dir'[f] = dir[Above[f]] /\ MayEnter(f)
    BY <1>4 DEF Start, At, Goto, Types
  <2>2. f # Root => Entered(Above[f])
    BY <2>1 DEF MayEnter, Entered
  <2>3. f # Root => Entered(Root) /\ Above[f] # f
    BY <1>1, <1>3, <2>1, <2>2 DEF Entered
  <2>4. \A g \in Folders \ {Root} : pc'[g] # "idle" => Entered(Above[g])' /\ Entered(Root)'
    BY <1>1, <1>2, <1>3, <2>2, <2>3
  <2>5. dir'[f] = Base(f)'
    <3>1. CASE f = Root
      BY <1>1, <1>3, <2>1, <3>1 DEF Base
    <3>2. CASE f # Root
      BY <1>2, <1>3, <2>1, <2>3, <3>2 DEF Base
    <3> QED BY <3>1, <3>2
  <2>6. \A g \in Folders : /\ pc'[g] = "idle" => dir'[g] = <<>>
                           /\ pc'[g] = "enter" => dir'[g] = Base(g)'
    BY <1>1, <1>2, <2>1, <2>5
  <2> QED BY <2>4, <2>6 DEF Called
<1>5. CASE ~Start(f)
  <2>1. \A g \in Folders : pc'[g] # "idle" => pc[g] # "idle"
    BY <1>2, <1>5
  <2>2. \A g \in Folders \ {Root} : pc'[g] # "idle" => Entered(Above[g])' /\ Entered(Root)'
    BY <1>1, <1>2, <1>3, <2>1
  <2>3. pc'[f] = "enter" => pc[f] = "enter" /\ dir' = dir
    <3>1. pc'[f] = "enter" => pc[f] = "enter"
      BY <1>2, <1>5, ClashStays DEF Past
    <3>2. pc'[f] = "enter" => dir' = dir
      BY <1>2, <1>5, DirSteps DEF Past
    <3> QED BY <3>1, <3>2
  <2>4. \A g \in Folders : /\ pc'[g] = "idle" => dir'[g] = <<>>
                           /\ pc'[g] = "enter" => dir'[g] = Base(g)'
    BY <1>1, <1>2, <1>5, <2>3
  <2> QED BY <2>2, <2>4 DEF Called
<1> QED BY <1>4, <1>5

\* Where the directories are.
LEMMA StepPlaces ==
  ASSUME Types, Types', PlaceInv, NEW f \in Folders, Work(f)
  PROVE  Places'
<1>1. /\ mode' = mode /\ name' = name /\ (Nested' <=> Nested)
      /\ \A g \in Folders \ {f} : pc'[g] = pc[g] /\ dir'[g] = dir[g]
      /\ dir \in [Folders -> Paths] /\ dir' \in [Folders -> Paths] /\ Above[f] \in Folders
      /\ dir'[f] \in Paths /\ dir[f] \in Paths
  BY NamesStay, ClashStays, FoldersAssumption DEF Types
<1>2. ASSUME mode = "normal"
      PROVE  dirs' = {<<>>} /\ \A g \in Folders : dir'[g] = <<>>
  <2>1. dirs = {<<>>} /\ \A g \in Folders : dir[g] = <<>>
    BY <1>2 DEF PlaceInv, Places
  <2>2. FolderDir(f) = <<>>
    BY <1>2, <2>1 DEF FolderDir
  <2>3. Target(f) # <<>>
    BY TargetParts, PathParts
  <2>4. dirs' = {<<>>} /\ dir'[f] = <<>>
    BY <1>1, <1>2, <2>1, <2>2, <2>3, DirSteps
  <2> QED BY <1>1, <2>1, <2>4
<1>3. ASSUME mode = "kmail"
      PROVE  (\A d \in dirs' : Even(d)) /\ \A g \in Folders : Even(dir'[g])
  <2>1. (\A d \in dirs : Even(d)) /\ \A g \in Folders : Even(dir[g])
    BY <1>3 DEF PlaceInv, Places
  <2>2. Even(FolderDir(f))
    <3>1. FolderDir(f) = Path(Path(dir[f], Clean[name[f]], 0), "directory", 0)
      BY <1>3 DEF FolderDir
    <3>2. Clean[name[f]] \in Word /\ "directory" \in Word
      BY Words
    <3>3. Path(dir[f], Clean[name[f]], 0) \in Paths
      BY <1>1, <3>2, PathType
    <3>4. Len(FolderDir(f)) = Len(dir[f]) + 1 + 1
      BY <1>1, <3>1, <3>2, <3>3, PathParts
    <3>5. PICK k \in Nat : Len(dir[f]) = 2 * k
      BY <2>1 DEF Even
    <3>6. Len(FolderDir(f)) = 2 * (k + 1) /\ k + 1 \in Nat
      BY <3>4, <3>5
    <3> QED BY <3>6 DEF Even
  <2>3. (\A d \in dirs' : Even(d)) /\ Even(dir'[f])
    BY <1>1, <1>3, <2>1, <2>2, DirSteps
  <2> QED BY <1>1, <2>1, <2>3
<1>4. ASSUME Nested
      PROVE  /\ \A g \in Folders : Held(g)' => Own(g, dir[g])'
             /\ \A d \in dirs' \ {<<>>} : \E g \in Folders : pc'[g] # "idle" /\ Own(g, d)'
  <2>1. /\ \A g \in Folders : Held(g) => Own(g, dir[g])
        /\ \A d \in dirs \ {<<>>} : \E g \in Folders : pc[g] # "idle" /\ Own(g, d)
    BY <1>4 DEF PlaceInv, Places
  <2>2. \A g \in Folders : pc'[g] # "idle" /\ (g # f \/ ~Start(f)) => Base(g)' = Base(g)
    BY ClashStays
  <2>3. \A g \in Folders : pc'[g] # "idle" /\ (g # f \/ ~Start(f)) =>
          \A d : Own(g, d) => Own(g, d)'
    BY <1>1, <2>2 DEF Own, Path
  <2>4. ASSUME pc[f] = "enter", mode # "separate" => dir'[f] = FolderDir(f),
               mode = "separate" => dir'[f] = SeparateDir(f), NEW d, d = dir'[f]
        PROVE  Own(f, d)'
    <3>1. dir[f] = Base(f) /\ ~Start(f) /\ pc'[f] # "idle"
      BY <2>4, Moves DEF PlaceInv, Called
    <3>2. bump[f] \in Nat /\ d \in {Path(dir[f], Clean[name[f]], 0), Path(dir[f], Clean[name[f]], bump[f])}
      BY <1>4, <2>4 DEF Nested, FolderDir, SeparateDir, Types
    <3>3. Own(f, d)
      BY <3>1, <3>2 DEF Own
    <3> QED BY <2>3, <3>1, <3>3
  <2>5. (Enter(f) \/ MakeSeparateDir(f) \/ ClearDir(f)) /\ pc[f] = "enter" => \A d : d = dir'[f] => Own(f, d)'
    BY <2>4, DirSteps DEF Enter, MakeSeparateDir, ClearDir, Types
  <2>6. ASSUME NEW g \in Folders, Held(g)'
        PROVE  Own(g, dir[g])'
    <3>1. CASE g # f
      BY <1>1, <2>1, <2>3, <2>6, <3>1 DEF Held, Past
    <3>2. CASE g = f
      <4>1. CASE Past(f)
        <5>1. Held(f)
          BY <2>6, <3>2, <4>1 DEF Held, Past, Work, Start, Enter, Refuse, MakeSeparateDir, BumpDir, ClearDir,
               BumpFile, FreeFile, RefuseFile, Open, Write, WriteSeparate, WriteRefused, DieToo, Close, KeepFile,
               FindEmpty, RemoveEmpty, At
        <5>2. ~Start(f) /\ pc'[f] # "idle" /\ dir'[f] = dir[f]
          BY <4>1, Moves, ClashStays DEF Past
        <5>3. Own(f, dir[f])
          BY <2>1, <5>1
        <5> QED BY <2>3, <3>2, <5>2, <5>3
      <4>2. CASE ~Past(f)
        <5>1. Past(f)' /\ pc'[f] # "refused" /\ pc'[f] # "enter"
          BY <2>6, <3>2 DEF Held, Past
        <5>2. (Enter(f) \/ MakeSeparateDir(f) \/ ClearDir(f)) /\ pc[f] = "enter"
          BY <4>2, <5>1, DirSteps DEF Past
        <5>3. \A d : d = dir'[g] => Own(g, d)'
          BY <2>5, <3>2, <5>2
        <5> QED BY <5>3
      <4> QED BY <4>1, <4>2
    <3> QED BY <3>1, <3>2
  <2>7. ASSUME NEW d \in dirs', d # <<>>
        PROVE  \E g \in Folders : pc'[g] # "idle" /\ Own(g, d)'
    <3>1. CASE d \in dirs
      <4>1. PICK g \in Folders : pc[g] # "idle" /\ Own(g, d)
        BY <2>1, <2>7, <3>1
      <4>2. pc'[g] # "idle" /\ (g # f \/ ~Start(f))
        BY <4>1, Moves, ClashStays
      <4> QED BY <2>3, <4>1, <4>2
    <3>2. CASE d \notin dirs
      <4>1. d = dir'[f] /\ (Enter(f) \/ MakeSeparateDir(f)) /\ pc[f] = "enter"
        BY <2>7, <3>2, DirSteps
      <4>2. pc'[f] # "idle"
        BY Moves
      <4> QED BY <2>5, <4>1, <4>2
    <3> QED BY <3>1, <3>2
  <2> QED BY <2>6, <2>7
<1> QED BY <1>1, <1>2, <1>3, <1>4 DEF Places

\* A process dies and a directory goes only by a clash of names.
LEMMA StepHarm ==
  ASSUME Types, PlaceInv, Lone, NEW f \in Folders, Work(f)
  PROVE  HarmOnly'
<1>1. SUFFICES ASSUME ~Harm PROVE HarmOnly' \/ Harm
  BY ClashStays DEF HarmOnly
<1>2. (\A g \in Folders : dir[g] \in dirs) /\ \A g \in Folders : pc[g] \notin Ended
  BY <1>1 DEF PlaceInv, HarmOnly
<1>3. \A g \in Folders \ {f} : pc'[g] = pc[g] /\ dir'[g] = dir[g]
  BY NamesStay
<1>4. Held(f) => Target(f) \notin dirs
  BY <1>1, FileIsDir
<1>5. \A g \in Folders : dir'[g] \in dirs'
  <2>1. CASE dirs' = dirs \cup {dir'[f]}
    BY <1>2, <1>3, <2>1
  <2>2. CASE dirs' = dirs /\ dir'[f] \in dirs
    BY <1>2, <1>3, <2>2
  <2>3. CASE dirs' = dirs /\ dir'[f] = dir[Above[f]]
    BY <1>2, <1>3, <2>3, FoldersAssumption
  <2>4. CASE dirs' = dirs /\ dir' = dir
    BY <1>2, <2>4
  <2>5. CASE pc[f] = "remove" /\ dir' = dir /\ dirs' = {d \in dirs : d = Target(f) => ~EmptyDir(d)}
    <3>1. Target(f) \notin dirs
      BY <1>4, <2>5 DEF Held, Past
    <3> QED BY <1>2, <2>5, <3>1
  <2> QED BY <2>1, <2>2, <2>3, <2>4, <2>5, DirSteps
<1>6. pc'[f] \in Ended => Harm
  <2>1. SUFFICES ASSUME pc'[f] \in Ended PROVE Harm
    OBVIOUS
  <2>2. dir[f] \in dirs /\ dir'[f] \in dirs'
    BY <1>2, <1>5
  <2>3. CASE Refuse(f)
    BY <2>2, <2>3, DirIsFile DEF Refuse, At
  <2>4. CASE RefuseFile(f) \/ WriteRefused(f)
    <3>1. ~MayOpen(f) /\ Held(f)
      BY <2>4 DEF RefuseFile, WriteRefused, At, Held, Past
    <3> QED BY <1>4, <2>2, <3>1 DEF MayOpen
  <2>5. CASE DieToo(f)
    BY <1>2, <2>5 DEF DieToo, Inside
  <2>6. CASE KeepFile(f)
    BY <2>1, <2>2, <2>6 DEF KeepFile, Leave, Goto, Ended, Types
  <2>7. CASE RemoveEmpty(f)
    <3>1. dir[f] \in dirs' /\ pc' = [pc EXCEPT ![f] = IF dir[f] \in dirs' THEN "done" ELSE "dead"]
      BY <2>2, <2>7 DEF RemoveEmpty, Leave, Goto
    <3> QED BY <2>1, <3>1 DEF Types, Ended
  <2>8. CASE Start(f) \/ Enter(f) \/ MakeSeparateDir(f) \/ ClearDir(f) \/ FreeFile(f) \/ Open(f) \/ Close(f) \/ FindEmpty(f)
    BY <2>1, <2>8 DEF Start, Enter, MakeSeparateDir, ClearDir, FreeFile, Open, Close, FindEmpty, Goto, Types, Ended
  <2>9. CASE BumpDir(f) \/ BumpFile(f) \/ Write(f) \/ WriteSeparate(f)
    BY <1>2, <2>1, <2>9 DEF BumpDir, BumpFile, Write, WriteSeparate
  <2> QED BY <2>3, <2>4, <2>5, <2>6, <2>7, <2>8, <2>9 DEF Work
<1> QED BY <1>2, <1>3, <1>5, <1>6 DEF HarmOnly

\* In separate mode files are not probed, so no probe can be too old.
NoProbe == mode = "separate" => ~raced

\* This is kept.
LEMMA StepNoProbe ==
  ASSUME Types, NoProbe, NEW f \in Folders, Work(f)
  PROVE  NoProbe'
<1>1. mode' = mode
  BY NamesStay DEF settings
<1>2. Open(f) => mode # "separate"
  BY DEF Open, At, Types
<1>3. ~Open(f) => raced' = raced
  BY DEF Work, Start, Enter, Refuse, MakeSeparateDir, BumpDir, ClearDir, BumpFile, FreeFile,
         RefuseFile, Write, WriteSeparate, WriteRefused, DieToo, Close, KeepFile, FindEmpty, RemoveEmpty
<1> QED BY <1>1, <1>2, <1>3 DEF NoProbe

Guarded == Types /\ Separate /\ KeptInv /\ Lone /\ PlaceInv /\ NoProbe

\* All of it holds at the start.
LEMMA InitGuarded == Init => Guarded
<1> SUFFICES ASSUME Init PROVE Guarded
  OBVIOUS
<1>1. Types /\ Separate /\ KeptInv
  BY InitWhole DEF Whole
<1>2. Lone
  BY DEF Init, Lone, NamedByMaker, FileNamed, WrittenEntered, LoneKept, Opened
<1>3. NoProbe
  BY DEF Init, NoProbe
<1>4. <<>> \in Paths /\ Even(<<>>)
  <2>1. Len(<<>>) = 2 * 0
    OBVIOUS
  <2> QED BY <2>1 DEF Paths, Even
<1>5. Tree
  BY <1>4, FS_EmptySet DEF Init, Tree
<1>6. Called
  BY DEF Init, Called
<1>7. Places
  BY <1>4 DEF Init, Places, Held, Past
<1>8. HarmOnly
  BY DEF Init, HarmOnly, Ended
<1> QED BY <1>1, <1>2, <1>3, <1>5, <1>6, <1>7, <1>8 DEF Guarded, PlaceInv

\* And is kept by every step.
LEMMA StepGuarded == Guarded /\ [Next]_vars => Guarded'
<1>1. ASSUME Guarded, NEW f \in Folders, Work(f) PROVE Guarded'
  <2>1. Types'
    BY <1>1, StepTypes DEF Guarded
  <2>2. Separate' /\ KeptInv'
    BY <1>1, StepSeparate, StepKept DEF Guarded
  <2>3. Lone' /\ NoProbe'
    BY <1>1, <2>1, StepLone, StepNoProbe DEF Guarded
  <2>4. PlaceInv'
    BY <1>1, <2>1, StepTree, StepCalled, StepPlaces, StepHarm DEF Guarded, PlaceInv
  <2> QED BY <2>1, <2>2, <2>3, <2>4 DEF Guarded
<1>2. ASSUME Guarded, UNCHANGED vars PROVE Guarded'
  <2>1. Types'
    BY <1>2, StutterTypes DEF Guarded
  <2>2. UNCHANGED <<settings, mode, overwrite, name, pc, dir, bump, dirs, entry, file, data, written, raced>>
    BY <1>2 DEF vars, tree, settings
  <2>3. Separate'
    BY <1>2, <2>2 DEF Guarded, Separate, InDir
  <2>4. KeptInv'
    BY <1>2, <2>2 DEF Guarded, KeptInv, Kept, NamedByMaker, HasName, OwnItems, AfterOpening,
                      NoneLeft, Opened, Target, CleanName, FileName, Path, Exists
  <2>5. Lone'
    <3>1. \A g \in Folders : Target(g)' = Target(g) /\ (Opened(g)' <=> Opened(g)) /\ (Entered(g)' <=> Entered(g))
      BY <2>2, SameTarget DEF Opened, Entered
    <3>2. \A g \in Folders : Namesake(g)' <=> Namesake(g)
      BY <3>1 DEF Namesake
    <3>3. Types /\ NamedByMaker /\ FileNamed /\ WrittenEntered /\ LoneKept
      BY <1>2 DEF Guarded, Lone
    <3>4. NamedByMaker'
      <4>1. \A p \in DOMAIN entry : entry[p] \in Folders /\ Opened(entry[p]) /\ p = Target(entry[p])
        BY <3>3 DEF NamedByMaker, Types
      <4>2. \A p \in DOMAIN entry : \A g : g = entry'[p] => Opened(g)' /\ p = Target(g)'
        BY <2>2, <3>1, <4>1
      <4> QED BY <2>2, <4>2 DEF NamedByMaker
    <3>5. FileNamed'
      <4>1. \A g \in Folders : file[g] \in Folders
        BY <3>3 DEF Types
      <4>2. ASSUME mode # "separate"
            PROVE  \A g \in Folders : Opened(g) => \A h : h = file'[g] => Opened(h)' /\ Target(h)' = Target(g)'
        BY <2>2, <3>1, <3>3, <4>1, <4>2 DEF FileNamed
      <4> QED BY <2>2, <3>1, <4>2 DEF FileNamed
    <3>6. WrittenEntered'
      BY <2>2, <3>1, <3>3 DEF WrittenEntered, Types
    <3>7. LoneKept'
      BY <2>2, <3>1, <3>2, <3>3 DEF LoneKept, Exists
    <3> QED BY <3>4, <3>5, <3>6, <3>7 DEF Lone
  <2>6. PlaceInv'
    BY <1>2, <2>2 DEF Guarded, PlaceInv, Tree, Called, Places, HarmOnly, Harm, Clash, Nested, Own, Base, Held, Past,
                      Entered, Even, Path, CleanName, FileName
  <2>7. NoProbe'
    BY <1>2, <2>2 DEF Guarded, NoProbe
  <2> QED BY <2>1, <2>3, <2>4, <2>5, <2>6, <2>7 DEF Guarded
<1> QED BY <1>1, <1>2 DEF Next

\* It is strong enough.
LEMMA GuardedHarm ==
  ASSUME Guarded
  PROVE  OnlyNamesakesHarm
<1>1. Types /\ Separate /\ KeptInv /\ Lone /\ PlaceInv /\ NoProbe
  BY DEF Guarded
<1>2. TypeOK
  BY <1>1 DEF TypeOK, Types, Labels, Ended, PlaceInv, Tree, Range
<1>3. ASSUME NEW f \in written, \A g \in Folders \ {f} : Entered(g) => Target(g) # Target(f)
      PROVE  Intact(f)
  <2>1. f \in Folders /\ ~Namesake(f) /\ Entered(f)
    BY <1>1, <1>3 DEF Types, Namesake, Lone, WrittenEntered
  <2>2. Opened(f)
    BY <1>1, <2>1, OpenedEntered DEF Lone
  <2> QED BY <1>1, <2>1, <2>2 DEF Lone, LoneKept, Intact
<1>4. ASSUME mode = "separate", ~overwrite
      PROVE  /\ \A f, g \in Folders : f # g /\ Entered(f) /\ Entered(g) => dir[f] # dir[g]
             /\ ~raced /\ \A f \in written : Intact(f)
  <2>1. \A f \in Folders : Entered(f) => InDir(f)
    BY <1>1, <1>4 DEF Entered, InDir, Types, Labels
  <2>2. \A f, g \in Folders : f # g /\ Entered(f) /\ Entered(g) => dir[f] # dir[g]
    BY <1>1, <1>4, <2>1 DEF Separate
  <2>3. ~raced
    BY <1>1, <1>4 DEF NoProbe
  <2>4. \A f \in written : Intact(f)
    BY <1>1, <1>4, <2>3 DEF KeptInv, Kept, AfterOpening, HasName, OwnItems, Intact, Types
  <2> QED BY <2>2, <2>3, <2>4
<1>5. ASSUME \E f \in Folders : pc[f] \in Ended
      PROVE  /\ mode \in {"recurse", "separate"}
             /\ \E f, g \in Folders : f # g /\ dir[Above[f]] = dir[g] /\ Clean[name[f]] = CleanName(g)
  <2>1. Harm
    BY <1>1, <1>5 DEF PlaceInv, HarmOnly
  <2> QED BY <2>1 DEF Harm, Nested, Clash
<1> QED BY <1>2, <1>3, <1>4, <1>5 DEF OnlyNamesakesHarm

(* Whatever the options, with -w and with races, and for any tree of       *)
(* folders with any names: items are lost only to a folder whose output    *)
(* has the same name in the same directory, mkdir keeps the directories of *)
(* MODE_SEPARATE apart, and a process dies only if a folder has the name   *)
(* of an output file of the directory it is made in.                       *)
THEOREM HarmByNamesakesOnly == Spec => []OnlyNamesakesHarm
<1>1. Guarded => OnlyNamesakesHarm
  BY GuardedHarm
<1> QED BY <1>1, InitGuarded, StepGuarded, PTL DEF Spec


-----------------------------------------------------------------------------
(* The mails: who gets which headers.                                      *)
Hows == WriteModes \cup {"normal"}
Frames == [item: Nat, msg: Nat, mode: Hows, pc: {"headers", "bodies", "attachments"},
           attach: Seq(Attachments), num: Nat]
Extras == [item: Nat, msg: Nat, chunk: Nat, ends: BOOLEAN, stripped: BOOLEAN]
FieldNames == STRING \cup {"From", "Subject", "MIME-Version", "Content-Type"}
Heads == [item: Nat, msg: Nat, source: {"own", "extra", "none"}, from: Nat, alive: BOOLEAN,
          chunk: Nat, copied: SUBSET FieldNames, created: SUBSET FieldNames]

FrameFits(frame) ==
  /\ frame.msg \in DOMAIN mail /\ frame.item <= calls
  /\ \A j \in DOMAIN frame.attach :
       frame.attach[j].msg # 0 => /\ frame.attach[j].msg \in DOMAIN mail
                                  /\ frame.attach[j].msg > frame.msg

ExtraFits(x) ==
  x # NoExtra => /\ x.msg \in DOMAIN mail /\ x.item <= calls
                 /\ x.chunk \in 2 .. Len(mail[x.msg].header)

FramesFit ==
  \A s \in DOMAIN stack : /\ stack[s] \in Frames /\ FrameFits(stack[s])
                          /\ s < Len(stack) => stack[s].pc = "attachments"

MailTypes ==
  /\ mail \in Mails /\ saveRtf \in BOOLEAN
  /\ stack \in Seq(Frames) /\ calls \in Nat
  /\ FramesFit
  /\ extra \in Extras /\ ExtraFits(extra)
  /\ given \in Seq(Heads)

Announced(x) == \/ x.chunk = Len(mail[x.msg].header)
                \/ mail[x.msg].header[x.chunk - 1].rfc822

\* What the string all messages share may hold, and what they have borrowed.
ExtraRight ==
  extra # NoExtra /\ extra.item \in Live /\ (extra.ends \/ AtStep("headers")) => Announced(extra)
BorrowedBefore ==
  \A j \in DOMAIN given : given[j].source = "extra" =>
    extra # NoExtra /\ given[j].from = extra.msg /\ given[j].chunk <= extra.chunk
Borrowing == /\ given = <<>> => extra = NoExtra
             /\ ExtraRight /\ BorrowedBefore /\ BorrowedHeaders

-----------------------------------------------------------------------------
\* A set of numbers has a least one.
LEMMA LeastNumber == ASSUME NEW S, S \subseteq Nat, S # {} PROVE \E i \in S : \A j \in S : i <= j
<1>1. \E x \in S : \A y \in S : ~ (<<y, x>> \in OpToRel(<, Nat))
  BY NatLessThanWellFounded, WFMin
<1>2. PICK x \in S : \A y \in S : ~ (y < x)
  BY <1>1 DEF OpToRel
<1>3. \A y \in S : x <= y
  BY <1>2
<1> QED BY <1>3

\* What the assumption says of one message.
LEMMA MessageKnown ==
  ASSUME mail \in Mails, NEW i \in DOMAIN mail
  PROVE  /\ mail[i] \in MessageTypes
         /\ mail[i].header \in Seq(Chunks) /\ mail[i].attach \in Seq(Attachments)
         /\ mail[i].has \subseteq STRING
         /\ \A j \in DOMAIN mail[i].attach :
              /\ mail[i].attach[j].n > 0
              /\ mail[i].attach[j].msg # 0 => /\ mail[i].attach[j].msg \in DOMAIN mail
                                              /\ mail[i].attach[j].msg > i
              /\ \A k \in DOMAIN mail[i].attach : mail[i].attach[j].n = mail[i].attach[k].n => j = k
<1>1. mail[i] \in MessageTypes
  BY MailsAssumption
<1>2. mail[i].header \in Seq(Chunks) /\ mail[i].attach \in Seq(Attachments) /\ mail[i].has \subseteq STRING
  BY <1>1 DEF MessageTypes
<1>3. \A j \in DOMAIN mail[i].attach :
              /\ mail[i].attach[j].n > 0
              /\ mail[i].attach[j].msg # 0 => /\ mail[i].attach[j].msg \in DOMAIN mail
                                              /\ mail[i].attach[j].msg > i
              /\ \A k \in DOMAIN mail[i].attach : mail[i].attach[j].n = mail[i].attach[k].n => j = k
  BY MailsAssumption
<1> QED BY <1>1, <1>2, <1>3

\* The call that runs.
LEMMA TopKnown ==
  ASSUME stack \in Seq(Frames), stack # <<>>
  PROVE  Top \in Frames /\ Len(stack) \in DOMAIN stack /\ Len(stack) \in Nat /\ Len(stack) > 0
         /\ DOMAIN stack = 1 .. Len(stack) /\ Top = stack[Len(stack)]
<1>1. Len(stack) \in Nat /\ DOMAIN stack = 1 .. Len(stack) /\ Len(stack) > 0
  BY EmptySeq, LenProperties
<1>2. stack[Len(stack)] \in Frames
  BY <1>1, ElementOfSeq
<1> QED BY <1>1, <1>2 DEF Top

\* Only the frame of the running call is replaced.
LEMMA ReplaceKnown ==
  ASSUME stack \in Seq(Frames), stack # <<>>, NEW frame \in Frames
  PROVE  /\ Replace(frame) \in Seq(Frames) /\ Len(Replace(frame)) = Len(stack)
         /\ DOMAIN Replace(frame) = DOMAIN stack
         /\ \A s \in 1 .. Len(stack) - 1 : Replace(frame)[s] = stack[s]
         /\ Replace(frame)[Len(stack)] = frame
<1>1. Len(stack) \in Nat /\ Len(stack) \in DOMAIN stack /\ DOMAIN stack = 1 .. Len(stack)
  BY TopKnown
<1>2. /\ Replace(frame) \in Seq(Frames) /\ Len(Replace(frame)) = Len(stack)
      /\ \A s \in 1 .. Len(stack) : Replace(frame)[s] = IF s = Len(stack) THEN frame ELSE stack[s]
  BY <1>1, ExceptSeq DEF Replace
<1>3. DOMAIN Replace(frame) = 1 .. Len(stack)
  BY <1>2, LenProperties
<1>4. /\ \A s \in 1 .. Len(stack) - 1 : Replace(frame)[s] = stack[s]
      /\ Replace(frame)[Len(stack)] = frame
  <2> DEFINE n == Len(stack)
             r == Replace(frame)
  <2>1. n \in Nat /\ n \in 1 .. n /\ \A s \in 1 .. n : r[s] = IF s = n THEN frame ELSE stack[s]
    BY <1>1, <1>2
  <2> HIDE DEF n, r
  <2>2. (\A s \in 1 .. n - 1 : r[s] = stack[s]) /\ r[n] = frame
    BY <2>1
  <2> QED BY <2>2 DEF n, r
<1> QED BY <1>1, <1>2, <1>3, <1>4

\* The call below the running one.
LEMMA FrontKnown ==
  ASSUME stack \in Seq(Frames), stack # <<>>
  PROVE  /\ Front(stack) \in Seq(Frames) /\ Len(Front(stack)) = Len(stack) - 1
         /\ DOMAIN Front(stack) = 1 .. Len(stack) - 1
         /\ \A s \in 1 .. Len(stack) - 1 : Front(stack)[s] = stack[s]
<1> DEFINE n == Len(stack) - 1
<1>1. n \in Nat /\ DOMAIN stack = 1 .. Len(stack) /\ Len(stack) \in Nat
  BY TopKnown
<1>2. Front(stack) = SubSeq(stack, 1, n)
  BY DEF Front
<1>3. \A s \in 1 .. n : stack[s] \in Frames
  BY <1>1, ElementOfSeq
<1> HIDE DEF n
<1>4. /\ SubSeq(stack, 1, n) \in Seq(Frames)
      /\ Len(SubSeq(stack, 1, n)) = IF 1 <= n THEN n - 1 + 1 ELSE 0
      /\ \A s \in 1 .. n - 1 + 1 : SubSeq(stack, 1, n)[s] = stack[1 + s - 1]
  BY <1>1, <1>3, SubSeqProperties
<1>5. Len(SubSeq(stack, 1, n)) = n /\ \A s \in 1 .. n : SubSeq(stack, 1, n)[s] = stack[s]
  BY <1>1, <1>4
<1> QED BY <1>1, <1>2, <1>4, <1>5, LenProperties DEF n

\* The search for rfc822 headers stays in the same text and goes forward.
LEMMA FindKnown ==
  ASSUME MailTypes
  PROVE  /\ FindRfc822(extra) \in Extras /\ ExtraFits(FindRfc822(extra))
         /\ FindRfc822(extra).msg = extra.msg /\ FindRfc822(extra).item = extra.item
         /\ FindRfc822(extra).ends = extra.ends
         /\ extra.chunk <= FindRfc822(extra).chunk
         /\ extra = NoExtra <=> FindRfc822(extra) = NoExtra
         /\ extra # NoExtra /\ ~extra.ends => Announced(FindRfc822(extra))
         /\ extra.ends => FindRfc822(extra) = extra
<1> DEFINE x == extra
           header == mail[x.msg].header
           hits == {j \in x.chunk .. Len(header) - 1 : header[j].rfc822}
<1>0. extra \in Extras /\ ExtraFits(extra)
  BY DEF MailTypes
<1>1. CASE extra = NoExtra \/ extra.ends \/ extra.chunk = Len(header)
  <2>1. FindRfc822(extra) = extra
    BY <1>1 DEF FindRfc822
  <2>2. Len(header) = extra.chunk => Announced(extra)
    BY DEF Announced
  <2>3. extra.chunk <= extra.chunk
    BY <1>0 DEF Extras
  <2> QED BY <1>0, <1>1, <2>1, <2>2, <2>3
<1>2. CASE ~(extra = NoExtra \/ extra.ends \/ extra.chunk = Len(header))
  <2> DEFINE c == IF hits = {} THEN Len(header) ELSE 1 + CHOOSE j \in hits : \A i \in hits : j <= i
  <2>1. FindRfc822(extra) = [extra EXCEPT !.stripped = FALSE, !.chunk = c]
    BY <1>2 DEF FindRfc822
  <2>2. extra.msg \in DOMAIN mail /\ header \in Seq(Chunks)
    BY <1>0, <1>2, MessageKnown DEF ExtraFits, MailTypes
  <2>3. Len(header) \in Nat /\ extra.chunk \in 2 .. Len(header) /\ extra.chunk \in Nat
    BY <1>0, <1>2, <2>2, LenProperties DEF ExtraFits, Extras
  <2>4. c \in Nat /\ extra.chunk <= c /\ c <= Len(header) /\ (c = Len(header) \/ header[c - 1].rfc822)
    <3>1. CASE hits = {}
      BY <3>1, <2>3
    <3>2. CASE hits # {}
      <4>1. hits \subseteq Nat
        BY <2>3
      <4>2. \E j \in hits : \A i \in hits : j <= i
        BY <3>2, <4>1, LeastNumber
      <4>3. PICK j \in hits : j = CHOOSE k \in hits : \A i \in hits : k <= i
        BY <4>2
      <4>4. c = 1 + j
        BY <3>2, <4>3
      <4> HIDE DEF c
      <4>5. j \in extra.chunk .. Len(header) - 1 /\ header[j].rfc822
        BY <4>3
      <4>6. c - 1 = j
        BY <4>4, <4>5, <2>3
      <4> QED BY <4>4, <4>5, <4>6, <2>3
    <3> QED BY <3>1, <3>2
  <2> HIDE DEF c, header
  <2>5. /\ FindRfc822(extra) \in Extras
        /\ FindRfc822(extra).msg = extra.msg /\ FindRfc822(extra).item = extra.item
        /\ FindRfc822(extra).ends = extra.ends /\ FindRfc822(extra).chunk = c
    BY <2>1, <2>4, <1>0 DEF Extras
  <2>6. FindRfc822(extra) # NoExtra
    BY <2>5, <2>4, <2>3 DEF NoExtra
  <2>7. ExtraFits(FindRfc822(extra))
    BY <2>5, <2>4, <2>3, <1>0, <1>2 DEF ExtraFits, header
  <2>8. Announced(FindRfc822(extra))
    BY <2>5, <2>4 DEF Announced, header
  <2> QED BY <1>2, <2>4, <2>5, <2>6, <2>7, <2>8
<1> QED BY <1>1, <1>2

\* The next attachment and the frame without it.
LEMMA AdvancedKnown ==
  ASSUME MailTypes, AttachLeft
  PROVE  /\ stack # <<>> /\ Top \in Frames /\ Top.pc = "attachments"
         /\ Advanced \in Frames /\ Advanced.item = Top.item /\ Advanced.msg = Top.msg
         /\ Advanced.mode = Top.mode /\ Advanced.pc = Top.pc /\ Advanced.num = Top.num
         /\ Advanced.attach = Tail(Top.attach)
         /\ Next1 \in Attachments /\ Next1 = Top.attach[1] /\ Len(Top.attach) \in Nat \ {0}
         /\ Tail(Top.attach) \in Seq(Attachments) /\ Len(Tail(Top.attach)) = Len(Top.attach) - 1
         /\ \A j \in 1 .. Len(Top.attach) - 1 : Tail(Top.attach)[j] = Top.attach[j + 1]
         /\ DOMAIN Top.attach = 1 .. Len(Top.attach)
         /\ DOMAIN Tail(Top.attach) = 1 .. Len(Top.attach) - 1
<1>1. stack # <<>> /\ Top.pc = "attachments" /\ Top.attach # <<>> /\ stack \in Seq(Frames)
  BY DEF AttachLeft, AtStep, MailTypes
<1>2. Top \in Frames
  BY <1>1, TopKnown
<1>3. Top.attach \in Seq(Attachments)
  BY <1>2 DEF Frames
<1>4. /\ Head(Top.attach) \in Attachments /\ Tail(Top.attach) \in Seq(Attachments)
      /\ Len(Tail(Top.attach)) = Len(Top.attach) - 1
      /\ \A j \in 1 .. Len(Tail(Top.attach)) : Tail(Top.attach)[j] = Top.attach[j + 1]
  BY <1>1, <1>3, HeadTailProperties
<1>5. Len(Top.attach) \in Nat \ {0} /\ DOMAIN Top.attach = 1 .. Len(Top.attach)
      /\ DOMAIN Tail(Top.attach) = 1 .. Len(Tail(Top.attach))
  BY <1>1, <1>3, <1>4, EmptySeq, LenProperties
<1>6. Head(Top.attach) = Top.attach[1]
  BY <1>1, <1>3
<1>7. Advanced = [Top EXCEPT !.attach = Tail(Top.attach)]
  BY DEF Advanced
<1>8. /\ Advanced \in Frames /\ Advanced.item = Top.item /\ Advanced.msg = Top.msg
      /\ Advanced.mode = Top.mode /\ Advanced.pc = Top.pc /\ Advanced.num = Top.num
      /\ Advanced.attach = Tail(Top.attach)
  BY <1>2, <1>4, <1>7 DEF Frames
<1> QED BY <1>1, <1>2, <1>4, <1>5, <1>6, <1>8 DEF Next1

\* A call that goes on with a fitting frame.
LEMMA ReplacedFits ==
  ASSUME MailTypes, stack # <<>>, NEW frame \in Frames, FrameFits(frame),
         stack' = Replace(frame), mail' = mail, calls' = calls
  PROVE  /\ stack' \in Seq(Frames) /\ Len(stack') = Len(stack) /\ DOMAIN stack' = DOMAIN stack
         /\ FramesFit'
<1>1. stack \in Seq(Frames)
  BY DEF MailTypes
<1>2. Len(stack) \in Nat /\ DOMAIN stack = 1 .. Len(stack)
  BY <1>1, TopKnown
<1>3. /\ stack' \in Seq(Frames) /\ Len(stack') = Len(stack) /\ DOMAIN stack' = DOMAIN stack
      /\ \A s \in 1 .. Len(stack) - 1 : stack'[s] = stack[s]
      /\ stack'[Len(stack)] = frame
  BY <1>1, ReplaceKnown
<1>4. ASSUME NEW s \in DOMAIN stack' PROVE FrameFits(stack[s])'
  <2>1. FrameFits(stack'[s])
    <3>1. CASE s = Len(stack)
      BY <3>1, <1>3
    <3>2. CASE s \in 1 .. Len(stack) - 1
      BY <3>2, <1>2, <1>3 DEF MailTypes, FramesFit
    <3> QED BY <3>1, <3>2, <1>2, <1>3
  <2> QED BY <2>1 DEF FrameFits
<1>5. ASSUME NEW s \in DOMAIN stack', s < Len(stack') PROVE stack'[s].pc = "attachments"
  <2>1. s \in 1 .. Len(stack) - 1
    BY <1>2, <1>3, <1>5
  <2> QED BY <2>1, <1>2, <1>3 DEF MailTypes, FramesFit
<1>6. \A s \in DOMAIN stack' : stack'[s] \in Frames
  BY <1>3, ElementOfSeq, LenProperties
<1> QED BY <1>3, <1>4, <1>5, <1>6 DEF FramesFit

\* The same items are allocated then.
LEMMA ReplacedLive ==
  ASSUME MailTypes, stack # <<>>, NEW frame \in Frames, frame.item = Top.item,
         stack' = Replace(frame)
  PROVE  Live' = Live
<1>1. stack \in Seq(Frames)
  BY DEF MailTypes
<1>2. Len(stack) \in Nat /\ DOMAIN stack = 1 .. Len(stack) /\ Top = stack[Len(stack)]
  BY <1>1, TopKnown
<1>3. /\ DOMAIN stack' = DOMAIN stack
      /\ \A s \in 1 .. Len(stack) - 1 : stack'[s] = stack[s]
      /\ stack'[Len(stack)] = frame
  BY <1>1, ReplaceKnown
<1>4. \A s \in DOMAIN stack : stack'[s].item = stack[s].item
  <2> TAKE s \in DOMAIN stack
  <2>1. CASE s = Len(stack)
    BY <2>1, <1>2, <1>3
  <2>2. CASE s \in 1 .. Len(stack) - 1
    BY <2>2, <1>3
  <2> QED BY <2>1, <2>2, <1>2
<1> QED BY <1>3, <1>4 DEF Live

\* A call begins.
LEMMA FrameType ==
  \A item \in Nat, msg \in Nat, how \in Hows :
    /\ Frame(item, msg, how) \in Frames /\ Frame(item, msg, how).item = item
    /\ Frame(item, msg, how).msg = msg /\ Frame(item, msg, how).mode = how
    /\ Frame(item, msg, how).pc = "headers" /\ Frame(item, msg, how).attach = <<>>
    /\ Frame(item, msg, how).num = 0
<1> TAKE item \in Nat, msg \in Nat, how \in Hows
<1>1. <<>> \in Seq(Attachments)
  OBVIOUS
<1> QED BY <1>1 DEF Frame, Frames

\* The innermost call embeds a message.
LEMMA EmbedFits ==
  ASSUME MailTypes, EmbedMessage
  PROVE  /\ Frame(calls', Next1.msg, "normal") \in Frames
         /\ stack' \in Seq(Frames) /\ Len(stack') = Len(stack) + 1 /\ Len(stack) \in Nat \ {0}
         /\ DOMAIN stack = 1 .. Len(stack) /\ DOMAIN stack' = 1 .. Len(stack) + 1
         /\ \A s \in 1 .. Len(stack) - 1 : stack'[s] = stack[s]
         /\ stack'[Len(stack)] = Advanced
         /\ stack'[Len(stack) + 1] = Frame(calls', Next1.msg, "normal")
         /\ Next1.msg \in DOMAIN mail /\ Next1.msg > Top.msg
         /\ calls' \in Nat
<1>1. AttachLeft /\ stack \in Seq(Frames) /\ calls' = calls + 1 /\ calls \in Nat
      /\ stack' = Append(Replace(Advanced), Frame(calls', Next1.msg, "normal"))
      /\ Next1.msg # 0
  BY DEF MailTypes, EmbedMessage, IsMail
<1>2. stack # <<>> /\ Advanced \in Frames /\ Next1 \in Attachments /\ Next1 = Top.attach[1]
      /\ 1 \in DOMAIN Top.attach
  BY <1>1, AdvancedKnown
<1>3. Len(stack) \in Nat \ {0} /\ DOMAIN stack = 1 .. Len(stack) /\ Len(stack) \in DOMAIN stack
      /\ Top = stack[Len(stack)]
  BY <1>1, <1>2, TopKnown
<1>4. Frame(calls', Next1.msg, "normal") \in Frames
  <2>1. Next1.msg \in Nat /\ calls' \in Nat
    BY <1>1, <1>2 DEF Attachments
  <2>2. "normal" \in Hows
    BY DEF Hows
  <2> QED BY <2>1, <2>2, FrameType
<1>5. /\ Replace(Advanced) \in Seq(Frames) /\ Len(Replace(Advanced)) = Len(stack)
      /\ \A s \in 1 .. Len(stack) - 1 : Replace(Advanced)[s] = stack[s]
      /\ Replace(Advanced)[Len(stack)] = Advanced
  BY <1>1, <1>2, ReplaceKnown
<1>6. /\ stack' \in Seq(Frames) /\ Len(stack') = Len(stack) + 1
      /\ \A s \in 1 .. Len(stack) : stack'[s] = Replace(Advanced)[s]
      /\ stack'[Len(stack) + 1] = Frame(calls', Next1.msg, "normal")
  BY <1>1, <1>4, <1>5, AppendProperties
<1>7. FrameFits(Top)
  BY <1>3 DEF MailTypes, FramesFit
<1>8. Next1.msg \in DOMAIN mail /\ Next1.msg > Top.msg
  BY <1>1, <1>2, <1>7 DEF FrameFits
<1>9. DOMAIN stack' = 1 .. Len(stack) + 1
  BY <1>6, LenProperties
<1>10. /\ \A s \in 1 .. Len(stack) - 1 : stack'[s] = stack[s]
       /\ stack'[Len(stack)] = Advanced
  BY <1>3, <1>5, <1>6
<1>11. calls' \in Nat
  BY <1>1
<1> QED BY <1>3, <1>4, <1>6, <1>8, <1>9, <1>10, <1>11

\* The frame without its next attachment fits.
LEMMA AdvancedFits == ASSUME MailTypes, AttachLeft PROVE FrameFits(Advanced)
<1>1. stack # <<>> /\ stack \in Seq(Frames)
  BY AdvancedKnown DEF MailTypes
<1>2. FrameFits(Top)
  BY <1>1, TopKnown DEF MailTypes, FramesFit
<1> DEFINE n == Len(Top.attach)
           new == Advanced.attach
           old == Top.attach
<1>3. /\ n \in Nat /\ DOMAIN old = 1 .. n /\ DOMAIN new = 1 .. n - 1
      /\ \A j \in 1 .. n - 1 : new[j] = old[j + 1]
  BY AdvancedKnown
<1> HIDE DEF n, new, old
<1>4. \A j \in DOMAIN new : j + 1 \in DOMAIN old /\ new[j] = old[j + 1]
  BY <1>3
<1> QED BY <1>2, <1>4, AdvancedKnown DEF FrameFits, new, old

\* The frame once the headers are written.
LEMMA HeadedFits ==
  ASSUME MailTypes, stack # <<>>
  PROVE  /\ [Top EXCEPT !.pc = "bodies"] \in Frames /\ FrameFits([Top EXCEPT !.pc = "bodies"])
         /\ [Top EXCEPT !.pc = "bodies"].item = Top.item /\ [Top EXCEPT !.pc = "bodies"].msg = Top.msg
         /\ [Top EXCEPT !.pc = "bodies"].mode = Top.mode
         /\ [Top EXCEPT !.pc = "bodies"].attach = Top.attach
         /\ [Top EXCEPT !.pc = "bodies"].num = Top.num
         /\ [Top EXCEPT !.pc = "bodies"].pc = "bodies"
         /\ Top \in Frames /\ Top.msg \in DOMAIN mail /\ Top.item <= calls
         /\ Message.header \in Seq(Chunks) /\ Message.has \subseteq STRING
<1>1. Top \in Frames /\ FrameFits(Top)
  BY TopKnown DEF MailTypes, FramesFit
<1>2. Top.msg \in DOMAIN mail /\ Top.item <= calls
  BY <1>1 DEF FrameFits
<1>3. Message.header \in Seq(Chunks) /\ Message.has \subseteq STRING
  BY <1>2, MessageKnown DEF Message, MailTypes
<1>4. /\ [Top EXCEPT !.pc = "bodies"] \in Frames
      /\ [Top EXCEPT !.pc = "bodies"].item = Top.item /\ [Top EXCEPT !.pc = "bodies"].msg = Top.msg
      /\ [Top EXCEPT !.pc = "bodies"].mode = Top.mode
      /\ [Top EXCEPT !.pc = "bodies"].attach = Top.attach
      /\ [Top EXCEPT !.pc = "bodies"].num = Top.num
      /\ [Top EXCEPT !.pc = "bodies"].pc = "bodies"
  BY <1>1 DEF Frames
<1>5. FrameFits([Top EXCEPT !.pc = "bodies"])
  BY <1>1, <1>4 DEF FrameFits
<1> QED BY <1>1, <1>2, <1>3, <1>4, <1>5

\* What writing the headers does to the call and to what was given.
LEMMA UseKnown ==
  ASSUME MailTypes, stack # <<>>, NEW source \in {"own", "extra", "none"}, NEW chunk \in Nat,
         NEW fields \in SUBSET STRING, NEW x, UseHeaders(source, chunk, fields, x)
  PROVE  /\ stack' = Replace([Top EXCEPT !.pc = "bodies"])
         /\ mail' = mail /\ saveRtf' = saveRtf /\ calls' = calls /\ extra' = x
         /\ stack' \in Seq(Frames) /\ Len(stack') = Len(stack) /\ DOMAIN stack' = DOMAIN stack
         /\ stack' # <<>> /\ Top'.pc = "bodies"
         /\ FramesFit'
         /\ Live' = Live
         /\ given' \in Seq(Heads) /\ Len(given') = Len(given) + 1 /\ Len(given) \in Nat
         /\ DOMAIN given = 1 .. Len(given) /\ DOMAIN given' = 1 .. Len(given) + 1
         /\ \A j \in 1 .. Len(given) : given'[j] = given[j]
         /\ given'[Len(given) + 1].source = source /\ given'[Len(given) + 1].msg = Top.msg
         /\ given'[Len(given) + 1].from = extra.msg /\ given'[Len(given) + 1].chunk = chunk
         /\ given'[Len(given) + 1].alive = (extra.item \in Live)
         /\ given'[Len(given) + 1].copied = fields \ StripFields
         /\ given'[Len(given) + 1].created = Created(fields, Message)
<1> DEFINE frame == [Top EXCEPT !.pc = "bodies"]
           h == Headed(source, chunk, fields \ StripFields, Created(fields, Message))
<1>1. frame \in Frames /\ FrameFits(frame) /\ frame.item = Top.item /\ frame.pc = "bodies"
  BY HeadedFits
<1>2. /\ stack' = Replace(frame) /\ mail' = mail /\ saveRtf' = saveRtf /\ calls' = calls /\ extra' = x
      /\ given' = Append(given, h)
  BY DEF UseHeaders
<1>3. h \in Heads
  <2>1. Created(fields, Message) \in SUBSET FieldNames /\ fields \ StripFields \in SUBSET FieldNames
    BY HeadedFits DEF Created, FieldNames
  <2>2. Top.item \in Nat /\ Top.msg \in Nat /\ extra.msg \in Nat
    BY HeadedFits DEF Frames, Extras, MailTypes
  <2> QED BY <2>1, <2>2 DEF Headed, Heads
<1>4. given \in Seq(Heads) /\ Len(given) \in Nat /\ DOMAIN given = 1 .. Len(given)
  BY LenProperties DEF MailTypes
<1>5. /\ given' \in Seq(Heads) /\ Len(given') = Len(given) + 1
      /\ \A j \in 1 .. Len(given) : given'[j] = given[j]
      /\ given'[Len(given) + 1] = h
  BY <1>2, <1>3, <1>4, AppendProperties
<1>6. DOMAIN given' = 1 .. Len(given) + 1
  BY <1>5, LenProperties
<1>7. /\ h.source = source /\ h.msg = Top.msg /\ h.from = extra.msg /\ h.chunk = chunk
      /\ h.alive = (extra.item \in Live)
      /\ h.copied = fields \ StripFields /\ h.created = Created(fields, Message)
  BY DEF Headed
<1> HIDE DEF frame, h
<1>8. /\ stack' \in Seq(Frames) /\ Len(stack') = Len(stack) /\ DOMAIN stack' = DOMAIN stack
      /\ FramesFit'
  BY <1>1, <1>2, ReplacedFits
<1>9. Live' = Live
  BY <1>1, <1>2, ReplacedLive
<1>10. stack' # <<>> /\ Top'.pc = "bodies"
  <2>1. stack'[Len(stack)] = frame /\ Len(stack) \in Nat /\ Len(stack) > 0
    BY <1>1, <1>2, ReplaceKnown, TopKnown DEF MailTypes
  <2>2. stack' # <<>>
    BY <2>1, <1>8, EmptySeq
  <2> QED BY <2>1, <2>2, <1>1, <1>8 DEF Top
<1> QED BY <1>2, <1>4, <1>5, <1>6, <1>7, <1>8, <1>9, <1>10 DEF frame

\* Own headers may leave the rest of their text to others.
LEMMA AfterOwnKnown ==
  ASSUME MailTypes, stack # <<>>
  PROVE  /\ AfterOwn(extra, Top.item, Top.msg) \in Extras
         /\ ExtraFits(AfterOwn(extra, Top.item, Top.msg))
         /\ extra # NoExtra => AfterOwn(extra, Top.item, Top.msg) = extra
         /\ extra = NoExtra => AfterOwn(extra, Top.item, Top.msg) = NoExtra
                               \/ ~AfterOwn(extra, Top.item, Top.msg).ends
<1>1. Top \in Frames /\ Top.msg \in DOMAIN mail /\ Top.item <= calls /\ Message.header \in Seq(Chunks)
  BY HeadedFits
<1>2. CASE extra = NoExtra /\ Len(mail[Top.msg].header) > 1
  <2> DEFINE x == [item |-> Top.item, msg |-> Top.msg, chunk |-> 2, ends |-> FALSE, stripped |-> FALSE]
  <2>1. AfterOwn(extra, Top.item, Top.msg) = x
    BY <1>2 DEF AfterOwn
  <2>2. x \in Extras /\ x.msg = Top.msg /\ x.item = Top.item /\ x.chunk = 2 /\ ~x.ends
    BY <1>1 DEF Extras, Frames
  <2>3. Len(mail[Top.msg].header) \in Nat
    BY <1>1, LenProperties DEF Message
  <2> HIDE DEF x
  <2>4. ExtraFits(x)
    BY <1>1, <1>2, <2>2, <2>3 DEF ExtraFits
  <2> QED BY <1>2, <2>1, <2>2, <2>4
<1>3. CASE ~(extra = NoExtra /\ Len(mail[Top.msg].header) > 1)
  <2>1. AfterOwn(extra, Top.item, Top.msg) = extra
    BY <1>3 DEF AfterOwn
  <2> QED BY <2>1 DEF MailTypes
<1> QED BY <1>2, <1>3

\* Borrowed headers are cut where they are.
LEMMA AfterBorrowedKnown ==
  ASSUME MailTypes, extra # NoExtra
  PROVE  /\ AfterBorrowed(extra) \in Extras /\ ExtraFits(AfterBorrowed(extra))
         /\ AfterBorrowed(extra) # NoExtra
         /\ AfterBorrowed(extra).msg = extra.msg /\ AfterBorrowed(extra).item = extra.item
         /\ AfterBorrowed(extra).chunk = extra.chunk
         /\ Announced(AfterBorrowed(extra)) = Announced(extra)
<1>1. extra \in Extras /\ ExtraFits(extra)
  BY DEF MailTypes
<1>2. /\ AfterBorrowed(extra) \in Extras
      /\ AfterBorrowed(extra).msg = extra.msg /\ AfterBorrowed(extra).item = extra.item
      /\ AfterBorrowed(extra).chunk = extra.chunk
  BY <1>1 DEF AfterBorrowed, Extras
<1>3. extra.chunk \in 2 .. Len(mail[extra.msg].header)
  BY <1>1 DEF ExtraFits
<1>4. AfterBorrowed(extra) # NoExtra
  BY <1>2, <1>3 DEF NoExtra
<1>5. ExtraFits(AfterBorrowed(extra))
  BY <1>1, <1>2 DEF ExtraFits
<1>6. Announced(AfterBorrowed(extra)) = Announced(extra)
  BY <1>2 DEF Announced
<1> QED BY <1>2, <1>4, <1>5, <1>6

\* The fields of headers that are used.
LEMMA FieldsKnown ==
  ASSUME MailTypes, stack # <<>>
  PROVE  /\ ValidOwn(Message.header) => Message.header[1].fields \in SUBSET STRING
         /\ ValidExtra => ExtraChunk.fields \in SUBSET STRING /\ extra.chunk \in Nat
<1>1. ASSUME ValidOwn(Message.header) PROVE Message.header[1].fields \in SUBSET STRING
  <2>1. Message.header \in Seq(Chunks) /\ Message.header # <<>>
    BY <1>1, HeadedFits DEF ValidOwn
  <2>2. Message.header[1] \in Chunks
    BY <2>1, EmptySeq, LenProperties, ElementOfSeq
  <2> QED BY <2>2 DEF Chunks
<1>2. ASSUME ValidExtra PROVE ExtraChunk.fields \in SUBSET STRING /\ extra.chunk \in Nat
  <2>1. extra # NoExtra /\ ExtraFits(extra) /\ extra.chunk \in Nat
    BY <1>2 DEF ValidExtra, MailTypes, Extras
  <2>2. extra.msg \in DOMAIN mail /\ extra.chunk \in 2 .. Len(mail[extra.msg].header)
    BY <2>1 DEF ExtraFits
  <2>3. mail[extra.msg].header \in Seq(Chunks)
    BY <2>2, MessageKnown DEF MailTypes
  <2>4. ExtraChunk \in Chunks
    BY <2>1, <2>2, <2>3, ElementOfSeq, LenProperties DEF ExtraChunk
  <2> QED BY <2>1, <2>4 DEF Chunks
<1> QED BY <1>1, <1>2

\* The start of a call, whichever headers it uses.
LEMMA HeadersSteps ==
  ASSUME MailTypes, OwnHeaders \/ BorrowHeaders \/ NoHeaders
  PROVE  /\ AtStep("headers") /\ stack # <<>>
         /\ \E source \in {"own", "extra", "none"}, chunk \in Nat, fields \in SUBSET STRING, x \in Extras :
              /\ UseHeaders(source, chunk, fields, x) /\ ExtraFits(x)
              /\ source = "extra" => /\ ~ValidOwn(Message.header) /\ extra # NoExtra
                                     /\ chunk = extra.chunk
                                     /\ x = AfterBorrowed(extra)
              /\ source = "own" => x = AfterOwn(extra, Top.item, Top.msg)
              /\ source = "none" => x = extra
<1>0. AtStep("headers") /\ stack # <<>>
  BY DEF OwnHeaders, BorrowHeaders, NoHeaders, AtStep
<1>1. CASE OwnHeaders
  <2>1. /\ UseHeaders("own", 1, Message.header[1].fields, AfterOwn(extra, Top.item, Top.msg))
        /\ Message.header[1].fields \in SUBSET STRING
    BY <1>0, <1>1, FieldsKnown DEF OwnHeaders
  <2> QED BY <1>0, <2>1, AfterOwnKnown
<1>2. CASE BorrowHeaders
  <2> DEFINE fields == ExtraChunk.fields \ (IF extra.stripped THEN StripFields ELSE {})
  <2>1. UseHeaders("extra", extra.chunk, fields, AfterBorrowed(extra)) /\ ~ValidOwn(Message.header)
        /\ ValidExtra /\ extra # NoExtra
    BY <1>2 DEF BorrowHeaders, ValidExtra
  <2>2. fields \in SUBSET STRING /\ extra.chunk \in Nat
    BY <1>0, <2>1, FieldsKnown
  <2> HIDE DEF fields
  <2> QED BY <1>0, <2>1, <2>2, AfterBorrowedKnown
<1>3. CASE NoHeaders
  <2>1. UseHeaders("none", 0, {}, extra) /\ extra \in Extras /\ ExtraFits(extra)
    BY <1>3 DEF NoHeaders, MailTypes
  <2> QED BY <1>0, <2>1
<1> QED BY <1>1, <1>2, <1>3

-----------------------------------------------------------------------------
\* The attachments of a message, with the bodies that become attachments.
LEMMA BodyAttachType ==
  ASSUME NEW n \in Int
  PROVE  /\ BodyAttach(n, NoName) \in Attachments /\ BodyAttach(n, RtfName) \in Attachments
         /\ BodyAttach(n, NoName).n = n /\ BodyAttach(n, RtfName).n = n
         /\ BodyAttach(n, NoName).msg = 0 /\ BodyAttach(n, RtfName).msg = 0
         /\ BodyAttach(n, NoName).method = 0 /\ BodyAttach(n, RtfName).method = 0
         /\ NoName \in FileNames /\ RtfName \in FileNames
<1>1. <<>> \in Seq(Nat) /\ "" \in Stems /\ "rtf-body.rtf" \in Stems
  BY DEF Stems
<1>2. NoName \in FileNames /\ RtfName \in FileNames
  BY <1>1 DEF NoName, RtfName, FileNames
<1>3. /\ BodyAttach(n, NoName) \in Attachments /\ BodyAttach(n, RtfName) \in Attachments
      /\ BodyAttach(n, NoName).n = n /\ BodyAttach(n, RtfName).n = n
      /\ BodyAttach(n, NoName).msg = 0 /\ BodyAttach(n, RtfName).msg = 0
      /\ BodyAttach(n, NoName).method = 0 /\ BodyAttach(n, RtfName).method = 0
  BY <1>2 DEF BodyAttach, Attachments
<1> QED BY <1>2, <1>3

\* A list that has one element or is not there.
LEMMA OneOrNone ==
  ASSUME NEW S
  PROVE  \A t : \A e \in S : t = <<e>> \/ t = <<>> =>
           t \in Seq(S) /\ Len(t) \in {0, 1} /\ \A j \in 1 .. Len(t) : j = 1 /\ t[j] = e
<1> TAKE t
<1> TAKE e \in S
<1>1. CASE t = <<>>
  BY <1>1
<1>2. CASE t = <<e>>
  <2>1. t \in Seq(S) /\ Len(t) = 1 /\ t[1] = e
    BY <1>2
  <2> QED BY <2>1
<1> QED BY <1>1, <1>2

\* An element of two lists is in one of them.
LEMMA InConcat ==
  ASSUME NEW S, NEW s \in Seq(S), NEW t \in Seq(S)
  PROVE  /\ s \o t \in Seq(S) /\ Len(s \o t) = Len(s) + Len(t)
         /\ Len(s) \in Nat /\ Len(t) \in Nat
         /\ \A i \in DOMAIN s : s[i] \in S
         /\ \A i \in DOMAIN t : t[i] \in S
         /\ DOMAIN s = 1 .. Len(s) /\ DOMAIN t = 1 .. Len(t) /\ DOMAIN (s \o t) = 1 .. Len(s) + Len(t)
         /\ \A i \in 1 .. Len(s) : (s \o t)[i] = s[i]
         /\ \A i \in 1 .. Len(t) : (s \o t)[Len(s) + i] = t[i]
         /\ \A i \in Len(s) + 1 .. Len(s) + Len(t) : i - Len(s) \in DOMAIN t /\ (s \o t)[i] = t[i - Len(s)]
<1> DEFINE a == Len(s)
           b == Len(t)
           u == s \o t
<1>1. /\ u \in Seq(S) /\ Len(u) = a + b /\ a \in Nat /\ b \in Nat
      /\ \A i \in 1 .. a : s[i] \in S
      /\ \A i \in 1 .. b : t[i] \in S
      /\ DOMAIN s = 1 .. a /\ DOMAIN t = 1 .. b /\ DOMAIN u = 1 .. a + b
  BY ConcatProperties, LenProperties, ElementOfSeq
<1>2. \A i \in 1 .. a + b : u[i] = IF i <= a THEN s[i] ELSE t[i - a]
  BY ConcatProperties
<1> HIDE DEF a, b, u
<1>3. \A i \in 1 .. a : u[i] = s[i]
  BY <1>1, <1>2
<1>4. \A i \in 1 .. b : u[a + i] = t[i]
  <2> TAKE i \in 1 .. b
  <2> DEFINE k == a + i
  <2>1. k \in 1 .. a + b /\ ~(k <= a) /\ k - a = i
    BY <1>1
  <2> HIDE DEF k
  <2>2. u[k] = t[k - a]
    BY <2>1, <1>2
  <2> QED BY <2>1, <2>2 DEF k
<1>5. \A i \in a + 1 .. a + b : i - a \in 1 .. b /\ u[i] = t[i - a]
  <2> TAKE i \in a + 1 .. a + b
  <2>1. i \in 1 .. a + b /\ ~(i <= a) /\ i - a \in 1 .. b
    BY <1>1
  <2> QED BY <2>1, <1>2
<1> QED BY <1>1, <1>3, <1>4, <1>5 DEF a, b, u

\* The attachments that bodies become: -3, -2 and -1, each at most once.
BodyNumber(a) == a.n \in {-3, -2, -1} /\ a.msg = 0 /\ a.method = 0

LEMMA BodyAttachmentsKnown ==
  ASSUME NEW m
  PROVE  /\ BodyAttachments(m) \in Seq(Attachments)
         /\ \A j \in DOMAIN BodyAttachments(m) : BodyNumber(BodyAttachments(m)[j])
         /\ \A j, k \in DOMAIN BodyAttachments(m) :
              BodyAttachments(m)[j].n = BodyAttachments(m)[k].n => j = k
<1> DEFINE html == BodyAttach(-3, NoName)
           encrypted == BodyAttach(-2, NoName)
           rtf == BodyAttach(-1, RtfName)
           p == Parts(m.encryptedHtml, <<html>>)
           q == Parts(m.encrypted, <<encrypted>>)
           r == Parts(m.rtf /\ saveRtf, <<rtf>>)
<1>1. /\ html \in Attachments /\ encrypted \in Attachments /\ rtf \in Attachments
      /\ html.n = -3 /\ encrypted.n = -2 /\ rtf.n = -1
      /\ BodyNumber(html) /\ BodyNumber(encrypted) /\ BodyNumber(rtf)
  BY BodyAttachType DEF BodyNumber
<1>2. BodyAttachments(m) = p \o q \o r
  BY DEF BodyAttachments
<1> HIDE DEF html, encrypted, rtf
<1>3. /\ p \in Seq(Attachments) /\ q \in Seq(Attachments) /\ r \in Seq(Attachments)
      /\ Len(p) \in {0, 1} /\ \A j \in 1 .. Len(p) : j = 1 /\ p[j] = html
      /\ Len(q) \in {0, 1} /\ \A j \in 1 .. Len(q) : j = 1 /\ q[j] = encrypted
      /\ Len(r) \in {0, 1} /\ \A j \in 1 .. Len(r) : j = 1 /\ r[j] = rtf
  <2>1. /\ p = <<html>> \/ p = <<>>
        /\ q = <<encrypted>> \/ q = <<>>
        /\ r = <<rtf>> \/ r = <<>>
    BY DEF Parts
  <2> HIDE DEF p, q, r
  <2> QED BY <1>1, <2>1, OneOrNone
<1> HIDE DEF p, q, r
<1>4. /\ Len(p) \in {0, 1} /\ Len(q) \in {0, 1} /\ Len(r) \in {0, 1}
      /\ \A j \in 1 .. Len(p) : j = 1 /\ p[j] = html
      /\ \A j \in 1 .. Len(q) : j = 1 /\ q[j] = encrypted
      /\ \A j \in 1 .. Len(r) : j = 1 /\ r[j] = rtf
  BY <1>3
<1> DEFINE pq == p \o q
           all == pq \o r
<1>5. /\ pq \in Seq(Attachments) /\ Len(pq) = Len(p) + Len(q)
      /\ \A j \in 1 .. Len(p) : pq[j] = p[j]
      /\ \A j \in Len(p) + 1 .. Len(p) + Len(q) : j - Len(p) \in 1 .. Len(q) /\ pq[j] = q[j - Len(p)]
  BY <1>3, InConcat
<1>6. \A j \in 1 .. Len(pq) : \/ j = 1 /\ j <= Len(p) /\ pq[j] = html
                              \/ j = Len(p) + 1 /\ pq[j] = encrypted
  BY <1>4, <1>5
<1> HIDE DEF pq
<1>7. /\ all \in Seq(Attachments) /\ Len(all) = Len(pq) + Len(r) /\ DOMAIN all = 1 .. Len(pq) + Len(r)
      /\ \A j \in 1 .. Len(pq) : all[j] = pq[j]
      /\ \A j \in Len(pq) + 1 .. Len(pq) + Len(r) : j - Len(pq) \in 1 .. Len(r) /\ all[j] = r[j - Len(pq)]
  BY <1>3, <1>5, InConcat
<1>8. Len(pq) \in Nat /\ Len(p) \in Nat
  BY <1>4, <1>5
<1> HIDE DEF all
<1>9. \A j \in DOMAIN all : \/ j = 1 /\ all[j] = html
                            \/ j = Len(p) + 1 /\ all[j] = encrypted
                            \/ j = Len(pq) + 1 /\ all[j] = rtf
  <2> TAKE j \in DOMAIN all
  <2>1. CASE j \in 1 .. Len(pq)
    BY <2>1, <1>6, <1>7
  <2>2. CASE j \in Len(pq) + 1 .. Len(pq) + Len(r)
    BY <2>2, <1>4, <1>7, <1>8
  <2> QED BY <2>1, <2>2, <1>4, <1>7, <1>8
<1>10. \A j \in DOMAIN all : BodyNumber(all[j])
  BY <1>1, <1>9
<1>11. \A j, k \in DOMAIN all : all[j].n = all[k].n => j = k
  BY <1>1, <1>9
<1> QED BY <1>2, <1>7, <1>10, <1>11 DEF all, pq

LEMMA AllAttachmentsKnown ==
  ASSUME mail \in Mails, NEW i \in DOMAIN mail
  PROVE  /\ AllAttachments(mail[i]) \in Seq(Attachments)
         /\ \A j \in DOMAIN AllAttachments(mail[i]) :
              LET a == AllAttachments(mail[i])[j]
              IN /\ a.n # 0
                 /\ a.msg # 0 => a.msg \in DOMAIN mail /\ a.msg > i
         /\ \A j, k \in DOMAIN AllAttachments(mail[i]) :
              AllAttachments(mail[i])[j].n = AllAttachments(mail[i])[k].n => j = k
<1> DEFINE b == BodyAttachments(mail[i])
           own == mail[i].attach
           all == b \o own
<1>1. /\ b \in Seq(Attachments)
      /\ \A j \in DOMAIN b : b[j].n < 0 /\ b[j].msg = 0
      /\ \A j, k \in DOMAIN b : b[j].n = b[k].n => j = k
  <2>1. /\ b \in Seq(Attachments) /\ \A j \in DOMAIN b : BodyNumber(b[j])
        /\ \A j, k \in DOMAIN b : b[j].n = b[k].n => j = k
    BY BodyAttachmentsKnown
  <2> QED BY <2>1 DEF BodyNumber
<1>2. /\ own \in Seq(Attachments)
      /\ \A j \in DOMAIN own : own[j].n > 0
      /\ \A j \in DOMAIN own : own[j].msg # 0 => own[j].msg \in DOMAIN mail /\ own[j].msg > i
      /\ \A j, k \in DOMAIN own : own[j].n = own[k].n => j = k
  BY MessageKnown
<1>3. AllAttachments(mail[i]) = all
  BY DEF AllAttachments
<1> HIDE DEF b, own
<1>4. /\ all \in Seq(Attachments) /\ DOMAIN all = 1 .. Len(b) + Len(own)
      /\ DOMAIN b = 1 .. Len(b) /\ DOMAIN own = 1 .. Len(own) /\ Len(b) \in Nat /\ Len(own) \in Nat
      /\ \A j \in DOMAIN b : b[j] \in Attachments
      /\ \A j \in DOMAIN own : own[j] \in Attachments
      /\ \A j \in 1 .. Len(b) : all[j] = b[j]
      /\ \A j \in Len(b) + 1 .. Len(b) + Len(own) :
           j - Len(b) \in DOMAIN own /\ all[j] = own[j - Len(b)]
  BY <1>1, <1>2, InConcat
<1>5. \A j \in DOMAIN all :
        \/ j \in DOMAIN b /\ all[j] = b[j]
        \/ /\ j - Len(b) \in DOMAIN own /\ all[j] = own[j - Len(b)] /\ j \in Nat
  BY <1>4
<1>6. /\ \A j \in DOMAIN b : b[j].n \in Int
      /\ \A j \in DOMAIN own : own[j].n \in Int
  BY <1>4 DEF Attachments
<1> HIDE DEF all
<1>7. \A j \in DOMAIN all : all[j].n # 0 /\ (all[j].msg # 0 => all[j].msg \in DOMAIN mail /\ all[j].msg > i)
  BY <1>1, <1>2, <1>5, <1>6
<1>8. ASSUME NEW j \in DOMAIN all, NEW k \in DOMAIN all, all[j].n = all[k].n PROVE j = k
  <2>1. CASE j \in DOMAIN b /\ all[j] = b[j] /\ k \in DOMAIN b /\ all[k] = b[k]
    BY <2>1, <1>1, <1>8
  <2>2. CASE /\ j - Len(b) \in DOMAIN own /\ all[j] = own[j - Len(b)] /\ j \in Nat
             /\ k - Len(b) \in DOMAIN own /\ all[k] = own[k - Len(b)] /\ k \in Nat
    <3>1. j - Len(b) = k - Len(b)
      BY <2>2, <1>2, <1>8
    <3> QED BY <3>1, <2>2, <1>4
  <2>3. CASE /\ j \in DOMAIN b /\ all[j] = b[j]
             /\ k - Len(b) \in DOMAIN own /\ all[k] = own[k - Len(b)]
    BY <2>3, <1>1, <1>2, <1>6, <1>8
  <2>4. CASE /\ k \in DOMAIN b /\ all[k] = b[k]
             /\ j - Len(b) \in DOMAIN own /\ all[j] = own[j - Len(b)]
    BY <2>4, <1>1, <1>2, <1>6, <1>8
  <2> QED BY <2>1, <2>2, <2>3, <2>4, <1>5
<1> QED BY <1>3, <1>4, <1>7, <1>8

\* The frame once the bodies are written.
BodiesFrame == [Top EXCEPT !.pc = "attachments", !.attach = BodyAttachments(Message) \o Message.attach]

LEMMA BodiesFits ==
  ASSUME MailTypes, WriteBodies
  PROVE  /\ stack # <<>> /\ stack' = Replace(BodiesFrame)
         /\ BodiesFrame \in Frames /\ FrameFits(BodiesFrame)
         /\ BodiesFrame.item = Top.item /\ BodiesFrame.msg = Top.msg /\ BodiesFrame.mode = Top.mode
         /\ BodiesFrame.num = Top.num /\ BodiesFrame.pc = "attachments"
         /\ BodiesFrame.attach = AllAttachments(mail[Top.msg])
         /\ Top \in Frames /\ Top.msg \in DOMAIN mail /\ Top.pc = "bodies"
<1>1. stack # <<>> /\ stack' = Replace(BodiesFrame) /\ Top.pc = "bodies"
  BY DEF WriteBodies, AtStep, BodiesFrame
<1>2. Top \in Frames /\ Top.msg \in DOMAIN mail /\ Top.item <= calls
  BY <1>1, HeadedFits
<1> DEFINE all == AllAttachments(mail[Top.msg])
<1>3. BodiesFrame = [Top EXCEPT !.pc = "attachments", !.attach = all]
  BY DEF BodiesFrame, AllAttachments, Message
<1>4. /\ all \in Seq(Attachments)
      /\ \A j \in DOMAIN all : all[j].msg # 0 => all[j].msg \in DOMAIN mail /\ all[j].msg > Top.msg
  BY <1>2, AllAttachmentsKnown DEF MailTypes
<1> HIDE DEF all
<1>5. /\ BodiesFrame \in Frames
      /\ BodiesFrame.item = Top.item /\ BodiesFrame.msg = Top.msg /\ BodiesFrame.mode = Top.mode
      /\ BodiesFrame.num = Top.num /\ BodiesFrame.pc = "attachments" /\ BodiesFrame.attach = all
  BY <1>2, <1>3, <1>4 DEF Frames
<1>6. FrameFits(BodiesFrame)
  BY <1>2, <1>4, <1>5 DEF FrameFits
<1> QED BY <1>1, <1>2, <1>5, <1>6 DEF all

\* The steps of the loop over the attachments that stay in the message.
Passes == EmbedNothing \/ WriteSeparateAttachment \/ WriteInline \/ SkipAttachment

LEMMA PassesFits ==
  ASSUME MailTypes, Passes
  PROVE  /\ AttachLeft /\ mail' = mail /\ saveRtf' = saveRtf /\ calls' = calls /\ given' = given
         /\ \E num \in Nat : /\ [Advanced EXCEPT !.num = num] \in Frames
                             /\ FrameFits([Advanced EXCEPT !.num = num])
                             /\ [Advanced EXCEPT !.num = num].item = Top.item
                             /\ stack' = Replace([Advanced EXCEPT !.num = num])
         /\ extra' \in FoundExtra \cup {extra}
<1>1. AttachLeft /\ mail' = mail /\ saveRtf' = saveRtf /\ calls' = calls /\ given' = given
      /\ extra' \in FoundExtra \cup {extra}
  BY DEF Passes, EmbedNothing, WriteSeparateAttachment, WriteInline, SkipAttachment
<1>2. stack # <<>> /\ Advanced \in Frames /\ FrameFits(Advanced) /\ Advanced.item = Top.item
      /\ Advanced.num = Top.num /\ Top \in Frames
  BY <1>1, AdvancedKnown, AdvancedFits
<1>3. \E num \in Nat : stack' = Replace([Advanced EXCEPT !.num = num])
  <2>1. CASE WriteSeparateAttachment
    <3>1. stack' = Replace([Advanced EXCEPT !.num = Top.num + 1])
      BY <2>1 DEF WriteSeparateAttachment
    <3>2. Top.num + 1 \in Nat
      BY <1>2 DEF Frames
    <3> QED BY <3>1, <3>2
  <2>2. CASE EmbedNothing \/ WriteInline \/ SkipAttachment
    <3>1. stack' = Replace(Advanced)
      BY <2>2 DEF EmbedNothing, WriteInline, SkipAttachment
    <3>2. Top.num \in Nat
      BY <1>2 DEF Frames
    <3>3. [Advanced EXCEPT !.num = Top.num] = Advanced
      BY <1>2 DEF Frames
    <3> QED BY <3>1, <3>2, <3>3
  <2> QED BY <2>1, <2>2 DEF Passes
<1>4. PICK num \in Nat : stack' = Replace([Advanced EXCEPT !.num = num])
  BY <1>3
<1>5. [Advanced EXCEPT !.num = num] \in Frames /\ [Advanced EXCEPT !.num = num].item = Top.item
      /\ [Advanced EXCEPT !.num = num].msg = Advanced.msg
      /\ [Advanced EXCEPT !.num = num].item = Advanced.item
      /\ [Advanced EXCEPT !.num = num].attach = Advanced.attach
  BY <1>2 DEF Frames
<1>6. FrameFits([Advanced EXCEPT !.num = num])
  BY <1>2, <1>5 DEF FrameFits
<1> QED BY <1>1, <1>4, <1>5, <1>6

\* What the search for rfc822 headers may leave.
LEMMA FoundKnown ==
  ASSUME MailTypes, NEW x \in FoundExtra \cup {extra}
  PROVE  /\ x \in Extras /\ ExtraFits(x) /\ x.msg = extra.msg /\ x.item = extra.item
         /\ x.ends = extra.ends /\ extra.chunk <= x.chunk
         /\ x = NoExtra <=> extra = NoExtra
<1>1. x = FindRfc822(extra) \/ x = extra
  BY DEF FoundExtra
<1>2. extra.chunk <= extra.chunk /\ extra \in Extras /\ ExtraFits(extra)
  BY DEF MailTypes, Extras
<1> QED BY <1>1, <1>2, FindKnown

\* The frames with the one of the embedded message.
LEMMA EmbedFramesFit ==
  ASSUME MailTypes, EmbedMessage
  PROVE  FramesFit'
<1>1. /\ mail' = mail /\ calls' = calls + 1 /\ calls \in Nat /\ AttachLeft
  BY DEF EmbedMessage, MailTypes
<1> DEFINE n == Len(stack)
           frame == Frame(calls', Next1.msg, "normal")
           old == stack
           new == stack'
<1>2. /\ new \in Seq(Frames) /\ frame \in Frames
      /\ n \in Nat \ {0} /\ DOMAIN old = 1 .. n /\ DOMAIN new = 1 .. n + 1
      /\ \A s \in 1 .. n - 1 : new[s] = old[s]
      /\ new[n] = Advanced /\ new[n + 1] = frame
      /\ Next1.msg \in DOMAIN mail /\ calls' \in Nat
  BY <1>1, EmbedFits
<1>3. frame.msg = Next1.msg /\ frame.item = calls' /\ frame.attach = <<>>
  BY DEF Frame
<1>4. \A s \in DOMAIN old : old[s] \in Frames /\ FrameFits(old[s]) /\ (s < n => old[s].pc = "attachments")
  BY DEF MailTypes, FramesFit
<1>5. FrameFits(Advanced) /\ Advanced \in Frames /\ Advanced.pc = "attachments"
  BY <1>1, AdvancedFits, AdvancedKnown
<1>6. Len(new) = n + 1
  BY <1>1, EmbedFits
<1> HIDE DEF n, frame, old, new
<1>7. \A s \in DOMAIN new : s \in 1 .. n - 1 \/ s = n \/ s = n + 1
  BY <1>2
<1>8. \A s \in DOMAIN new : \/ new[s] \in Frames /\ FrameFits(new[s]) /\ new[s].pc = "attachments"
                            \/ s = n + 1 /\ new[s] = frame
  <2> TAKE s \in DOMAIN new
  <2>1. CASE s \in 1 .. n - 1
    <3>1. s \in DOMAIN old /\ s < n /\ new[s] = old[s]
      BY <2>1, <1>2
    <3> QED BY <3>1, <1>4
  <2>2. CASE s = n
    BY <2>2, <1>2, <1>5
  <2>3. CASE s = n + 1
    BY <2>3, <1>2
  <2> QED BY <1>7, <2>1, <2>2, <2>3
<1>9. ASSUME NEW s \in DOMAIN new
      PROVE  new[s] \in Frames /\ FrameFits(stack[s])' /\ (s < n + 1 => new[s].pc = "attachments")
  <2>1. CASE new[s] \in Frames /\ FrameFits(new[s]) /\ new[s].pc = "attachments"
    <3>1. /\ new[s].msg \in DOMAIN mail' /\ new[s].item <= calls'
          /\ \A j \in DOMAIN new[s].attach :
               new[s].attach[j].msg # 0 => /\ new[s].attach[j].msg \in DOMAIN mail'
                                           /\ new[s].attach[j].msg > new[s].msg
      BY <2>1, <1>1 DEF FrameFits, Frames
    <3>2. FrameFits(stack[s])'
      BY <3>1 DEF FrameFits, new
    <3> QED BY <2>1, <3>2
  <2>2. CASE s = n + 1 /\ new[s] = frame
    <3>1. /\ new[s].msg \in DOMAIN mail' /\ new[s].item <= calls'
          /\ DOMAIN new[s].attach = {}
      BY <2>2, <1>1, <1>2, <1>3
    <3>2. FrameFits(stack[s])'
      BY <3>1 DEF FrameFits, new
    <3>3. ~ (s < n + 1)
      BY <2>2, <1>2
    <3> QED BY <2>2, <3>2, <3>3, <1>2
  <2> QED BY <1>8, <2>1, <2>2
<1> QED BY <1>6, <1>9 DEF FramesFit, new

LEMMA InitMailTypes == MailInit => MailTypes
<1> SUFFICES ASSUME MailInit PROVE MailTypes
  OBVIOUS
<1>1. PICK how \in WriteModes : stack = <<Frame(1, 1, how)>>
  BY DEF MailInit
<1>2. Frame(1, 1, how) \in Frames /\ Frame(1, 1, how).msg = 1 /\ Frame(1, 1, how).item = 1
      /\ Frame(1, 1, how).attach = <<>>
  BY FrameType DEF Hows
<1> DEFINE frame == Frame(1, 1, how)
<1> HIDE DEF frame
<1>3. stack = <<frame>> /\ frame \in Frames /\ frame.msg = 1 /\ frame.item = 1 /\ frame.attach = <<>>
  BY <1>1, <1>2 DEF frame
<1>4. stack \in Seq(Frames) /\ Len(stack) = 1 /\ DOMAIN stack = {1} /\ stack[1] = frame
  BY <1>3
<1>5. mail \in Mails /\ calls = 1 /\ saveRtf \in BOOLEAN /\ extra = NoExtra /\ given = <<>>
  BY DEF MailInit
<1>6. FrameFits(stack[1])
  BY <1>3, <1>4, <1>5, MailsAssumption DEF FrameFits
<1>7. extra \in Extras /\ ExtraFits(extra)
  BY <1>5 DEF ExtraFits, NoExtra, Extras
<1>8. given \in Seq(Heads)
  BY <1>5
<1>9. FramesFit
  BY <1>3, <1>4, <1>6 DEF FramesFit
<1> QED BY <1>4, <1>5, <1>7, <1>8, <1>9 DEF MailTypes

LEMMA StepMailTypes == MailTypes /\ [MailNext]_mailVars => MailTypes'
<1> SUFFICES ASSUME MailTypes, [MailNext]_mailVars PROVE MailTypes'
  OBVIOUS
<1>1. CASE OwnHeaders \/ BorrowHeaders \/ NoHeaders
  <2>1. PICK source \in {"own", "extra", "none"}, chunk \in Nat, fields \in SUBSET STRING, x \in Extras :
          UseHeaders(source, chunk, fields, x) /\ ExtraFits(x)
    BY <1>1, HeadersSteps
  <2>2. /\ mail' = mail /\ saveRtf' = saveRtf /\ calls' = calls /\ extra' = x
        /\ stack' \in Seq(Frames) /\ given' \in Seq(Heads)
        /\ FramesFit'
    BY <1>1, <2>1, HeadersSteps, UseKnown
  <2>3. ExtraFits(extra)'
    BY <2>1, <2>2 DEF ExtraFits
  <2> QED BY <2>2, <2>3 DEF MailTypes
<1>2. CASE WriteBodies
  <2>1. mail' = mail /\ saveRtf' = saveRtf /\ calls' = calls /\ extra' = extra /\ given' = given
    BY <1>2 DEF WriteBodies
  <2>2. stack # <<>> /\ stack' = Replace(BodiesFrame) /\ BodiesFrame \in Frames /\ FrameFits(BodiesFrame)
    BY <1>2, BodiesFits
  <2>3. /\ stack' \in Seq(Frames)
        /\ FramesFit'
    BY <2>1, <2>2, ReplacedFits
  <2>4. ExtraFits(extra)'
    BY <2>1 DEF MailTypes, ExtraFits
  <2> QED BY <2>1, <2>3, <2>4 DEF MailTypes
<1>3. CASE Passes
  <2>1. /\ mail' = mail /\ saveRtf' = saveRtf /\ calls' = calls /\ given' = given /\ AttachLeft
        /\ extra' \in Extras /\ ExtraFits(extra')
    BY <1>3, PassesFits, FoundKnown
  <2>2. PICK num \in Nat : /\ [Advanced EXCEPT !.num = num] \in Frames
                           /\ FrameFits([Advanced EXCEPT !.num = num])
                           /\ stack' = Replace([Advanced EXCEPT !.num = num])
    BY <1>3, PassesFits
  <2>3. /\ stack' \in Seq(Frames)
        /\ FramesFit'
    BY <2>1, <2>2, ReplacedFits, AdvancedKnown
  <2>4. ExtraFits(extra)'
    BY <2>1 DEF ExtraFits
  <2> QED BY <2>1, <2>3, <2>4 DEF MailTypes
<1>4. CASE EmbedMessage
  <2>1. /\ mail' = mail /\ saveRtf' = saveRtf /\ calls' = calls + 1 /\ given' = given
        /\ extra' \in FoundExtra \cup {extra} /\ AttachLeft /\ calls \in Nat
    BY <1>4 DEF EmbedMessage, MailTypes
  <2>2. extra' \in Extras /\ ExtraFits(extra')
    BY <2>1, FoundKnown
  <2>3. extra' \in Extras /\ ExtraFits(extra)'
    BY <2>1, <2>2 DEF ExtraFits, Extras
  <2>4. stack' \in Seq(Frames) /\ FramesFit' /\ calls' \in Nat
    BY <1>4, EmbedFramesFit, EmbedFits
  <2> QED BY <2>1, <2>3, <2>4 DEF MailTypes
<1>5. CASE Finish
  <2>1. /\ mail' = mail /\ saveRtf' = saveRtf /\ calls' = calls /\ given' = given /\ extra' = extra
        /\ stack' = Front(stack) /\ stack # <<>>
    BY <1>5 DEF Finish, AtStep
  <2>2. /\ stack' \in Seq(Frames) /\ Len(stack') = Len(stack) - 1 /\ DOMAIN stack' = 1 .. Len(stack) - 1
        /\ \A s \in 1 .. Len(stack) - 1 : stack'[s] = stack[s]
        /\ DOMAIN stack = 1 .. Len(stack) /\ Len(stack) \in Nat
    BY <2>1, FrontKnown, TopKnown DEF MailTypes
  <2>3. \A s \in DOMAIN stack' : s \in DOMAIN stack /\ s < Len(stack) /\ stack'[s] = stack[s]
    BY <2>2
  <2>4. \A s \in DOMAIN stack' : FrameFits(stack[s])'
    BY <2>1, <2>3 DEF MailTypes, FramesFit, FrameFits
  <2>5. \A s \in DOMAIN stack' : stack'[s].pc = "attachments" /\ stack'[s] \in Frames
    BY <2>3 DEF MailTypes, FramesFit
  <2>6. ExtraFits(extra)'
    BY <2>1 DEF MailTypes, ExtraFits
  <2>7. FramesFit'
    BY <2>4, <2>5 DEF FramesFit
  <2> QED BY <2>1, <2>2, <2>6, <2>7 DEF MailTypes
<1>6. CASE UNCHANGED mailVars
  <2>1. /\ mail' = mail /\ saveRtf' = saveRtf /\ calls' = calls /\ given' = given /\ extra' = extra
        /\ stack' = stack
    BY <1>6 DEF mailVars
  <2> QED BY <2>1 DEF MailTypes, FramesFit, FrameFits, ExtraFits
<1> QED BY <1>1, <1>2, <1>3, <1>4, <1>5, <1>6 DEF MailNext, Passes, Done

-----------------------------------------------------------------------------
\* A message that starts.
LEMMA HeadersBorrow ==
  ASSUME MailTypes, Borrowing, OwnHeaders \/ BorrowHeaders \/ NoHeaders
  PROVE  Borrowing'
<1>1. AtStep("headers") /\ stack # <<>>
  BY HeadersSteps
<1>2. PICK source \in {"own", "extra", "none"}, chunk \in Nat, fields \in SUBSET STRING, x \in Extras :
        /\ UseHeaders(source, chunk, fields, x) /\ ExtraFits(x)
        /\ source = "extra" => /\ ~ValidOwn(Message.header) /\ extra # NoExtra
                               /\ chunk = extra.chunk /\ x = AfterBorrowed(extra)
        /\ source = "own" => x = AfterOwn(extra, Top.item, Top.msg)
        /\ source = "none" => x = extra
  BY HeadersSteps
<1> DEFINE n == Len(given)
           old == given
           new == given'
<1>3. /\ mail' = mail /\ extra' = x /\ Live' = Live /\ Top'.pc = "bodies"
      /\ n \in Nat /\ DOMAIN old = 1 .. n /\ DOMAIN new = 1 .. n + 1
      /\ \A j \in 1 .. n : new[j] = old[j]
      /\ new[n + 1].source = source /\ new[n + 1].msg = Top.msg
      /\ new[n + 1].from = extra.msg /\ new[n + 1].chunk = chunk
      /\ new[n + 1].alive = (extra.item \in Live)
      /\ new \in Seq(Heads) /\ Len(new) = n + 1
  BY <1>1, <1>2, UseKnown
<1>4. /\ extra # NoExtra => /\ x # NoExtra /\ x.msg = extra.msg /\ x.chunk = extra.chunk
                            /\ x.item = extra.item
                            /\ Announced(x) = Announced(extra)
      /\ extra = NoExtra => x = NoExtra \/ ~x.ends
  <2>1. CASE source = "extra"
    BY <2>1, <1>2, AfterBorrowedKnown
  <2>2. CASE source = "own"
    BY <2>2, <1>1, <1>2, AfterOwnKnown
  <2>3. CASE source = "none"
    BY <2>3, <1>2
  <2> QED BY <2>1, <2>2, <2>3
<1>5. extra # NoExtra /\ extra.item \in Live => Announced(extra)
  BY <1>1 DEF Borrowing, ExtraRight
<1>6. extra.chunk \in Nat
  BY DEF MailTypes, Extras
<1>7. n = 0 => given = <<>>
  BY EmptySeq DEF MailTypes
<1>8. Message.header = mail[Top.msg].header
  BY DEF Message
<1> HIDE DEF n, old, new
<1>9. ExtraRight'
  <2>1. Announced(extra)' = Announced(x)
    BY <1>3 DEF Announced
  <2>2. ~AtStep("headers")'
    BY <1>3 DEF AtStep
  <2>3. x # NoExtra /\ x.item \in Live /\ x.ends => Announced(x)
    BY <1>4, <1>5
  <2> QED BY <2>1, <2>2, <2>3, <1>3 DEF ExtraRight
<1>10. \A j \in DOMAIN new : (j \in DOMAIN old /\ new[j] = old[j]) \/ j = n + 1
  BY <1>3
<1>11. BorrowedBefore'
  <2>1. ASSUME NEW j \in DOMAIN new, new[j].source = "extra"
        PROVE  x # NoExtra /\ new[j].from = x.msg /\ new[j].chunk <= x.chunk
    <3>1. CASE j \in DOMAIN old /\ new[j] = old[j]
      <4>1. extra # NoExtra /\ old[j].from = extra.msg /\ old[j].chunk <= extra.chunk
        BY <3>1, <2>1 DEF Borrowing, BorrowedBefore, old
      <4> QED BY <4>1, <3>1, <1>4
    <3>2. CASE j = n + 1
      BY <3>2, <2>1, <1>2, <1>3, <1>4, <1>6
    <3> QED BY <3>1, <3>2, <1>10, <2>1
  <2> QED BY <2>1, <1>3 DEF BorrowedBefore, new
<1>12. BorrowedHeaders'
  <2>1. ASSUME NEW j \in DOMAIN new, new[j].source = "extra", new[j].alive
        PROVE  /\ j > 1 /\ ~ValidOwn(mail[new[j].msg].header)
               /\ new[j].chunk = Len(mail[new[j].from].header) \/ mail[new[j].from].header[new[j].chunk - 1].rfc822
               /\ \A i \in 1 .. j - 1 : new[i].source = "extra" /\ new[i].from = new[j].from
                                          => new[i].chunk <= new[j].chunk
    <3>1. CASE j \in DOMAIN old /\ new[j] = old[j]
      <4>1. /\ j > 1 /\ ~ValidOwn(mail[old[j].msg].header)
            /\ old[j].chunk = Len(mail[old[j].from].header) \/ mail[old[j].from].header[old[j].chunk - 1].rfc822
            /\ \A i \in 1 .. j - 1 : old[i].source = "extra" /\ old[i].from = old[j].from
                                       => old[i].chunk <= old[j].chunk
        BY <3>1, <2>1 DEF Borrowing, BorrowedHeaders, old
      <4>2. \A i \in 1 .. j - 1 : new[i] = old[i]
        BY <3>1, <1>3
      <4> QED BY <4>1, <4>2, <3>1
    <3>2. CASE j = n + 1
      <4>1. source = "extra" /\ extra.item \in Live
        BY <3>2, <2>1, <1>3
      <4>2. extra # NoExtra /\ chunk = extra.chunk /\ ~ValidOwn(mail[Top.msg].header) /\ Announced(extra)
        BY <4>1, <1>2, <1>5, <1>8
      <4>3. j > 1
        BY <4>2, <3>2, <1>3, <1>7 DEF Borrowing
      <4>4. new[j].chunk = Len(mail[new[j].from].header) \/ mail[new[j].from].header[new[j].chunk - 1].rfc822
        BY <3>2, <4>2, <1>3 DEF Announced
      <4>5. ASSUME NEW i \in 1 .. j - 1, new[i].source = "extra" PROVE new[i].chunk <= new[j].chunk
        <5>1. i \in DOMAIN old /\ new[i] = old[i]
          BY <3>2, <1>3
        <5>2. old[i].chunk <= extra.chunk
          BY <5>1, <4>5 DEF Borrowing, BorrowedBefore, old
        <5> QED BY <5>1, <5>2, <3>2, <4>2, <1>3
      <4>6. ~ValidOwn(mail[new[j].msg].header)
        BY <3>2, <4>2, <1>3
      <4> QED BY <4>3, <4>4, <4>5, <4>6
    <3> QED BY <3>1, <3>2, <1>10, <2>1
  <2> QED BY <2>1, <1>3 DEF BorrowedHeaders, new
<1>13. given' # <<>>
  <2>1. new # <<>>
    BY <1>3, EmptySeq
  <2> QED BY <2>1 DEF new
<1> QED BY <1>9, <1>11, <1>12, <1>13 DEF Borrowing

\* What happens between the headers of two messages.
LEMMA BetweenBorrow ==
  ASSUME MailTypes, Borrowing, mail' = mail, given' = given,
         extra' \in FoundExtra \cup {extra},
         extra' # NoExtra /\ extra'.item \in Live' /\ (extra'.ends \/ AtStep("headers")') => Announced(extra')
  PROVE  Borrowing'
<1>1. extra'.msg = extra.msg /\ extra.chunk <= extra'.chunk /\ (extra' = NoExtra <=> extra = NoExtra)
  BY FoundKnown
<1>2. extra.chunk \in Nat /\ extra'.chunk \in Nat
  BY FoundKnown DEF MailTypes, Extras
<1>3. ExtraRight'
  BY DEF ExtraRight, Announced
<1>4. BorrowedBefore'
  <2>1. ASSUME NEW j \in DOMAIN given, given[j].source = "extra"
        PROVE  extra' # NoExtra /\ given[j].from = extra'.msg /\ given[j].chunk <= extra'.chunk
    <3>1. extra # NoExtra /\ given[j].from = extra.msg /\ given[j].chunk <= extra.chunk
      BY <2>1 DEF Borrowing, BorrowedBefore
    <3>2. given[j].chunk \in Nat
      <4>1. given[j] \in Heads
        BY ElementOfSeq, LenProperties DEF MailTypes
      <4> QED BY <4>1 DEF Heads
    <3> QED BY <3>1, <3>2, <1>1, <1>2
  <2> QED BY <2>1 DEF BorrowedBefore
<1>5. BorrowedHeaders'
  BY DEF Borrowing, BorrowedHeaders
<1>6. given' = <<>> => extra' = NoExtra
  BY <1>1 DEF Borrowing
<1> QED BY <1>3, <1>4, <1>5, <1>6 DEF Borrowing

\* The text of a string whose item is still there has been searched, or stays.
LEMMA FoundRight ==
  ASSUME MailTypes, Borrowing, NEW x \in FoundExtra, x # NoExtra, x.item \in Live
  PROVE  Announced(x)
<1>1. x.item = extra.item /\ extra # NoExtra
  BY FoundKnown
<1>2. x = FindRfc822(extra)
  BY <1>1 DEF FoundExtra
<1>3. CASE ~extra.ends
  BY <1>1, <1>2, <1>3, FindKnown
<1>4. CASE extra.ends
  <2>1. Announced(extra)
    BY <1>1, <1>4 DEF Borrowing, ExtraRight
  <2> QED BY <2>1, <1>2, <1>4, FindKnown
<1>5. extra.ends \in BOOLEAN
  BY DEF MailTypes, Extras
<1> QED BY <1>3, <1>4, <1>5

\* The items that are allocated after a step.
LEMMA LiveAfter ==
  ASSUME MailTypes, stack # <<>>
  PROVE  /\ EmbedMessage => Live' \subseteq Live \cup {calls + 1}
         /\ Finish => Live' \subseteq Live /\ ~AtStep("headers")'
         /\ WriteBodies \/ Passes => Live' = Live /\ ~AtStep("headers")'
<1>0. DOMAIN stack = 1 .. Len(stack) /\ Len(stack) \in Nat \ {0} /\ stack \in Seq(Frames)
  BY TopKnown DEF MailTypes
<1>1. ASSUME EmbedMessage PROVE Live' \subseteq Live \cup {calls + 1}
  <2> DEFINE n == Len(stack)
             frame == Frame(calls', Next1.msg, "normal")
  <2>1. AttachLeft /\ calls' = calls + 1
    BY <1>1 DEF EmbedMessage
  <2>2. /\ DOMAIN stack' = 1 .. n + 1
        /\ \A s \in 1 .. n - 1 : stack'[s] = stack[s]
        /\ stack'[n] = Advanced /\ stack'[n + 1] = frame
    BY <1>1, EmbedFits
  <2>3. Advanced.item = stack[n].item /\ frame.item = calls + 1
    BY <2>1, <1>0, AdvancedKnown, TopKnown DEF Frame
  <2> HIDE DEF n, frame
  <2>4. n \in Nat \ {0} /\ DOMAIN stack = 1 .. n
    BY <1>0 DEF n
  <2>5. \A s \in DOMAIN stack' : \/ s \in DOMAIN stack /\ stack'[s].item = stack[s].item
                                 \/ stack'[s].item = calls + 1
    <3> TAKE s \in DOMAIN stack'
    <3>1. CASE s \in 1 .. n - 1
      BY <3>1, <2>2, <2>4
    <3>2. CASE s = n
      BY <3>2, <2>2, <2>3, <2>4
    <3>3. CASE s = n + 1
      BY <3>3, <2>2, <2>3
    <3> QED BY <3>1, <3>2, <3>3, <2>2, <2>4
  <2> QED BY <2>5 DEF Live
<1>2. ASSUME Finish PROVE Live' \subseteq Live /\ ~AtStep("headers")'
  <2>1. stack' = Front(stack)
    BY <1>2 DEF Finish
  <2>2. /\ DOMAIN stack' = 1 .. Len(stack) - 1 /\ Len(stack') = Len(stack) - 1
        /\ \A s \in 1 .. Len(stack) - 1 : stack'[s] = stack[s]
    BY <1>0, <2>1, FrontKnown
  <2>3. Live' \subseteq Live
    BY <1>0, <2>2 DEF Live
  <2>4. ASSUME stack' # <<>> PROVE Top'.pc = "attachments"
    <3>1. stack' \in Seq(Frames)
      BY <1>0, <2>1, FrontKnown
    <3>2. Len(stack') \in 1 .. Len(stack) - 1
      BY <3>1, <2>2, <2>4, <1>0, EmptySeq, LenProperties
    <3>3. Len(stack') \in DOMAIN stack /\ Len(stack') < Len(stack) /\ stack'[Len(stack')] = stack[Len(stack')]
      BY <3>2, <2>2, <1>0
    <3> QED BY <3>3 DEF Top, MailTypes, FramesFit
  <2> QED BY <2>3, <2>4 DEF AtStep
<1>3. ASSUME WriteBodies \/ Passes PROVE Live' = Live /\ ~AtStep("headers")'
  <2>1. PICK frame \in Frames : /\ stack' = Replace(frame) /\ frame.item = Top.item
                                /\ frame.pc = "attachments"
    <3>1. CASE WriteBodies
      BY <3>1, BodiesFits
    <3>2. CASE Passes
      <4>1. PICK num \in Nat : /\ [Advanced EXCEPT !.num = num] \in Frames
                               /\ [Advanced EXCEPT !.num = num].item = Top.item
                               /\ stack' = Replace([Advanced EXCEPT !.num = num])
        BY <3>2, PassesFits
      <4>2. AttachLeft
        BY <3>2, PassesFits
      <4>3. Advanced \in Frames /\ Advanced.pc = "attachments"
        BY <4>2, AdvancedKnown
      <4>4. [Advanced EXCEPT !.num = num].pc = "attachments"
        BY <4>3 DEF Frames
      <4> QED BY <4>1, <4>4
    <3> QED BY <3>1, <3>2, <1>3
  <2>2. Live' = Live
    BY <2>1, ReplacedLive
  <2>3. stack'[Len(stack)] = frame /\ Len(stack') = Len(stack)
    BY <2>1, <1>0, ReplaceKnown
  <2> QED BY <2>1, <2>2, <2>3 DEF AtStep, Top
<1> QED BY <1>1, <1>2, <1>3

LEMMA StepBorrowing == MailTypes /\ Borrowing /\ [MailNext]_mailVars => Borrowing'
<1> SUFFICES ASSUME MailTypes, Borrowing, [MailNext]_mailVars PROVE Borrowing'
  OBVIOUS
<1>1. CASE OwnHeaders \/ BorrowHeaders \/ NoHeaders
  BY <1>1, HeadersBorrow
<1>2. CASE EmbedMessage
  <2>1. /\ mail' = mail /\ given' = given /\ extra' \in FoundExtra /\ stack # <<>>
    BY <1>2 DEF EmbedMessage, AttachLeft, AtStep
  <2>2. ASSUME extra' # NoExtra, extra'.item \in Live' PROVE Announced(extra')
    <3>1. extra'.item = extra.item /\ extra # NoExtra
      BY <2>1, <2>2, FoundKnown
    <3>2. extra.item <= calls /\ extra.item \in Nat /\ calls \in Nat
      BY <3>1 DEF MailTypes, ExtraFits, Extras
    <3>3. extra'.item \in Live
      BY <1>2, <2>1, <2>2, <3>1, <3>2, LiveAfter
    <3> QED BY <2>1, <2>2, <3>3, FoundRight
  <2> QED BY <2>1, <2>2, BetweenBorrow
<1>3. CASE Passes
  <2>1. /\ mail' = mail /\ given' = given /\ extra' \in FoundExtra \cup {extra} /\ stack # <<>>
    BY <1>3, PassesFits DEF AttachLeft, AtStep
  <2>2. Live' = Live /\ ~AtStep("headers")'
    BY <1>3, <2>1, LiveAfter
  <2>3. ASSUME extra' # NoExtra, extra'.item \in Live, extra'.ends PROVE Announced(extra')
    <3>1. CASE extra' \in FoundExtra
      BY <3>1, <2>3, FoundRight
    <3>2. CASE extra' = extra
      BY <3>2, <2>3 DEF Borrowing, ExtraRight
    <3> QED BY <3>1, <3>2, <2>1
  <2> QED BY <2>1, <2>2, <2>3, BetweenBorrow
<1>4. CASE WriteBodies \/ Finish
  <2>1. /\ mail' = mail /\ given' = given /\ extra' = extra /\ stack # <<>>
    BY <1>4 DEF WriteBodies, Finish, AtStep
  <2>2. Live' \subseteq Live /\ ~AtStep("headers")'
    BY <1>4, <2>1, LiveAfter
  <2>3. extra' # NoExtra /\ extra'.item \in Live' /\ extra'.ends => Announced(extra')
    BY <2>1, <2>2 DEF Borrowing, ExtraRight
  <2> QED BY <2>1, <2>2, <2>3, BetweenBorrow
<1>5. CASE UNCHANGED mailVars
  <2>1. /\ mail' = mail /\ given' = given /\ extra' = extra /\ stack' = stack
    BY <1>5 DEF mailVars
  <2>2. Live' = Live /\ AtStep("headers")' = AtStep("headers")
    BY <2>1 DEF Live, AtStep, Top
  <2>3. extra' # NoExtra /\ extra'.item \in Live' /\ (extra'.ends \/ AtStep("headers")') => Announced(extra')
    BY <2>1, <2>2 DEF Borrowing, ExtraRight
  <2> QED BY <2>1, <2>3, BetweenBorrow
<1> QED BY <1>1, <1>2, <1>3, <1>4, <1>5 DEF MailNext, Passes, Done

(* Borrowed headers follow a part that announced an embedded message, or   *)
(* are the last there are, and later messages never go back: for any mail, *)
(* any depth of embedding and any headers, as long as the item they come   *)
(* from is there (UseHeaders, FindRfc822).                                 *)
THEOREM HeadersNeverGoBack == MailSpec => []BorrowedHeaders
<1>1. MailInit => MailTypes /\ Borrowing
  <2> SUFFICES ASSUME MailInit PROVE Borrowing
    BY InitMailTypes
  <2>1. given = <<>> /\ extra = NoExtra /\ DOMAIN given = {}
    BY DEF MailInit
  <2> QED BY <2>1 DEF Borrowing, ExtraRight, BorrowedBefore, BorrowedHeaders
<1>2. MailTypes /\ Borrowing /\ [MailNext]_mailVars => (MailTypes /\ Borrowing)'
  BY StepMailTypes, StepBorrowing
<1>3. MailTypes /\ Borrowing => BorrowedHeaders
  BY DEF Borrowing
<1> QED BY <1>1, <1>2, <1>3, PTL DEF MailSpec

-----------------------------------------------------------------------------
(* What becomes of the attachments.                                        *)
Whats == {"mail", "report", "multipart", "alternative", "plain", "html", "calendar", "attachment"}
Boundaries == [msg: Nat, alt: BOOLEAN]
Tokens == [kind: {"open", "part", "close"}, boundary: Boundaries, what: Whats, item: Nat, n: Int]

\* The tokens that say that attachment n of an item is here.
Marking(t, item, n) == t.item = item /\ t.n = n /\ n # 0 /\ t.what \in {"attachment", "multipart"}
Marks(o, item, n) == {i \in DOMAIN o : Marking(o[i], item, n)}
Quiet(item) == {t \in Tokens : t.item = item /\ (t.n = 0 \/ t.what = "calendar")}

\* What is left to do of the attachments of a message.
Listed(frame) ==
  /\ \A j \in DOMAIN frame.attach : frame.attach[j] \in ToSet(AllAttachments(mail[frame.msg]))
  /\ \A j, k \in DOMAIN frame.attach : frame.attach[j].n = frame.attach[k].n => j = k

InFile(frame, a) == frame.mode = "separate" /\ a.method # Embedded

\* An attachment that is done is in the mail once, one that is not is not.
MailKept(frame, o) ==
  /\ frame.pc # "attachments" => \A n \in Int : Marks(o, frame.item, n) = {}
  /\ frame.pc = "attachments" =>
       /\ Listed(frame)
       /\ \A j \in DOMAIN frame.attach : Marks(o, frame.item, frame.attach[j].n) = {}
       /\ \A a \in ToSet(AllAttachments(mail[frame.msg])) :
            Wanted(a) /\ a \notin ToSet(frame.attach) /\ ~InFile(frame, a) =>
              \E i : Marks(o, frame.item, a.n) = {i}

OutKept ==
  /\ out \in Seq(Tokens)
  /\ \A i \in DOMAIN out : out[i].item <= calls
  /\ \A s, t \in DOMAIN stack : stack[s].item = stack[t].item => s = t
  /\ \A s \in DOMAIN stack : MailKept(stack[s], out)

-----------------------------------------------------------------------------
LEMMA TokenType ==
  ASSUME MailTypes, stack # <<>>
  PROVE  \A kind \in {"open", "part", "close"}, b \in Boundaries, what \in Whats, n \in Int :
           /\ Token(kind, b, what, n) \in Tokens
           /\ Token(kind, b, what, n).item = Top.item /\ Token(kind, b, what, n).n = n
           /\ Token(kind, b, what, n).what = what /\ Token(kind, b, what, n).kind = kind
           /\ Token(kind, b, what, n).boundary = b
<1> TAKE kind \in {"open", "part", "close"}, b \in Boundaries, what \in Whats, n \in Int
<1>1. Top.item \in Nat
  BY HeadedFits DEF Frames
<1> QED BY <1>1 DEF Token, Tokens

LEMMA BoundaryType ==
  ASSUME NEW msg \in Nat, NEW alt \in BOOLEAN
  PROVE  /\ Boundary(msg, alt) \in Boundaries
         /\ Boundary(msg, alt).msg = msg /\ Boundary(msg, alt).alt = alt
BY DEF Boundary, Boundaries

\* The tokens inside the boundary of the message.
LEMMA MainType ==
  ASSUME MailTypes, stack # <<>>
  PROVE  MainBoundary \in Boundaries /\ MainBoundary.msg = Top.msg /\ MainBoundary.alt = FALSE
BY HeadedFits, BoundaryType DEF Frames, MainBoundary

\* A list that is there or not.
LEMMA PartsIn ==
  ASSUME NEW S
  PROVE  \A t \in Seq(S) : \A present : Parts(present, t) \in Seq(S)
<1> TAKE t \in Seq(S)
<1> TAKE present
<1>1. Parts(present, t) = t \/ Parts(present, t) = <<>>
  BY DEF Parts
<1>2. <<>> \in Seq(S)
  OBVIOUS
<1> QED BY <1>1, <1>2

\* The bodies and the schedule are no attachments.
LEMMA BodiesQuiet ==
  ASSUME MailTypes, stack # <<>>
  PROVE  /\ BodyParts(Message) \in Seq(Quiet(Top.item))
         /\ ScheduleParts(Message) \in Seq(Quiet(Top.item))
<1> DEFINE m == Message
           main == MainBoundary
           both == m.body /\ m.html
           inner == Boundary(Top.msg, both)
           T == Quiet(Top.item)
           t1 == Token("part", main, "report", 0)
           t2 == Token("part", main, "multipart", 0)
           t3 == Token("open", inner, "alternative", 0)
           t4 == Token("part", inner, "plain", 0)
           t5 == Token("part", inner, "html", 0)
           t6 == Token("close", inner, "alternative", 0)
           t7 == Token("part", main, "calendar", 1)
           t8 == Token("part", main, "calendar", 2)
<1>1. main \in Boundaries /\ inner \in Boundaries
  <2>1. Top.msg \in Nat /\ Message \in MessageTypes
    BY HeadedFits, MessageKnown DEF Frames, Message, MailTypes
  <2>2. both \in BOOLEAN
    BY <2>1 DEF MessageTypes
  <2> HIDE DEF both
  <2> QED BY <2>1, <2>2, MainType, BoundaryType
<1>2. /\ t1 \in T /\ t2 \in T /\ t3 \in T /\ t4 \in T /\ t5 \in T /\ t6 \in T /\ t7 \in T /\ t8 \in T
  <2> HIDE DEF main, inner
  <2> QED BY <1>1, TokenType DEF Quiet, Whats
<1>3. /\ BodyParts(Message)
           = Parts(m.type = "REPORT" /\ m.report, <<t1>>) \o Parts(both, <<t2, t3>>) \o Parts(m.body, <<t4>>)
             \o Parts(m.html, <<t5>>) \o Parts(both, <<t6>>)
      /\ ScheduleParts(Message) = Parts(m.type = "SCHEDULE" /\ m.appointment, <<t7, t8>>)
  BY DEF BodyParts, ScheduleParts
<1> HIDE DEF m, both, t1, t2, t3, t4, t5, t6, t7, t8, T
<1> DEFINE p1 == Parts(m.type = "REPORT" /\ m.report, <<t1>>)
           p2 == Parts(both, <<t2, t3>>)
           p3 == Parts(m.body, <<t4>>)
           p4 == Parts(m.html, <<t5>>)
           p5 == Parts(both, <<t6>>)
           p6 == Parts(m.type = "SCHEDULE" /\ m.appointment, <<t7, t8>>)
<1>4. /\ <<t1>> \in Seq(T) /\ <<t2, t3>> \in Seq(T) /\ <<t4>> \in Seq(T)
      /\ <<t5>> \in Seq(T) /\ <<t6>> \in Seq(T) /\ <<t7, t8>> \in Seq(T)
  BY <1>2
<1> HIDE DEF p1, p2, p3, p4, p5, p6
<1>6. /\ p1 \in Seq(T) /\ p2 \in Seq(T) /\ p3 \in Seq(T) /\ p4 \in Seq(T) /\ p5 \in Seq(T) /\ p6 \in Seq(T)
  <2> DEFINE l1 == <<t1>>
             l2 == <<t2, t3>>
             l3 == <<t4>>
             l4 == <<t5>>
             l5 == <<t6>>
             l6 == <<t7, t8>>
             q1 == m.type = "REPORT" /\ m.report
             q6 == m.type = "SCHEDULE" /\ m.appointment
  <2>1. /\ p1 = Parts(q1, l1) /\ p2 = Parts(both, l2) /\ p3 = Parts(m.body, l3)
        /\ p4 = Parts(m.html, l4) /\ p5 = Parts(both, l5) /\ p6 = Parts(q6, l6)
    BY DEF p1, p2, p3, p4, p5, p6
  <2>2. /\ l1 \in Seq(T) /\ l2 \in Seq(T) /\ l3 \in Seq(T)
        /\ l4 \in Seq(T) /\ l5 \in Seq(T) /\ l6 \in Seq(T)
    BY <1>4
  <2> HIDE DEF l1, l2, l3, l4, l5, l6, q1, q6
  <2> QED BY <2>1, <2>2, PartsIn
<1>7. p1 \o p2 \o p3 \o p4 \o p5 \in Seq(T)
  <2>1. p1 \o p2 \in Seq(T)
    BY <1>6, ConcatProperties
  <2>2. p1 \o p2 \o p3 \in Seq(T)
    BY <1>6, <2>1, ConcatProperties
  <2>3. p1 \o p2 \o p3 \o p4 \in Seq(T)
    BY <1>6, <2>2, ConcatProperties
  <2> QED BY <1>6, <2>3, ConcatProperties
<1> QED BY <1>3, <1>6, <1>7 DEF p1, p2, p3, p4, p5, p6, T

\* Tokens that mark nothing of an item leave its marks alone.
LEMMA MarksStay ==
  ASSUME NEW o \in Seq(Tokens), NEW u \in Seq(Tokens), NEW item, NEW n,
         \A i \in DOMAIN u : ~Marking(u[i], item, n)
  PROVE  Marks(o \o u, item, n) = Marks(o, item, n)
<1> DEFINE a == Len(o)
           b == Len(u)
           w == o \o u
<1>1. /\ a \in Nat /\ b \in Nat /\ DOMAIN o = 1 .. a /\ DOMAIN u = 1 .. b /\ DOMAIN w = 1 .. a + b
      /\ \A i \in 1 .. a : w[i] = o[i]
      /\ \A i \in a + 1 .. a + b : i - a \in DOMAIN u /\ w[i] = u[i - a]
  BY InConcat
<1> HIDE DEF a, b, w
<1>2. \A i \in DOMAIN w : (i \in DOMAIN o /\ w[i] = o[i]) \/ ~Marking(w[i], item, n)
  <2> TAKE i \in DOMAIN w
  <2>1. CASE i \in 1 .. a
    BY <2>1, <1>1
  <2>2. CASE i \in a + 1 .. a + b
    BY <2>2, <1>1
  <2> QED BY <2>1, <2>2, <1>1
<1>3. \A i \in DOMAIN o : i \in DOMAIN w /\ w[i] = o[i]
  BY <1>1
<1> QED BY <1>2, <1>3 DEF Marks, w

\* A token that marks an attachment is one more mark.
LEMMA MarksGrow ==
  ASSUME NEW o \in Seq(Tokens), NEW t \in Tokens, NEW item, NEW n
  PROVE  /\ Marking(t, item, n) => Marks(Append(o, t), item, n) = Marks(o, item, n) \cup {Len(o) + 1}
         /\ ~Marking(t, item, n) => Marks(Append(o, t), item, n) = Marks(o, item, n)
<1> DEFINE a == Len(o)
           w == Append(o, t)
<1>1. /\ w \in Seq(Tokens) /\ Len(w) = a + 1 /\ a \in Nat /\ DOMAIN o = 1 .. a
      /\ \A i \in 1 .. a : w[i] = o[i]
      /\ w[a + 1] = t
  BY AppendProperties, LenProperties
<1>2. DOMAIN w = 1 .. a + 1
  BY <1>1, LenProperties
<1> HIDE DEF a, w
<1>3. /\ \A i \in DOMAIN w : (i \in DOMAIN o /\ w[i] = o[i]) \/ i = a + 1
      /\ \A i \in DOMAIN o : i \in DOMAIN w /\ w[i] = o[i]
      /\ a + 1 \in DOMAIN w
  BY <1>1, <1>2
<1>4. ASSUME Marking(t, item, n) PROVE Marks(w, item, n) = Marks(o, item, n) \cup {a + 1}
  BY <1>1, <1>3, <1>4 DEF Marks
<1>5. ASSUME ~Marking(t, item, n) PROVE Marks(w, item, n) = Marks(o, item, n)
  BY <1>1, <1>3, <1>5 DEF Marks
<1> QED BY <1>4, <1>5 DEF a, w

-----------------------------------------------------------------------------
LEMMA FrozenKept ==
  ASSUME mail' = mail, saveRtf' = saveRtf
  PROVE  \A frame, o : MailKept(frame, o)' <=> MailKept(frame, o)
<1> TAKE frame, o
<1>1. \A m : AllAttachments(m)' = AllAttachments(m)
  BY DEF AllAttachments, BodyAttachments
<1>2. \A a : Wanted(a)' <=> Wanted(a)
  BY DEF Wanted, IsMail
<1>3. Listed(frame)' <=> Listed(frame)
  BY <1>1 DEF Listed
<1> QED BY <1>1, <1>2, <1>3 DEF MailKept

\* Tokens of another item, or that mark nothing, change nothing for a frame.
LEMMA KeptStays ==
  ASSUME NEW frame, NEW o \in Seq(Tokens), NEW u \in Seq(Tokens), MailKept(frame, o),
         \A i \in DOMAIN u : u[i].item # frame.item \/ u[i].n = 0 \/ u[i].what = "calendar"
  PROVE  MailKept(frame, o \o u)
<1>1. \A n : \A i \in DOMAIN u : ~Marking(u[i], frame.item, n)
  BY DEF Marking
<1>2. \A n : Marks(o \o u, frame.item, n) = Marks(o, frame.item, n)
  BY <1>1, MarksStay
<1> QED BY <1>2 DEF MailKept

\* What is known of the running call.
LEMMA TopKept ==
  ASSUME MailTypes, OutKept, stack # <<>>
  PROVE  /\ MailKept(Top, out) /\ Top \in Frames /\ Top.item \in Nat /\ Top.item <= calls
         /\ \A s \in DOMAIN stack : s # Len(stack) => stack[s].item # Top.item
         /\ out \in Seq(Tokens)
<1>1. Top \in Frames /\ Len(stack) \in DOMAIN stack /\ Top = stack[Len(stack)]
  BY TopKnown DEF MailTypes
<1>2. Top.item \in Nat /\ Top.item <= calls
  BY <1>1, HeadedFits DEF Frames
<1> QED BY <1>1, <1>2 DEF OutKept

\* The running call adds tokens and goes on with a frame for which that is right.
LEMMA OutExtends ==
  ASSUME MailTypes, OutKept, stack # <<>>, NEW u \in Seq(Tokens), NEW frame \in Frames,
         \A i \in DOMAIN u : u[i].item = Top.item, frame.item = Top.item,
         MailKept(frame, out \o u), stack' = Replace(frame), out' = out \o u,
         mail' = mail, saveRtf' = saveRtf, calls' = calls
  PROVE  OutKept'
<1>1. /\ DOMAIN stack = 1 .. Len(stack) /\ Len(stack) \in Nat /\ stack \in Seq(Frames)
      /\ Top = stack[Len(stack)]
  BY TopKnown DEF MailTypes
<1>2. /\ DOMAIN stack' = DOMAIN stack
      /\ \A s \in 1 .. Len(stack) - 1 : stack'[s] = stack[s]
      /\ stack'[Len(stack)] = frame
  BY <1>1, ReplaceKnown
<1>3. \A s \in DOMAIN stack : s \in 1 .. Len(stack) - 1 \/ s = Len(stack)
  BY <1>1
<1>4. out \in Seq(Tokens) /\ Top.item <= calls
      /\ \A s \in DOMAIN stack : s # Len(stack) => stack[s].item # Top.item
  BY TopKept
<1>5. \A s \in DOMAIN stack : stack'[s].item = stack[s].item
  BY <1>1, <1>2, <1>3
<1>6. ASSUME NEW s \in DOMAIN stack' PROVE MailKept(stack'[s], out \o u)
  <2>1. CASE s = Len(stack)
    BY <2>1, <1>2
  <2>2. CASE s \in 1 .. Len(stack) - 1
    <3>1. s \in DOMAIN stack /\ s # Len(stack) /\ stack'[s] = stack[s]
      BY <2>2, <1>1, <1>2
    <3>2. MailKept(stack[s], out) /\ stack[s].item # Top.item
      BY <3>1, <1>4 DEF OutKept
    <3>3. MailKept(stack[s], out \o u)
      BY <3>2, <1>4, KeptStays
    <3> QED BY <3>1, <3>3
  <2> QED BY <2>1, <2>2, <1>2, <1>3
<1>7. ASSUME NEW s \in DOMAIN stack' PROVE MailKept(stack[s], out)'
  BY <1>6, FrozenKept
<1>8. out' \in Seq(Tokens) /\ \A i \in DOMAIN out' : out'[i].item <= calls'
  <2> DEFINE a == Len(out)
             b == Len(u)
  <2>1. /\ out' \in Seq(Tokens) /\ DOMAIN out' = 1 .. a + b /\ a \in Nat /\ b \in Nat
        /\ DOMAIN out = 1 .. a
        /\ \A i \in 1 .. a : out'[i] = out[i]
        /\ \A i \in a + 1 .. a + b : i - a \in DOMAIN u /\ out'[i] = u[i - a]
    BY <1>4, InConcat
  <2> HIDE DEF a, b
  <2>2. \A i \in DOMAIN out' : out'[i].item <= calls
    <3> TAKE i \in DOMAIN out'
    <3>1. CASE i \in 1 .. a
      BY <3>1, <2>1 DEF OutKept
    <3>2. CASE i \in a + 1 .. a + b
      BY <3>2, <2>1, <1>4
    <3> QED BY <3>1, <3>2, <2>1
  <2> QED BY <2>1, <2>2
<1>9. \A s, t \in DOMAIN stack' : stack'[s].item = stack'[t].item => s = t
  BY <1>2, <1>5 DEF OutKept
<1> QED BY <1>7, <1>8, <1>9 DEF OutKept

\* An attachment that is done.
LEMMA AdvanceKept ==
  ASSUME MailTypes, OutKept, AttachLeft, NEW frame \in Frames,
         frame.item = Top.item, frame.msg = Top.msg, frame.mode = Top.mode,
         frame.pc = "attachments", frame.attach = Tail(Top.attach),
         NEW t \in Tokens, NEW marked \in BOOLEAN,
         marked => Marking(t, Top.item, Next1.n),
         ~marked => ~Wanted(Next1) \/ InFile(Top, Next1)
  PROVE  MailKept(frame, IF marked THEN Append(out, t) ELSE out)
<1> DEFINE o == IF marked THEN Append(out, t) ELSE out
           all == AllAttachments(mail[Top.msg])
           n == Len(Top.attach)
           old == Top.attach
           new == Tail(Top.attach)
           item == Top.item
<1>1. /\ stack # <<>> /\ Top.pc = "attachments" /\ Next1 = old[1] /\ n \in Nat \ {0}
      /\ DOMAIN old = 1 .. n /\ DOMAIN new = 1 .. n - 1
      /\ \A j \in 1 .. n - 1 : new[j] = old[j + 1]
  BY AdvancedKnown
<1>2. MailKept(Top, out) /\ out \in Seq(Tokens) /\ Top.msg \in DOMAIN mail
  BY <1>1, TopKept, HeadedFits
<1>3. /\ \A j \in DOMAIN old : old[j] \in ToSet(all)
      /\ \A j, k \in DOMAIN old : old[j].n = old[k].n => j = k
      /\ \A j \in DOMAIN old : Marks(out, item, old[j].n) = {}
      /\ \A a \in ToSet(all) : Wanted(a) /\ a \notin ToSet(old) /\ ~InFile(Top, a) =>
                                 \E i : Marks(out, item, a.n) = {i}
  BY <1>1, <1>2 DEF MailKept, Listed
<1>4. \A a, b \in ToSet(all) : a.n = b.n => a = b
  BY <1>2, AllAttachmentsKnown DEF ToSet, MailTypes
<1>5. \A k : k # Next1.n => Marks(o, item, k) = Marks(out, item, k)
  <2>1. CASE marked
    <3>1. \A k : k # Next1.n => ~Marking(t, item, k)
      BY <2>1 DEF Marking
    <3> QED BY <2>1, <3>1, <1>2, MarksGrow
  <2> QED BY <2>1
<1>6. ASSUME marked PROVE \E i : Marks(o, item, Next1.n) = {i}
  <2>1. 1 \in DOMAIN old
    BY <1>1
  <2>2. Marks(out, item, Next1.n) = {}
    BY <2>1, <1>1, <1>3
  <2>3. o = Append(out, t) /\ Marking(t, item, Next1.n)
    BY <1>6
  <2> HIDE DEF o, item
  <2>4. Marks(o, item, Next1.n) = Marks(out, item, Next1.n) \cup {Len(out) + 1}
    BY <2>3, <1>2, MarksGrow
  <2>5. Marks(o, item, Next1.n) = {Len(out) + 1}
    BY <2>2, <2>4
  <2> QED BY <2>5
<1> HIDE DEF o, all, n, old, new, item
<1>7. \A j \in DOMAIN new : j + 1 \in DOMAIN old /\ 1 \in DOMAIN old /\ j + 1 # 1 /\ new[j] = old[j + 1]
  BY <1>1
<1>8. /\ \A j \in DOMAIN new : new[j] \in ToSet(all)
      /\ \A j, k \in DOMAIN new : new[j].n = new[k].n => j = k
  <2>1. \A j \in DOMAIN new : new[j] \in ToSet(all)
    BY <1>3, <1>7
  <2>2. ASSUME NEW j \in DOMAIN new, NEW k \in DOMAIN new, new[j].n = new[k].n PROVE j = k
    <3>1. j + 1 = k + 1
      BY <2>2, <1>3, <1>7
    <3> QED BY <3>1, <1>1
  <2> QED BY <2>1, <2>2
<1>9. \A j \in DOMAIN new : Marks(o, item, new[j].n) = {}
  <2> TAKE j \in DOMAIN new
  <2>1. new[j].n # Next1.n
    BY <1>1, <1>3, <1>7
  <2> QED BY <2>1, <1>3, <1>5, <1>7
<1>10. ASSUME NEW a \in ToSet(all), Wanted(a), a \notin ToSet(new), ~InFile(Top, a)
       PROVE  \E i : Marks(o, item, a.n) = {i}
  <2>1. CASE a \in ToSet(old)
    <3>1. PICK j \in DOMAIN old : a = old[j]
      BY <2>1 DEF ToSet
    <3>2. j = 1
      <4>1. ASSUME j # 1 PROVE FALSE
        <5> DEFINE k == j - 1
        <5>1. k \in DOMAIN new /\ k + 1 = j
          BY <4>1, <1>1
        <5>2. new[k] = a
          BY <5>1, <3>1, <1>7
        <5> QED BY <5>1, <5>2, <1>10 DEF ToSet
      <4> QED BY <4>1
    <3>3. a = Next1
      BY <3>1, <3>2, <1>1
    <3> QED BY <3>3, <1>6, <1>10
  <2>2. CASE a \notin ToSet(old)
    <3>1. \E i : Marks(out, item, a.n) = {i}
      BY <2>2, <1>3, <1>10
    <3>2. Next1 \in ToSet(old) /\ Next1 \in ToSet(all)
      BY <1>1, <1>3 DEF ToSet
    <3>3. a.n # Next1.n
      BY <3>2, <2>2, <1>4
    <3> QED BY <3>1, <3>3, <1>5
  <2> QED BY <2>1, <2>2
<1>11. \A a : InFile(frame, a) <=> InFile(Top, a)
  BY DEF InFile
<1>12. MailKept(frame, o)
  BY <1>8, <1>9, <1>10, <1>11 DEF MailKept, Listed, all, new, item
<1> QED BY <1>12 DEF o

-----------------------------------------------------------------------------
LEMMA InitOutKept == MailInit => OutKept
<1> SUFFICES ASSUME MailInit PROVE OutKept
  OBVIOUS
<1>1. PICK how \in WriteModes : stack = <<Frame(1, 1, how)>>
  BY DEF MailInit
<1> DEFINE frame == Frame(1, 1, how)
<1>2. frame \in Frames /\ frame.pc = "headers"
  BY FrameType DEF Hows
<1> HIDE DEF frame
<1>3. stack = <<frame>>
  BY <1>1 DEF frame
<1>4. DOMAIN stack = {1} /\ stack[1] = frame
  BY <1>3
<1>5. out = <<>> /\ DOMAIN out = {}
  BY DEF MailInit
<1>6. out \in Seq(Tokens)
  BY <1>5
<1>7. MailKept(frame, out)
  BY <1>2, <1>5 DEF MailKept, Marks
<1> QED BY <1>4, <1>5, <1>6, <1>7 DEF OutKept

\* One more token, or none.
LEMMA OneToken ==
  ASSUME out \in Seq(Tokens), NEW t \in Tokens
  PROVE  /\ <<t>> \in Seq(Tokens) /\ Append(out, t) = out \o <<t>>
         /\ DOMAIN <<t>> = {1} /\ <<t>>[1] = t
         /\ <<>> \in Seq(Tokens) /\ out = out \o <<>> /\ DOMAIN <<>> = {}
<1>1. <<t>> \in Seq(Tokens) /\ DOMAIN <<t>> = {1} /\ <<t>>[1] = t
      /\ <<>> \in Seq(Tokens) /\ DOMAIN <<>> = {}
  OBVIOUS
<1>2. Append(out, t) = out \o <<t>>
  BY AppendIsConcat
<1>3. out \o <<>> = out
  BY ConcatEmptySeq
<1> QED BY <1>1, <1>2, <1>3

\* The headers are written.
LEMMA HeadersOut ==
  ASSUME MailTypes, OutKept, OwnHeaders \/ BorrowHeaders \/ NoHeaders
  PROVE  OutKept'
<1>1. stack # <<>> /\ AtStep("headers")
  BY HeadersSteps
<1>2. PICK source \in {"own", "extra", "none"}, chunk \in Nat, fields \in SUBSET STRING, x \in Extras :
        UseHeaders(source, chunk, fields, x)
  BY HeadersSteps
<1> DEFINE t == Token("open", MainBoundary, "mail", 0)
           frame == [Top EXCEPT !.pc = "bodies"]
<1>3. /\ stack' = Replace(frame) /\ out' = Append(out, t)
      /\ mail' = mail /\ saveRtf' = saveRtf /\ calls' = calls
  BY <1>2 DEF UseHeaders
<1>4. frame \in Frames /\ frame.item = Top.item /\ frame.pc = "bodies" /\ Top.pc = "headers"
      /\ Top \in Frames
  BY <1>1, HeadedFits DEF AtStep
<1>5. t \in Tokens /\ t.item = Top.item /\ t.n = 0
  <2>1. "mail" \in Whats /\ "attachment" \in Whats /\ "multipart" \in Whats
    BY DEF Whats
  <2>2. MainBoundary \in Boundaries
    BY <1>1, MainType
  <2> QED BY <1>1, <2>1, <2>2, TokenType
<1>6. MailKept(Top, out) /\ out \in Seq(Tokens)
  BY <1>1, TopKept
<1> HIDE DEF t, frame
<1>7. /\ <<t>> \in Seq(Tokens) /\ out' = out \o <<t>>
      /\ \A i \in DOMAIN <<t>> : <<t>>[i].item = Top.item /\ <<t>>[i].n = 0
  BY <1>3, <1>5, <1>6, OneToken
<1>8. MailKept(Top, out \o <<t>>)
  BY <1>6, <1>7, KeptStays
<1>9. MailKept(frame, out \o <<t>>)
  BY <1>4, <1>8 DEF MailKept
<1> QED BY <1>1, <1>3, <1>4, <1>7, <1>9, OutExtends

\* The bodies are written, and the attachments listed.
LEMMA BodiesOut ==
  ASSUME MailTypes, OutKept, WriteBodies
  PROVE  OutKept'
<1> DEFINE u == BodyParts(Message) \o ScheduleParts(Message)
           all == AllAttachments(mail[Top.msg])
<1>1. /\ stack # <<>> /\ stack' = Replace(BodiesFrame) /\ BodiesFrame \in Frames
      /\ BodiesFrame.item = Top.item /\ BodiesFrame.msg = Top.msg /\ BodiesFrame.pc = "attachments"
      /\ BodiesFrame.attach = all /\ Top.msg \in DOMAIN mail /\ Top.pc = "bodies"
  BY BodiesFits
<1>2. /\ out' = out \o BodyParts(Message) \o ScheduleParts(Message)
      /\ mail' = mail /\ saveRtf' = saveRtf /\ calls' = calls
  BY DEF WriteBodies
<1>4. Quiet(Top.item) \subseteq Tokens
  BY DEF Quiet
<1>3. /\ u \in Seq(Quiet(Top.item))
      /\ BodyParts(Message) \in Seq(Tokens) /\ ScheduleParts(Message) \in Seq(Tokens)
  <2>1. BodyParts(Message) \in Seq(Quiet(Top.item)) /\ ScheduleParts(Message) \in Seq(Quiet(Top.item))
    BY <1>1, BodiesQuiet
  <2> QED BY <2>1, <1>4, SeqMonotonic, ConcatProperties
<1>5. u \in Seq(Tokens)
  BY <1>3, <1>4, SeqMonotonic
<1>6. \A i \in DOMAIN u : u[i].item = Top.item /\ (u[i].n = 0 \/ u[i].what = "calendar")
  <2>1. \A i \in DOMAIN u : u[i] \in Quiet(Top.item)
    <3> HIDE DEF u
    <3> QED BY <1>3, ElementOfSeq, LenProperties
  <2> QED BY <2>1 DEF Quiet
<1>7. MailKept(Top, out) /\ out \in Seq(Tokens)
  BY <1>1, TopKept
<1>8. out' = out \o u
  <2>1. out' = (out \o BodyParts(Message)) \o ScheduleParts(Message)
    BY <1>2
  <2> QED BY <2>1, <1>3, <1>7, ConcatAssociative
<1> HIDE DEF u
<1>9. MailKept(Top, out \o u)
  BY <1>5, <1>6, <1>7, KeptStays
<1>10. \A n \in Int : Marks(out \o u, Top.item, n) = {}
  BY <1>1, <1>9 DEF MailKept
<1>11. /\ all \in Seq(Attachments)
       /\ \A j, k \in DOMAIN all : all[j].n = all[k].n => j = k
       /\ \A j \in DOMAIN all : all[j] \in ToSet(all)
  BY <1>1, AllAttachmentsKnown DEF MailTypes, ToSet
<1>12. \A j \in DOMAIN all : all[j].n \in Int
  <2> HIDE DEF all
  <2>1. \A j \in DOMAIN all : all[j] \in Attachments
    BY <1>11, ElementOfSeq, LenProperties
  <2> QED BY <2>1 DEF Attachments
<1> HIDE DEF all
<1>13. MailKept(BodiesFrame, out \o u)
  <2>1. Listed(BodiesFrame)
    BY <1>1, <1>11 DEF Listed, all
  <2>2. \A j \in DOMAIN BodiesFrame.attach : Marks(out \o u, BodiesFrame.item, BodiesFrame.attach[j].n) = {}
    BY <1>1, <1>10, <1>12
  <2>3. AllAttachments(mail[BodiesFrame.msg]) = BodiesFrame.attach
    BY <1>1 DEF all
  <2> QED BY <1>1, <2>1, <2>2, <2>3 DEF MailKept
<1> QED BY <1>1, <1>2, <1>5, <1>6, <1>8, <1>13, OutExtends

\* The attachments that are passed over, written into the mail or into a file.
LEMMA PassesOut ==
  ASSUME MailTypes, OutKept, Passes
  PROVE  OutKept'
<1>1. AttachLeft /\ mail' = mail /\ saveRtf' = saveRtf /\ calls' = calls
  BY PassesFits
<1>2. PICK num \in Nat : /\ [Advanced EXCEPT !.num = num] \in Frames
                         /\ [Advanced EXCEPT !.num = num].item = Top.item
                         /\ stack' = Replace([Advanced EXCEPT !.num = num])
  BY PassesFits
<1> DEFINE frame == [Advanced EXCEPT !.num = num]
           t == Token("part", MainBoundary, "attachment", Next1.n)
           marked == WriteInline /\ ~Unfetchable(Next1)
<1>3. /\ stack # <<>> /\ frame.msg = Top.msg /\ frame.mode = Top.mode /\ frame.pc = "attachments"
      /\ frame.attach = Tail(Top.attach) /\ Top \in Frames /\ Next1 \in Attachments
  BY <1>1, AdvancedKnown DEF Frames
<1>4. out \in Seq(Tokens) /\ MailKept(Top, out)
  BY <1>3, TopKept
<1>5. Next1.n # 0 /\ Next1.n \in Int
  <2>1. Next1 = Top.attach[1] /\ 1 \in DOMAIN Top.attach /\ Top.pc = "attachments"
    BY <1>1, AdvancedKnown
  <2>2. Next1 \in ToSet(AllAttachments(mail[Top.msg]))
    BY <2>1, <1>4 DEF MailKept, Listed
  <2>3. Top.msg \in DOMAIN mail
    BY <1>3, HeadedFits
  <2> QED BY <2>2, <2>3, <1>3, AllAttachmentsKnown DEF ToSet, MailTypes, Attachments
<1>6. t \in Tokens /\ t.item = Top.item /\ t.n = Next1.n /\ t.what = "attachment"
  <2>1. "mail" \in Whats /\ "attachment" \in Whats /\ "multipart" \in Whats
    BY DEF Whats
  <2>2. MainBoundary \in Boundaries
    BY <1>3, MainType
  <2> QED BY <1>3, <1>5, <2>1, <2>2, TokenType
<1>7. ASSUME marked
      PROVE  out' = Append(out, t)
  BY <1>7 DEF WriteInline
<1>8. ASSUME ~marked
      PROVE  out' = out /\ (~Wanted(Next1) \/ InFile(Top, Next1))
  <2>1. CASE EmbedNothing
    BY <2>1 DEF EmbedNothing, Wanted
  <2>2. CASE WriteSeparateAttachment
    BY <2>2 DEF WriteSeparateAttachment, InFile, Separately
  <2>3. CASE WriteInline
    BY <2>3, <1>8 DEF WriteInline, Wanted
  <2>4. CASE SkipAttachment
    BY <2>4 DEF SkipAttachment, Wanted
  <2> QED BY <2>1, <2>2, <2>3, <2>4 DEF Passes
<1>9. Marking(t, Top.item, Next1.n)
  BY <1>5, <1>6 DEF Marking
<1> HIDE DEF t, frame
<1>10. CASE marked
  <2>1. MailKept(frame, IF TRUE THEN Append(out, t) ELSE out)
    BY <1>1, <1>2, <1>3, <1>6, <1>9, AdvanceKept DEF frame
  <2>2. <<t>> \in Seq(Tokens) /\ out' = out \o <<t>> /\ Append(out, t) = out \o <<t>>
        /\ \A i \in DOMAIN <<t>> : <<t>>[i].item = Top.item
    BY <1>4, <1>6, <1>7, <1>10, OneToken
  <2>3. MailKept(frame, out \o <<t>>)
    BY <2>1, <2>2
  <2> QED BY <1>1, <1>2, <1>3, <2>2, <2>3, OutExtends DEF frame
<1>11. CASE ~marked
  <2>1. MailKept(frame, IF FALSE THEN Append(out, t) ELSE out)
    BY <1>1, <1>2, <1>3, <1>6, <1>8, <1>11, AdvanceKept DEF frame
  <2>2. <<>> \in Seq(Tokens) /\ out = out \o <<>> /\ DOMAIN <<>> = {}
    BY <1>4, <1>6, OneToken
  <2>3. MailKept(frame, out \o <<>>) /\ out' = out \o <<>>
    BY <2>1, <2>2, <1>8, <1>11
  <2> QED BY <1>1, <1>2, <1>3, <2>2, <2>3, OutExtends DEF frame
<1> QED BY <1>10, <1>11

\* A message is embedded.
LEMMA EmbedOut ==
  ASSUME MailTypes, OutKept, EmbedMessage
  PROVE  OutKept'
<1> DEFINE t == Token("part", MainBoundary, "multipart", Next1.n)
           n == Len(stack)
           frame == Frame(calls', Next1.msg, "normal")
           old == stack
           new == stack'
           o == out'
<1>1. /\ AttachLeft /\ mail' = mail /\ saveRtf' = saveRtf /\ calls' = calls + 1 /\ calls \in Nat
      /\ o = Append(out, t) /\ Next1.method = Embedded /\ IsMail(Next1.msg)
  BY DEF EmbedMessage, MailTypes
<1>2. /\ stack # <<>> /\ Top.pc = "attachments" /\ Top \in Frames /\ Next1 \in Attachments
      /\ Advanced \in Frames /\ Advanced.item = Top.item /\ Advanced.msg = Top.msg
      /\ Advanced.mode = Top.mode /\ Advanced.pc = "attachments" /\ Advanced.attach = Tail(Top.attach)
      /\ Next1 = Top.attach[1] /\ 1 \in DOMAIN Top.attach
  BY <1>1, AdvancedKnown
<1>3. /\ n \in Nat \ {0} /\ DOMAIN old = 1 .. n /\ DOMAIN new = 1 .. n + 1
      /\ \A s \in 1 .. n - 1 : new[s] = old[s]
      /\ new[n] = Advanced /\ new[n + 1] = frame
  BY EmbedFits
<1>4. frame.item = calls + 1 /\ frame.pc = "headers"
  BY <1>1 DEF Frame
<1>5. out \in Seq(Tokens) /\ MailKept(Top, out) /\ Top.item <= calls /\ Top.item \in Nat
      /\ \A s \in DOMAIN old : s # n => old[s].item # Top.item
  BY <1>2, TopKept
<1>6. old[n] = Top
  BY <1>2, TopKnown DEF MailTypes
<1>7. Next1.n # 0 /\ Next1.n \in Int
  <2>1. Next1 \in ToSet(AllAttachments(mail[Top.msg]))
    BY <1>2, <1>5 DEF MailKept, Listed
  <2>2. Top.msg \in DOMAIN mail
    BY <1>2, HeadedFits
  <2> QED BY <2>1, <2>2, <1>2, AllAttachmentsKnown DEF ToSet, MailTypes, Attachments
<1>8. t \in Tokens /\ t.item = Top.item /\ t.n = Next1.n /\ t.what = "multipart"
  <2>1. "mail" \in Whats /\ "attachment" \in Whats /\ "multipart" \in Whats
    BY DEF Whats
  <2>2. MainBoundary \in Boundaries
    BY <1>2, MainType
  <2> QED BY <1>2, <1>7, <2>1, <2>2, TokenType
<1>9. MailKept(Advanced, o)
  <2>1. Marking(t, Top.item, Next1.n)
    BY <1>7, <1>8 DEF Marking
  <2> HIDE DEF t, o
  <2>2. MailKept(Advanced, IF TRUE THEN Append(out, t) ELSE out)
    BY <1>1, <1>2, <1>8, <2>1, AdvanceKept
  <2> QED BY <1>1, <2>2
<1> HIDE DEF t, n, frame, old, new, o
<1>10. /\ o \in Seq(Tokens) /\ \A i \in DOMAIN o : o[i].item <= calls
       /\ <<t>> \in Seq(Tokens) /\ o = out \o <<t>> /\ \A i \in DOMAIN <<t>> : <<t>>[i].item = Top.item
  <2>1. /\ <<t>> \in Seq(Tokens) /\ o = out \o <<t>> /\ \A i \in DOMAIN <<t>> : <<t>>[i].item = Top.item
    BY <1>1, <1>5, <1>8, OneToken
  <2>2. /\ o \in Seq(Tokens) /\ Len(o) = Len(out) + 1 /\ Len(out) \in Nat /\ DOMAIN out = 1 .. Len(out)
        /\ \A i \in 1 .. Len(out) : o[i] = out[i]
        /\ o[Len(out) + 1] = t
    BY <1>1, <1>5, <1>8, AppendProperties, LenProperties
  <2>3. \A i \in DOMAIN o : (i \in DOMAIN out /\ o[i] = out[i]) \/ o[i] = t
    BY <2>2, LenProperties
  <2>4. \A i \in DOMAIN o : o[i].item <= calls
    BY <2>3, <1>5, <1>8 DEF OutKept
  <2> QED BY <2>1, <2>2, <2>4
<1>11. \A i \in DOMAIN o : o[i].item # calls + 1
  <2> TAKE i \in DOMAIN o
  <2>1. o[i] \in Tokens
    BY <1>10, ElementOfSeq, LenProperties
  <2>2. o[i].item \in Nat /\ o[i].item <= calls
    BY <2>1, <1>10 DEF Tokens
  <2> QED BY <2>2, <1>1
<1>12. MailKept(frame, o)
  BY <1>4, <1>11 DEF MailKept, Marks, Marking
<1>13. \A s \in DOMAIN new : s \in 1 .. n - 1 \/ s = n \/ s = n + 1
  BY <1>3
<1>14. ASSUME NEW s \in DOMAIN new PROVE MailKept(new[s], o)
  <2>1. CASE s \in 1 .. n - 1
    <3>1. s \in DOMAIN old /\ s # n /\ new[s] = old[s]
      BY <2>1, <1>3
    <3>2. MailKept(old[s], out) /\ old[s].item # Top.item
      BY <3>1, <1>5 DEF OutKept, old
    <3> QED BY <3>1, <3>2, <1>5, <1>10, KeptStays
  <2>2. CASE s = n
    BY <2>2, <1>3, <1>9
  <2>3. CASE s = n + 1
    BY <2>3, <1>3, <1>12
  <2> QED BY <2>1, <2>2, <2>3, <1>13
<1>15. ASSUME NEW s \in DOMAIN new PROVE MailKept(stack[s], out)'
  BY <1>1, <1>14, FrozenKept DEF new, o
<1>16. /\ \A s \in DOMAIN old : old[s].item <= calls /\ old[s].item \in Nat
       /\ \A s, r \in DOMAIN old : old[s].item = old[r].item => s = r
  <2>1. \A s \in DOMAIN old : old[s].item <= calls /\ old[s].item \in Nat
    BY DEF MailTypes, FramesFit, FrameFits, Frames, old
  <2>2. \A s, r \in DOMAIN old : old[s].item = old[r].item => s = r
    BY DEF OutKept, old
  <2> QED BY <2>1, <2>2
<1>17. \A s \in DOMAIN new : (s \in DOMAIN old /\ new[s].item = old[s].item) \/ (s = n + 1 /\ new[s].item = calls + 1)
  <2> TAKE s \in DOMAIN new
  <2>1. CASE s \in 1 .. n - 1
    BY <2>1, <1>3
  <2>2. CASE s = n
    BY <2>2, <1>2, <1>3, <1>6
  <2>3. CASE s = n + 1
    BY <2>3, <1>3, <1>4
  <2> QED BY <2>1, <2>2, <2>3, <1>13
<1>18. \A s, r \in DOMAIN new : new[s].item = new[r].item => s = r
  <2> TAKE s, r \in DOMAIN new
  <2>1. \A k \in DOMAIN old : old[k].item # calls + 1
    BY <1>1, <1>16
  <2> QED BY <2>1, <1>16, <1>17
<1>19. \A i \in DOMAIN o : o[i].item <= calls'
  <2> TAKE i \in DOMAIN o
  <2>1. o[i] \in Tokens
    BY <1>10, ElementOfSeq, LenProperties
  <2>2. o[i].item \in Nat /\ o[i].item <= calls
    BY <2>1, <1>10 DEF Tokens
  <2> QED BY <2>2, <1>1
<1> QED BY <1>10, <1>15, <1>18, <1>19 DEF OutKept, new, o

\* A message ends.
LEMMA FinishOut ==
  ASSUME MailTypes, OutKept, Finish
  PROVE  OutKept'
<1> DEFINE t == Token("close", MainBoundary, "mail", 0)
           old == stack
           new == stack'
           o == out'
<1>1. /\ stack # <<>> /\ new = Front(stack) /\ o = Append(out, t)
      /\ mail' = mail /\ saveRtf' = saveRtf /\ calls' = calls
  BY DEF Finish, AtStep
<1>2. t \in Tokens /\ t.n = 0 /\ t.item = Top.item
  <2>1. "mail" \in Whats /\ "attachment" \in Whats /\ "multipart" \in Whats
    BY DEF Whats
  <2>2. MainBoundary \in Boundaries
    BY <1>1, MainType
  <2> QED BY <1>1, <2>1, <2>2, TokenType
<1>3. out \in Seq(Tokens) /\ Top.item <= calls
  BY <1>1, TopKept
<1>4. \A s \in DOMAIN new : s \in DOMAIN old /\ new[s] = old[s]
  <2>1. /\ DOMAIN new = 1 .. Len(stack) - 1 /\ DOMAIN stack = 1 .. Len(stack)
        /\ \A s \in 1 .. Len(stack) - 1 : new[s] = stack[s]
        /\ Len(stack) \in Nat
    BY <1>1, FrontKnown, TopKnown DEF MailTypes
  <2> QED BY <2>1
<1> HIDE DEF t, old, new, o
<1>5. /\ <<t>> \in Seq(Tokens) /\ o = out \o <<t>> /\ \A i \in DOMAIN <<t>> : <<t>>[i].n = 0
  BY <1>1, <1>2, <1>3, OneToken
<1>6. ASSUME NEW s \in DOMAIN new PROVE MailKept(new[s], o)
  <2>1. MailKept(old[s], out)
    BY <1>4 DEF OutKept, old
  <2>2. MailKept(old[s], o)
    BY <2>1, <1>3, <1>5, KeptStays
  <2> QED BY <2>2, <1>4
<1>7. ASSUME NEW s \in DOMAIN new PROVE MailKept(stack[s], out)'
  BY <1>1, <1>6, FrozenKept DEF new, o
<1>8. o \in Seq(Tokens) /\ \A i \in DOMAIN o : o[i].item <= calls
  <2>1. /\ o \in Seq(Tokens) /\ Len(o) = Len(out) + 1 /\ Len(out) \in Nat /\ DOMAIN out = 1 .. Len(out)
        /\ \A i \in 1 .. Len(out) : o[i] = out[i]
        /\ o[Len(out) + 1] = t
    BY <1>1, <1>2, <1>3, AppendProperties, LenProperties
  <2>2. \A i \in DOMAIN o : (i \in DOMAIN out /\ o[i] = out[i]) \/ o[i] = t
    BY <2>1, LenProperties
  <2> QED BY <2>1, <2>2, <1>2, <1>3 DEF OutKept
<1>9. \A s, r \in DOMAIN new : new[s].item = new[r].item => s = r
  BY <1>4 DEF OutKept, old
<1> QED BY <1>1, <1>7, <1>8, <1>9 DEF OutKept, new, o

LEMMA StepOutKept == MailTypes /\ OutKept /\ [MailNext]_mailVars => OutKept'
<1> SUFFICES ASSUME MailTypes, OutKept, [MailNext]_mailVars PROVE OutKept'
  OBVIOUS
<1>1. CASE UNCHANGED mailVars
  <2>1. /\ mail' = mail /\ saveRtf' = saveRtf /\ calls' = calls /\ stack' = stack /\ out' = out
    BY <1>1 DEF mailVars
  <2>2. ASSUME NEW s \in DOMAIN stack' PROVE MailKept(stack[s], out)'
    BY <2>1, FrozenKept DEF OutKept
  <2> QED BY <2>1, <2>2 DEF OutKept
<1> QED BY <1>1, HeadersOut, BodiesOut, PassesOut, EmbedOut, FinishOut DEF MailNext, Passes, Done

-----------------------------------------------------------------------------
(* What becomes of the files of separate attachments.  Only the outermost  *)
(* message has any.                                                        *)
Holding(fs, n) == {f \in DOMAIN fs : fs[f] = n}

NamedFor(frame, f, a) ==
  IF a.name = NoName THEN \E k \in 1 .. frame.num : f = DummyName(k) ELSE f.stem = a.name.stem

FileKept(frame, fs, a) ==
  \/ \E f : Holding(fs, a.n) = {f} /\ NamedFor(frame, f, a)
  \/ a.name.stem = "attach" /\ \E f \in DOMAIN fs : f.stem = "attach" /\ fs[f] \in Unnamed(frame)

Filed(frame, fs) ==
  /\ frame.mode # "separate" \/ frame.pc # "attachments" => DOMAIN fs = {}
  /\ frame.mode = "separate" /\ frame.pc = "attachments" =>
       /\ Listed(frame)
       /\ \A f \in DOMAIN fs : \E a \in ToSet(AllAttachments(mail[frame.msg])) :
                                 a \notin ToSet(frame.attach) /\ fs[f] = a.n
       /\ \A a \in ToSet(AllAttachments(mail[frame.msg])) :
            Wanted(a) /\ a \notin ToSet(frame.attach) /\ a.method # Embedded => FileKept(frame, fs, a)

FilesKept ==
  /\ IsFiniteSet(DOMAIN files)
  /\ \A s \in DOMAIN stack : s > 1 => stack[s].mode = "normal"
  /\ stack # <<>> => Filed(stack[1], files)

-----------------------------------------------------------------------------
\* Names with different numbers are different.
LEMMA SuffixedKnown ==
  ASSUME NEW fname \in FileNames
  PROVE  /\ \A x \in Nat : Suffixed(fname, x) \in FileNames /\ Suffixed(fname, x).stem = fname.stem
         /\ \A x, y \in Nat : Suffixed(fname, x) = Suffixed(fname, y) => x = y
<1> DEFINE s == fname.suffix
           n == Len(s)
<1>1. s \in Seq(Nat)
  BY DEF FileNames
<1>2. \A x \in Nat : /\ Append(s, x) \in Seq(Nat) /\ Len(Append(s, x)) = n + 1
                     /\ Append(s, x)[n + 1] = x
                     /\ n \in Nat
  BY <1>1, AppendProperties, LenProperties
<1>3. \A x \in Nat : /\ Suffixed(fname, x) \in FileNames /\ Suffixed(fname, x).stem = fname.stem
                     /\ Suffixed(fname, x).suffix = IF x = 0 THEN s ELSE Append(s, x)
  <2> TAKE x \in Nat
  <2>1. Append(s, x) \in Seq(Nat)
    BY <1>2
  <2>2. CASE x = 0
    BY <2>2 DEF Suffixed
  <2>3. CASE x # 0
    <3>1. Suffixed(fname, x) = [fname EXCEPT !.suffix = Append(s, x)]
      BY <2>3 DEF Suffixed
    <3> HIDE DEF s
    <3>2. /\ [fname EXCEPT !.suffix = Append(s, x)] \in FileNames
          /\ [fname EXCEPT !.suffix = Append(s, x)].stem = fname.stem
          /\ [fname EXCEPT !.suffix = Append(s, x)].suffix = Append(s, x)
      BY <2>1 DEF FileNames
    <3> QED BY <2>3, <3>1, <3>2
  <2> QED BY <2>2, <2>3
<1> HIDE DEF s, n
<1>4. ASSUME NEW x \in Nat, NEW y \in Nat, Suffixed(fname, x) = Suffixed(fname, y)
      PROVE  x = y
  <2>1. (IF x = 0 THEN s ELSE Append(s, x)) = (IF y = 0 THEN s ELSE Append(s, y))
    BY <1>3, <1>4
  <2>2. Append(s, x) # s /\ Append(s, y) # s
    <3>1. Len(Append(s, x)) # Len(s) /\ Len(Append(s, y)) # Len(s)
      BY <1>2 DEF n
    <3> QED BY <3>1
  <2>3. Append(s, x) = Append(s, y) => x = y
    BY <1>2
  <2> QED BY <2>1, <2>2, <2>3
<1> QED BY <1>3, <1>4

\* A name that is probed is free in the end.
LEMMA FreeNameKnown ==
  ASSUME NEW fname \in FileNames, IsFiniteSet(DOMAIN files)
  PROVE  FreeName(fname) \notin DOMAIN files /\ FreeName(fname).stem = fname.stem
<1> DEFINE d == DOMAIN files
           c == Cardinality(d)
           free == {x \in 0 .. c : Suffixed(fname, x) \notin d}
<1>1. c \in Nat
  BY FS_CardinalityType
<1>2. free # {}
  <2> SUFFICES ASSUME free = {} PROVE FALSE
    OBVIOUS
  <2> DEFINE h == [x \in 0 .. c |-> Suffixed(fname, x)]
  <2> HIDE DEF d, c
  <2>1. \A x \in 0 .. c : Suffixed(fname, x) \in d
    OBVIOUS
  <2>2. \A x, y \in 0 .. c : Suffixed(fname, x) = Suffixed(fname, y) => x = y
    BY <1>1, SuffixedKnown
  <2>3. h \in Injection(0 .. c, d)
    <3>1. h \in [0 .. c -> d]
      BY <2>1
    <3>2. \A x, y \in 0 .. c : h[x] = h[y] => x = y
      BY <2>2
    <3> HIDE DEF h
    <3> QED BY <3>1, <3>2 DEF Injection, IsInjective
  <2>4. IsFiniteSet(d)
    BY DEF d
  <2> HIDE DEF h
  <2>5. Cardinality(0 .. c) <= Cardinality(d)
    BY <2>3, <2>4, FS_Injection
  <2>6. Cardinality(0 .. c) = c - 0 + 1
    BY <1>1, FS_Interval
  <2> QED BY <2>5, <2>6, <1>1 DEF c
<1>3. \E x \in free : \A y \in free : x <= y
  <2>1. free \subseteq Nat
    BY <1>1
  <2> HIDE DEF free
  <2> QED BY <1>2, <2>1, LeastNumber
<1>4. PICK x \in free : x = CHOOSE z \in free : \A y \in free : z <= y
  BY <1>3
<1>5. FreeName(fname) = Suffixed(fname, x)
  BY <1>4 DEF FreeName
<1>6. x \in Nat /\ Suffixed(fname, x) \notin DOMAIN files
  BY <1>1, <1>4
<1> QED BY <1>5, <1>6, SuffixedKnown

\* What is in the files does not depend on the rest of the state.
LEMMA FrozenFiled ==
  ASSUME mail' = mail, saveRtf' = saveRtf
  PROVE  \A frame, fs : Filed(frame, fs)' <=> Filed(frame, fs)
<1> TAKE frame, fs
<1>1. \A m : AllAttachments(m)' = AllAttachments(m)
  BY DEF AllAttachments, BodyAttachments
<1>2. \A a : Wanted(a)' <=> Wanted(a)
  BY DEF Wanted, IsMail
<1>3. Listed(frame)' <=> Listed(frame)
  BY <1>1 DEF Listed
<1>4. Unnamed(frame)' = Unnamed(frame)
  BY <1>1 DEF Unnamed
<1>5. \A a : FileKept(frame, fs, a)' <=> FileKept(frame, fs, a)
  BY <1>4 DEF FileKept
<1> QED BY <1>1, <1>2, <1>3, <1>5 DEF Filed

-----------------------------------------------------------------------------
\* The running call goes on with a frame for which the files are right.
LEMMA FilesGoOn ==
  ASSUME MailTypes, FilesKept, stack # <<>>, NEW frame \in Frames, frame.mode = Top.mode,
         stack' = Replace(frame), mail' = mail, saveRtf' = saveRtf, IsFiniteSet(DOMAIN files'),
         Len(stack) > 1 => files' = files,
         Len(stack) = 1 => Filed(frame, files')
  PROVE  FilesKept'
<1>1. /\ DOMAIN stack = 1 .. Len(stack) /\ Len(stack) \in Nat \ {0} /\ stack \in Seq(Frames)
      /\ Top = stack[Len(stack)]
  BY TopKnown DEF MailTypes
<1>2. /\ DOMAIN stack' = DOMAIN stack
      /\ \A s \in 1 .. Len(stack) - 1 : stack'[s] = stack[s]
      /\ stack'[Len(stack)] = frame
  BY <1>1, ReplaceKnown
<1>3. \A s \in DOMAIN stack' : stack'[s].mode = stack[s].mode
  <2> TAKE s \in DOMAIN stack'
  <2>1. CASE s = Len(stack)
    BY <2>1, <1>1, <1>2
  <2>2. CASE s \in 1 .. Len(stack) - 1
    BY <2>2, <1>2
  <2> QED BY <2>1, <2>2, <1>1, <1>2
<1>4. \A s \in DOMAIN stack' : s > 1 => stack'[s].mode = "normal"
  BY <1>2, <1>3 DEF FilesKept
<1>5. Filed(stack'[1], files')
  <2>1. CASE Len(stack) = 1
    BY <2>1, <1>2
  <2>2. CASE Len(stack) # 1
    <3>1. Len(stack) > 1 /\ 1 \in 1 .. Len(stack) - 1
      BY <2>2, <1>1
    <3>2. stack'[1] = stack[1] /\ files' = files
      BY <3>1, <1>2
    <3> QED BY <3>2 DEF FilesKept
  <2> QED BY <2>1, <2>2
<1>6. Filed(stack[1], files)'
  BY <1>5, FrozenFiled
<1> QED BY <1>4, <1>6 DEF FilesKept

\* The next attachment and those that are done.
LEMMA AdvanceDone ==
  ASSUME MailTypes, AttachLeft, Listed(Top)
  PROVE  /\ Next1 \in ToSet(AllAttachments(mail[Top.msg]))
         /\ Next1 \notin ToSet(Tail(Top.attach)) /\ Next1 \in ToSet(Top.attach)
         /\ \A a \in ToSet(AllAttachments(mail[Top.msg])) :
              /\ a \notin ToSet(Tail(Top.attach)) => a = Next1 \/ a \notin ToSet(Top.attach)
              /\ a \notin ToSet(Top.attach) => a \notin ToSet(Tail(Top.attach)) /\ a.n # Next1.n
              /\ a.n # 0 /\ a \in Attachments
         /\ \A frame : frame.msg = Top.msg /\ frame.attach = Tail(Top.attach) => Listed(frame)
<1> DEFINE all == AllAttachments(mail[Top.msg])
           n == Len(Top.attach)
           old == Top.attach
           new == Tail(Top.attach)
<1>1. /\ stack # <<>> /\ Next1 = old[1] /\ n \in Nat \ {0}
      /\ DOMAIN old = 1 .. n /\ DOMAIN new = 1 .. n - 1
      /\ \A j \in 1 .. n - 1 : new[j] = old[j + 1]
  BY AdvancedKnown
<1>2. Top.msg \in DOMAIN mail
  BY <1>1, HeadedFits
<1>3. /\ \A j \in DOMAIN old : old[j] \in ToSet(all)
      /\ \A j, k \in DOMAIN old : old[j].n = old[k].n => j = k
  BY DEF Listed
<1>4. /\ \A a, b \in ToSet(all) : a.n = b.n => a = b
      /\ \A a \in ToSet(all) : a.n # 0
      /\ all \in Seq(Attachments)
  BY <1>2, AllAttachmentsKnown DEF ToSet, MailTypes
<1>5. \A a \in ToSet(all) : a \in Attachments
  <2> HIDE DEF all
  <2> QED BY <1>4, ElementOfSeq, LenProperties DEF ToSet
<1> HIDE DEF all, n, old, new
<1>6. \A j \in DOMAIN new : j + 1 \in DOMAIN old /\ 1 \in DOMAIN old /\ j + 1 # 1 /\ new[j] = old[j + 1]
  BY <1>1
<1>7. Next1 \in ToSet(all) /\ Next1 \in ToSet(old)
  BY <1>1, <1>3 DEF ToSet
<1>8. Next1 \notin ToSet(new)
  BY <1>1, <1>3, <1>6 DEF ToSet
<1>9. ASSUME NEW a \in ToSet(all), a \in ToSet(old), a # Next1 PROVE a \in ToSet(new)
  <2>1. PICK j \in DOMAIN old : a = old[j]
    BY <1>9 DEF ToSet
  <2>2. j # 1
    BY <2>1, <1>1, <1>9
  <2> DEFINE k == j - 1
  <2>3. k \in DOMAIN new /\ k + 1 = j
    BY <2>2, <1>1
  <2>4. new[k] = a
    BY <2>1, <2>3, <1>6
  <2> QED BY <2>3, <2>4 DEF ToSet
<1>10. ASSUME NEW a \in ToSet(all), a \notin ToSet(old) PROVE a \notin ToSet(new) /\ a.n # Next1.n
  <2>1. a \notin ToSet(new)
    BY <1>6, <1>10 DEF ToSet
  <2> QED BY <2>1, <1>4, <1>7, <1>10
<1>11. \A j \in DOMAIN new : new[j] \in ToSet(all)
  BY <1>3, <1>6
<1>12. ASSUME NEW j \in DOMAIN new, NEW k \in DOMAIN new, new[j].n = new[k].n PROVE j = k
  <2>1. j + 1 = k + 1
    BY <1>12, <1>3, <1>6
  <2> QED BY <2>1, <1>1
<1>13. \A frame : frame.msg = Top.msg /\ frame.attach = new => Listed(frame)
  BY <1>11, <1>12 DEF Listed, all
<1> QED BY <1>4, <1>5, <1>7, <1>8, <1>9, <1>10, <1>13 DEF all, old, new

\* A name made up earlier was made up.
LEMMA NamedLater ==
  ASSUME NEW frame \in Frames, NEW other \in Frames, frame.num <= other.num
  PROVE  \A f, a : NamedFor(frame, f, a) => NamedFor(other, f, a)
<1>1. \A k \in 1 .. frame.num : k \in 1 .. other.num
  BY DEF Frames
<1> QED BY <1>1 DEF NamedFor

\* An attachment that gets no file is done.
LEMMA PassFiled ==
  ASSUME MailTypes, AttachLeft, NEW frame \in Frames,
         frame.msg = Top.msg, frame.mode = Top.mode,
         frame.pc = "attachments", frame.attach = Tail(Top.attach), Top.num <= frame.num,
         Filed(Top, files),
         ~Wanted(Next1) \/ Next1.method = Embedded \/ Top.mode # "separate"
  PROVE  Filed(frame, files)
<1>1. stack # <<>> /\ Top \in Frames /\ Top.pc = "attachments"
  BY AdvancedKnown
<1>2. CASE Top.mode # "separate"
  BY <1>2 DEF Filed
<1>3. CASE Top.mode = "separate"
  <2>1. /\ Listed(Top)
        /\ \A f \in DOMAIN files : \E a \in ToSet(AllAttachments(mail[Top.msg])) :
                                  a \notin ToSet(Top.attach) /\ files[f] = a.n
        /\ \A a \in ToSet(AllAttachments(mail[Top.msg])) :
             Wanted(a) /\ a \notin ToSet(Top.attach) /\ a.method # Embedded => FileKept(Top, files, a)
    BY <1>1, <1>3 DEF Filed
  <2>2. /\ \A a \in ToSet(AllAttachments(mail[Top.msg])) :
             /\ a \notin ToSet(Tail(Top.attach)) => a = Next1 \/ a \notin ToSet(Top.attach)
             /\ a \notin ToSet(Top.attach) => a \notin ToSet(Tail(Top.attach))
        /\ Listed(frame)
    BY <2>1, AdvanceDone
  <2>3. Unnamed(frame) = Unnamed(Top)
    BY DEF Unnamed
  <2>4. \A a : FileKept(Top, files, a) => FileKept(frame, files, a)
    BY <1>1, <2>3, NamedLater DEF FileKept
  <2>5. \A a \in ToSet(AllAttachments(mail[frame.msg])) :
          Wanted(a) /\ a \notin ToSet(frame.attach) /\ a.method # Embedded => FileKept(frame, files, a)
    BY <1>3, <2>1, <2>2, <2>4
  <2>6. \A f \in DOMAIN files : \E a \in ToSet(AllAttachments(mail[frame.msg])) :
                                  a \notin ToSet(frame.attach) /\ files[f] = a.n
    BY <2>1, <2>2
  <2> QED BY <1>3, <2>2, <2>5, <2>6 DEF Filed
<1> QED BY <1>2, <1>3

\* The name of the next file.
NextName(num) == IF Next1.name = NoName THEN DummyName(num) ELSE FreeName(Next1.name)

\* One more file.
LEMMA OneMoreFile ==
  ASSUME IsFiniteSet(DOMAIN files), NEW f, NEW n
  PROVE  /\ DOMAIN WithFile(f, n) = DOMAIN files \cup {f} /\ WithFile(f, n)[f] = n
         /\ IsFiniteSet(DOMAIN WithFile(f, n))
<1>1. DOMAIN WithFile(f, n) = DOMAIN files \cup {f} /\ WithFile(f, n)[f] = n
  BY DEF WithFile
<1>2. IsFiniteSet(DOMAIN files \cup {f})
  BY FS_AddElement
<1> QED BY <1>1, <1>2

LEMMA OtherFilesStay ==
  ASSUME NEW f, NEW n, NEW g \in DOMAIN files, g # f
  PROVE  WithFile(f, n)[g] = files[g]
  BY DEF WithFile

\* An attachment gets a file; the file of an earlier one is replaced by it
\* only when its name was made up.
LEMMA WriteFiled ==
  ASSUME MailTypes, AttachLeft, NEW frame \in Frames,
         frame.msg = Top.msg, frame.mode = Top.mode,
         frame.pc = "attachments", frame.attach = Tail(Top.attach), frame.num = Top.num + 1,
         Filed(Top, files), IsFiniteSet(DOMAIN files), Top.mode = "separate"
  PROVE  Filed(frame, WithFile(NextName(Top.num + 1), Next1.n))
<1> DEFINE fname == NextName(Top.num + 1)
           fs == WithFile(fname, Next1.n)
           all == ToSet(AllAttachments(mail[Top.msg]))
           done(x) == x \in all /\ Wanted(x) /\ x.method # Embedded
           before(x) == done(x) /\ x \notin ToSet(Top.attach)
<1>1. Top \in Frames /\ Top.pc = "attachments" /\ Top.num \in Nat /\ Next1 \in Attachments
  BY AdvancedKnown DEF Frames
<1>2. /\ Listed(Top)
      /\ \A f \in DOMAIN files : \E a \in all : a \notin ToSet(Top.attach) /\ files[f] = a.n
      /\ \A a : before(a) => FileKept(Top, files, a)
  BY <1>1 DEF Filed
<1>3. /\ Next1 \in all /\ Next1 \notin ToSet(Tail(Top.attach)) /\ Listed(frame)
      /\ \A a \in all : /\ a \notin ToSet(Tail(Top.attach)) => a = Next1 \/ a \notin ToSet(Top.attach)
                        /\ a \notin ToSet(Top.attach) => a \notin ToSet(Tail(Top.attach)) /\ a.n # Next1.n
  BY <1>2, AdvanceDone
<1>4. /\ DOMAIN fs = DOMAIN files \cup {fname} /\ fs[fname] = Next1.n
      /\ \A f \in DOMAIN files : f # fname => fs[f] = files[f]
  BY OneMoreFile, OtherFilesStay
<1>5. /\ Next1.name = NoName => fname = DummyName(Top.num + 1) /\ fname.stem = "attach"
      /\ Next1.name # NoName => fname \notin DOMAIN files /\ fname.stem = Next1.name.stem
  <2>1. Next1.name \in FileNames
    BY <1>1 DEF Attachments
  <2>2. FreeName(Next1.name) \notin DOMAIN files /\ FreeName(Next1.name).stem = Next1.name.stem
    BY <2>1, FreeNameKnown
  <2>3. DummyName(Top.num + 1).stem = "attach"
    BY DEF DummyName
  <2> QED BY <2>2, <2>3 DEF NextName
<1>6. Unnamed(frame) = Unnamed(Top)
  BY DEF Unnamed
<1>7. Next1.name = NoName => Next1.n \in Unnamed(frame)
  BY <1>3 DEF Unnamed
<1> HIDE DEF fname, fs, all
<1>8. FileKept(frame, fs, Next1)
  <2>1. \A f \in DOMAIN files : files[f] # Next1.n
    BY <1>2, <1>3
  <2>2. Holding(fs, Next1.n) = {fname}
    BY <2>1, <1>4 DEF Holding
  <2>3. NamedFor(frame, fname, Next1)
    <3>1. Top.num + 1 \in 1 .. frame.num
      BY <1>1
    <3> QED BY <3>1, <1>5 DEF NamedFor
  <2> QED BY <2>2, <2>3 DEF FileKept
<1>9. ASSUME NEW a, before(a) PROVE FileKept(frame, fs, a)
  <2>1. a.n # Next1.n
    BY <1>3, <1>9
  <2>2. FileKept(Top, files, a)
    BY <1>2, <1>9
  <2>3. CASE a.name.stem = "attach" /\ \E f \in DOMAIN files : f.stem = "attach" /\ files[f] \in Unnamed(Top)
    <3>1. PICK f \in DOMAIN files : f.stem = "attach" /\ files[f] \in Unnamed(Top)
      BY <2>3
    <3>2. f \in DOMAIN fs /\ fs[f] \in Unnamed(frame)
      <4>1. CASE f = fname
        BY <4>1, <1>4, <1>5, <1>7
      <4>2. CASE f # fname
        BY <4>2, <3>1, <1>4, <1>6
      <4> QED BY <4>1, <4>2
    <3> QED BY <2>3, <3>1, <3>2 DEF FileKept
  <2>4. ASSUME NEW f, Holding(files, a.n) = {f}, NamedFor(Top, f, a) PROVE FileKept(frame, fs, a)
    <3>1. f \in DOMAIN files /\ files[f] = a.n
      BY <2>4 DEF Holding
    <3>2. CASE f # fname
      <4>1. Holding(fs, a.n) = {f}
        <5>1. \A g \in DOMAIN fs : fs[g] = a.n => g \in DOMAIN files /\ files[g] = a.n
          BY <2>1, <1>4
        <5>2. f \in DOMAIN fs /\ fs[f] = a.n
          BY <3>1, <3>2, <1>4
        <5> QED BY <5>1, <5>2, <2>4 DEF Holding
      <4>2. NamedFor(frame, f, a)
        BY <2>4, <1>1, NamedLater
      <4> QED BY <4>1, <4>2 DEF FileKept
    <3>3. CASE f = fname
      <4>1. Next1.name = NoName /\ fname = DummyName(Top.num + 1) /\ fname.stem = "attach"
        BY <3>1, <3>3, <1>5
      <4>2. a.name # NoName
        <5>1. \A k \in 1 .. Top.num : DummyName(k) # DummyName(Top.num + 1)
          <6> TAKE k \in 1 .. Top.num
          <6>1. DummyName(k).number = k /\ DummyName(Top.num + 1).number = Top.num + 1 /\ k # Top.num + 1
            BY <1>1 DEF DummyName
          <6> QED BY <6>1
        <5> QED BY <5>1, <4>1, <3>3, <2>4 DEF NamedFor
      <4>3. a.name.stem = "attach"
        BY <4>1, <4>2, <3>3, <2>4 DEF NamedFor
      <4>4. fname \in DOMAIN fs /\ fs[fname] \in Unnamed(frame)
        BY <4>1, <1>4, <1>7
      <4> QED BY <4>1, <4>3, <4>4 DEF FileKept
    <3> QED BY <3>2, <3>3
  <2> QED BY <2>2, <2>3, <2>4 DEF FileKept
<1>10. \A f \in DOMAIN fs : \E a \in all : a \notin ToSet(frame.attach) /\ fs[f] = a.n
  <2> TAKE f \in DOMAIN fs
  <2>1. CASE f = fname
    BY <2>1, <1>3, <1>4
  <2>2. CASE f # fname
    BY <2>2, <1>2, <1>3, <1>4
  <2> QED BY <2>1, <2>2
<1>11. \A a \in all : Wanted(a) /\ a \notin ToSet(frame.attach) /\ a.method # Embedded => FileKept(frame, fs, a)
  BY <1>3, <1>8, <1>9
<1>12. Filed(frame, fs)
  BY <1>3, <1>10, <1>11 DEF Filed, all
<1> QED BY <1>12 DEF fs, fname

-----------------------------------------------------------------------------
LEMMA InitFilesKept == MailInit => FilesKept
<1> SUFFICES ASSUME MailInit PROVE FilesKept
  OBVIOUS
<1>1. PICK how \in WriteModes : stack = <<Frame(1, 1, how)>>
  BY DEF MailInit
<1> DEFINE frame == Frame(1, 1, how)
<1>2. frame \in Frames /\ frame.pc = "headers"
  BY FrameType DEF Hows
<1> HIDE DEF frame
<1>3. DOMAIN stack = {1} /\ stack[1] = frame
  <2>1. stack = <<frame>>
    BY <1>1 DEF frame
  <2> QED BY <2>1
<1>4. DOMAIN files = {}
  BY DEF MailInit
<1>5. IsFiniteSet(DOMAIN files)
  BY <1>4, FS_EmptySet
<1> QED BY <1>2, <1>3, <1>4, <1>5 DEF FilesKept, Filed

LEMMA StepFilesKept == MailTypes /\ FilesKept /\ [MailNext]_mailVars => FilesKept'
<1> SUFFICES ASSUME MailTypes, FilesKept, [MailNext]_mailVars PROVE FilesKept'
  OBVIOUS
<1>0. /\ stack # <<>> => /\ Top \in Frames /\ DOMAIN stack = 1 .. Len(stack) /\ Len(stack) \in Nat \ {0}
                         /\ Top = stack[Len(stack)]
                         /\ Len(stack) = 1 => Filed(Top, files)
      /\ IsFiniteSet(DOMAIN files)
  BY TopKnown DEF MailTypes, FilesKept
<1>1. CASE OwnHeaders \/ BorrowHeaders \/ NoHeaders
  <2> DEFINE frame == [Top EXCEPT !.pc = "bodies"]
  <2>1. stack # <<>> /\ Top.pc = "headers"
    BY <1>1, HeadersSteps DEF AtStep
  <2>2. stack' = Replace(frame) /\ mail' = mail /\ saveRtf' = saveRtf /\ files' = files
    BY <1>1 DEF OwnHeaders, BorrowHeaders, NoHeaders, UseHeaders
  <2>3. frame \in Frames /\ frame.mode = Top.mode /\ frame.pc = "bodies"
    BY <2>1, HeadedFits
  <2> HIDE DEF frame
  <2>4. Len(stack) = 1 => Filed(frame, files')
    BY <1>0, <2>1, <2>2, <2>3 DEF Filed
  <2> QED BY <1>0, <2>1, <2>2, <2>3, <2>4, FilesGoOn
<1>2. CASE WriteBodies
  <2> DEFINE all == AllAttachments(mail[Top.msg])
  <2>1. /\ stack # <<>> /\ stack' = Replace(BodiesFrame) /\ BodiesFrame \in Frames
        /\ BodiesFrame.mode = Top.mode /\ BodiesFrame.msg = Top.msg /\ BodiesFrame.attach = all
        /\ Top.msg \in DOMAIN mail /\ Top.pc = "bodies"
    BY <1>2, BodiesFits
  <2>2. mail' = mail /\ saveRtf' = saveRtf /\ files' = files
    BY <1>2 DEF WriteBodies
  <2>3. Listed(BodiesFrame)
    BY <2>1, AllAttachmentsKnown DEF Listed, MailTypes, ToSet
  <2>4. ASSUME Len(stack) = 1 PROVE Filed(BodiesFrame, files')
    <3>1. DOMAIN files' = {}
      BY <1>0, <2>1, <2>2, <2>4 DEF Filed
    <3> QED BY <3>1, <2>1, <2>3 DEF Filed
  <2> QED BY <1>0, <2>1, <2>2, <2>4, FilesGoOn
<1>3. CASE Passes
  <2>1. AttachLeft /\ mail' = mail /\ saveRtf' = saveRtf
    BY <1>3, PassesFits
  <2>2. /\ stack # <<>> /\ Advanced \in Frames /\ Advanced.msg = Top.msg /\ Advanced.mode = Top.mode
        /\ Advanced.pc = "attachments" /\ Advanced.attach = Tail(Top.attach) /\ Advanced.num = Top.num
        /\ Top.num \in Nat
    BY <2>1, AdvancedKnown DEF Frames
  <2>3. CASE EmbedNothing \/ WriteInline \/ SkipAttachment \/ (WriteSeparateAttachment /\ Unfetchable(Next1))
    <3>1. /\ files' = files
          /\ ~Wanted(Next1) \/ Next1.method = Embedded \/ Top.mode # "separate"
      BY <2>3 DEF EmbedNothing, WriteInline, SkipAttachment, WriteSeparateAttachment, Wanted, Separately
    <3>2. PICK num \in {Top.num, Top.num + 1} : stack' = Replace([Advanced EXCEPT !.num = num])
      <4>1. [Advanced EXCEPT !.num = Top.num] = Advanced
        BY <2>2 DEF Frames
      <4>2. stack' = Replace(Advanced) \/ stack' = Replace([Advanced EXCEPT !.num = Top.num + 1])
        BY <2>3 DEF EmbedNothing, WriteInline, SkipAttachment, WriteSeparateAttachment
      <4> QED BY <4>1, <4>2
    <3> DEFINE frame == [Advanced EXCEPT !.num = num]
    <3>3. /\ frame \in Frames /\ frame.msg = Top.msg /\ frame.mode = Top.mode
          /\ frame.pc = "attachments" /\ frame.attach = Tail(Top.attach) /\ Top.num <= frame.num
      BY <2>2, <3>2 DEF Frames
    <3>4. stack' = Replace(frame)
      BY <3>2
    <3> HIDE DEF frame
    <3>5. Len(stack) = 1 => Filed(frame, files')
      BY <1>0, <2>1, <2>2, <3>1, <3>3, PassFiled
    <3> QED BY <1>0, <2>1, <2>2, <3>1, <3>3, <3>4, <3>5, FilesGoOn
  <2>4. CASE WriteSeparateAttachment /\ ~Unfetchable(Next1)
    <3> DEFINE frame == [Advanced EXCEPT !.num = Top.num + 1]
    <3>1. /\ files' = WithFile(NextName(Top.num + 1), Next1.n)
          /\ stack' = Replace(frame) /\ Top.mode = "separate"
      BY <2>4 DEF WriteSeparateAttachment, NextName, Separately
    <3>2. /\ frame \in Frames /\ frame.msg = Top.msg /\ frame.mode = Top.mode
          /\ frame.pc = "attachments" /\ frame.attach = Tail(Top.attach) /\ frame.num = Top.num + 1
      BY <2>2 DEF Frames
    <3> HIDE DEF frame
    <3>3. Len(stack) = 1
      <4>1. Len(stack) > 1 => Top.mode = "normal"
        BY <1>0, <2>2 DEF FilesKept
      <4> QED BY <4>1, <3>1, <1>0, <2>2
    <3>4. IsFiniteSet(DOMAIN files')
      BY <1>0, <3>1, OneMoreFile
    <3>5. Filed(frame, files')
      BY <1>0, <2>1, <2>2, <3>1, <3>2, <3>3, WriteFiled
    <3> QED BY <2>1, <2>2, <3>1, <3>2, <3>3, <3>4, <3>5, FilesGoOn
  <2> QED BY <1>3, <2>3, <2>4 DEF Passes
<1>4. CASE EmbedMessage
  <2> DEFINE n == Len(stack)
             frame == Frame(calls', Next1.msg, "normal")
             new == stack'
  <2>1. AttachLeft /\ mail' = mail /\ saveRtf' = saveRtf /\ files' = files /\ Next1.method = Embedded
    BY <1>4 DEF EmbedMessage
  <2>2. /\ frame \in Frames /\ n \in Nat \ {0} /\ DOMAIN new = 1 .. n + 1
        /\ \A s \in 1 .. n - 1 : new[s] = stack[s]
        /\ new[n] = Advanced /\ new[n + 1] = frame
    BY <1>4, EmbedFits
  <2>3. frame.mode = "normal"
    BY DEF Frame
  <2>4. /\ stack # <<>> /\ Advanced \in Frames /\ Advanced.msg = Top.msg /\ Advanced.mode = Top.mode
        /\ Advanced.pc = "attachments" /\ Advanced.attach = Tail(Top.attach) /\ Top.num <= Advanced.num
    BY <2>1, AdvancedKnown DEF Frames
  <2>5. DOMAIN stack = 1 .. n /\ Top = stack[n] /\ (n = 1 => Filed(Top, files))
    BY <1>0, <2>4
  <2>6. n = 1 => Filed(Advanced, files)
    BY <2>1, <2>4, <2>5, PassFiled
  <2> HIDE DEF n, frame, new
  <2>7. \A s \in DOMAIN new : s > 1 => new[s].mode = "normal"
    <3> TAKE s \in DOMAIN new
    <3> SUFFICES ASSUME s > 1 PROVE new[s].mode = "normal"
      OBVIOUS
    <3>1. CASE s = n + 1
      BY <3>1, <2>2, <2>3
    <3>2. CASE s = n
      BY <3>2, <2>2, <2>4, <2>5 DEF FilesKept
    <3>3. CASE s \in 1 .. n - 1
      BY <3>3, <2>2, <2>5 DEF FilesKept
    <3> QED BY <3>1, <3>2, <3>3, <2>2
  <2>8. Filed(new[1], files)
    <3>1. CASE n = 1
      BY <3>1, <2>2, <2>6
    <3>2. CASE n # 1
      <4>1. 1 \in 1 .. n - 1
        BY <3>2, <2>2
      <4> QED BY <4>1, <2>2, <2>4 DEF FilesKept
    <3> QED BY <3>1, <3>2
  <2>9. Filed(stack[1], files)'
    BY <2>1, <2>8, FrozenFiled DEF new
  <2> QED BY <1>0, <2>1, <2>7, <2>9 DEF FilesKept, new
<1>5. CASE Finish
  <2>1. /\ stack # <<>> /\ stack' = Front(stack) /\ mail' = mail /\ saveRtf' = saveRtf /\ files' = files
    BY <1>5 DEF Finish, AtStep
  <2>2. /\ stack' \in Seq(Frames) /\ DOMAIN stack' = 1 .. Len(stack) - 1 /\ Len(stack') = Len(stack) - 1
        /\ \A s \in 1 .. Len(stack) - 1 : stack'[s] = stack[s]
    BY <2>1, FrontKnown DEF MailTypes
  <2>3. \A s \in DOMAIN stack' : s \in DOMAIN stack /\ stack'[s] = stack[s]
    BY <1>0, <2>1, <2>2
  <2>4. ASSUME stack' # <<>> PROVE Filed(stack[1], files)'
    <3>1. Len(stack') # 0 /\ Len(stack') \in Nat
      BY <2>2, <2>4, EmptySeq, LenProperties
    <3>2. 1 \in DOMAIN stack'
      BY <1>0, <2>1, <2>2, <3>1
    <3>3. stack'[1] = stack[1]
      BY <2>3, <3>2
    <3>4. Filed(stack'[1], files')
      BY <2>1, <3>3 DEF FilesKept
    <3> QED BY <2>1, <3>4, FrozenFiled
  <2>5. \A s \in DOMAIN stack' : s > 1 => stack'[s].mode = "normal"
    BY <2>3 DEF FilesKept
  <2> QED BY <1>0, <2>1, <2>4, <2>5 DEF FilesKept
<1>6. CASE UNCHANGED mailVars
  <2>1. mail' = mail /\ saveRtf' = saveRtf /\ stack' = stack /\ files' = files
    BY <1>6 DEF mailVars
  <2>2. Filed(stack[1], files) => Filed(stack[1], files)'
    BY <2>1, FrozenFiled
  <2> QED BY <2>1, <2>2 DEF FilesKept
<1> QED BY <1>1, <1>2, <1>3, <1>4, <1>5, <1>6 DEF MailNext, Passes, Done

LEMMA KeptMeans == MailTypes /\ OutKept /\ FilesKept => AttachmentsKept
<1> SUFFICES ASSUME MailTypes, OutKept, FilesKept,
                    NEW s \in DOMAIN stack, stack[s].pc = "attachments",
                    NEW a \in ToSet(AllAttachments(mail[stack[s].msg])),
                    Wanted(a), a \notin ToSet(stack[s].attach)
             PROVE  IF stack[s].mode = "separate" /\ a.method # Embedded
                    THEN \/ Cardinality(FilesOf(a)) = 1
                         \/ \E f \in DOMAIN files : /\ f.stem = "attach" /\ files[f] \in Unnamed(stack[s])
                                                    /\ a.name.stem = "attach"
                    ELSE Cardinality(Written(stack[s], a)) = 1
  BY DEF AttachmentsKept
<1> DEFINE frame == stack[s]
<1>1. DOMAIN stack = 1 .. Len(stack) /\ Len(stack) \in Nat
  BY LenProperties DEF MailTypes
<1>2. CASE InFile(frame, a)
  <2>1. s = 1 /\ stack # <<>>
    BY <1>1, <1>2 DEF FilesKept, InFile
  <2>2. FileKept(frame, files, a)
    BY <2>1, <1>2 DEF FilesKept, Filed, InFile
  <2>3. FilesOf(a) = Holding(files, a.n)
    BY DEF FilesOf, Holding
  <2>4. ASSUME NEW f, Holding(files, a.n) = {f} PROVE Cardinality(FilesOf(a)) = 1
    BY <2>3, <2>4, FS_Singleton
  <2> QED BY <1>2, <2>2, <2>4 DEF FileKept, InFile
<1>3. CASE ~InFile(frame, a)
  <2>1. MailKept(frame, out)
    BY DEF OutKept
  <2>2. PICK i : Marks(out, frame.item, a.n) = {i}
    BY <2>1, <1>3 DEF MailKept
  <2>3. Written(frame, a) = Marks(out, frame.item, a.n)
    BY DEF Written, Marks, Marking
  <2>4. Cardinality(Written(frame, a)) = 1
    BY <2>2, <2>3, FS_Singleton
  <2> QED BY <2>4, <1>3 DEF InFile
<1> QED BY <1>2, <1>3

(* Every attachment that can be read is written exactly once: for any      *)
(* number of attachments, any names and any depth of embedding, an         *)
(* attachment that is done has one part of the mail or one file that holds *)
(* it, unless it is called like the names that are made up for attachments *)
(* without one and one of those has replaced it (the attachment loop of    *)
(* write_normal_email, write_separate_attachment).                         *)
THEOREM AttachmentsNeverLost == MailSpec => []AttachmentsKept
<1>1. MailInit => MailTypes /\ OutKept /\ FilesKept
  BY InitMailTypes, InitOutKept, InitFilesKept
<1>2. MailTypes /\ OutKept /\ FilesKept /\ [MailNext]_mailVars => (MailTypes /\ OutKept /\ FilesKept)'
  BY StepMailTypes, StepOutKept, StepFilesKept
<1>3. MailTypes /\ OutKept /\ FilesKept => AttachmentsKept
  BY KeptMeans
<1> QED BY <1>1, <1>2, <1>3, PTL DEF MailSpec

-----------------------------------------------------------------------------
(* The structure of the mail file.  due: the token before announced a      *)
(* multipart, so that a boundary has to be opened.                         *)
States == [open: Seq(Boundaries), due: BOOLEAN]
Announces(t) == t.kind = "part" /\ t.what = "multipart"
AfterOne(p, t) == [open |-> AfterToken(p.open, t), due |-> Announces(t)]
Good(p, t) == Fits(p.open, t) /\ ((t.kind = "open") <=> p.due)

Trace(w, u) ==
  /\ w \in [0 .. Len(u) -> States]
  /\ \A i \in 1 .. Len(u) : Good(w[i - 1], u[i]) /\ w[i] = AfterOne(w[i - 1], u[i])
\* The tokens lead from one state of the structure to another.
Legal(p, u, q) == \E w : Trace(w, u) /\ w[0] = p /\ w[Len(u)] = q

NestedIn(calling, depth) == [s \in 1 .. depth |-> Boundary(calling[s].msg, FALSE)]
Depth == IF AtStep("headers") THEN Len(stack) - 1 ELSE Len(stack)
Nothing == [open |-> <<>>, due |-> TRUE]
Now == [open |-> NestedIn(stack, Depth), due |-> AtStep("headers")]

DeeperLater == \A s, r \in DOMAIN stack : s < r => stack[s].msg < stack[r].msg
HeadersComplete ==
  \A j \in DOMAIN given :
    /\ given[j].copied \cap given[j].created = {}
    /\ {"From", "Subject", "MIME-Version", "Content-Type"} \subseteq given[j].copied \cup given[j].created

MimeKept == out \in Seq(Tokens) /\ Legal(Nothing, out, Now) /\ DeeperLater /\ HeadersComplete

-----------------------------------------------------------------------------
LEMMA LegalNone == ASSUME NEW p \in States PROVE Legal(p, <<>>, p)
<1> DEFINE w == [i \in 0 .. 0 |-> p]
<1>1. Len(<<>>) = 0 /\ w \in [0 .. 0 -> States] /\ w[0] = p
  OBVIOUS
<1>2. Trace(w, <<>>)
  BY <1>1 DEF Trace
<1> QED BY <1>1, <1>2 DEF Legal

LEMMA LegalOne ==
  ASSUME NEW p \in States, NEW t \in Tokens, Good(p, t), AfterOne(p, t) \in States
  PROVE  Legal(p, <<t>>, AfterOne(p, t))
<1> DEFINE u == <<t>>
           q == AfterOne(p, t)
           w == [i \in 0 .. 1 |-> IF i = 0 THEN p ELSE q]
<1>1. Len(u) = 1 /\ u[1] = t
  OBVIOUS
<1>2. w \in [0 .. 1 -> States] /\ w[0] = p /\ w[1] = q
  OBVIOUS
<1> HIDE DEF u, w, q
<1>3. \A i \in 1 .. 1 : Good(w[i - 1], u[i]) /\ w[i] = AfterOne(w[i - 1], u[i])
  BY <1>1, <1>2 DEF q
<1>4. Trace(w, u)
  BY <1>1, <1>2, <1>3 DEF Trace
<1>5. Legal(p, u, q)
  BY <1>1, <1>2, <1>4 DEF Legal
<1> QED BY <1>5 DEF u, q

LEMMA LegalBoth ==
  ASSUME NEW u \in Seq(Tokens), NEW v \in Seq(Tokens), NEW p, NEW q, NEW r,
         Legal(p, u, q), Legal(q, v, r)
  PROVE  Legal(p, u \o v, r)
<1> DEFINE a == Len(u)
           b == Len(v)
           o == u \o v
<1>1. /\ Len(o) = a + b /\ a \in Nat /\ b \in Nat
      /\ \A i \in 1 .. a : o[i] = u[i]
      /\ \A i \in a + 1 .. a + b : o[i] = v[i - a]
  BY InConcat
<1>2. PICK w : w \in [0 .. a -> States] /\ w[0] = p /\ w[a] = q
               /\ \A i \in 1 .. a : Good(w[i - 1], u[i]) /\ w[i] = AfterOne(w[i - 1], u[i])
  BY DEF Legal, Trace
<1>3. PICK x : x \in [0 .. b -> States] /\ x[0] = q /\ x[b] = r
               /\ \A i \in 1 .. b : Good(x[i - 1], v[i]) /\ x[i] = AfterOne(x[i - 1], v[i])
  BY DEF Legal, Trace
<1> DEFINE y == [i \in 0 .. a + b |-> IF i <= a THEN w[i] ELSE x[i - a]]
<1> HIDE DEF a, b, o
<1>4. y \in [0 .. a + b -> States]
  <2>1. \A i \in 0 .. a + b : (IF i <= a THEN w[i] ELSE x[i - a]) \in States
    <3> TAKE i \in 0 .. a + b
    <3>1. CASE i <= a
      <4>1. i \in 0 .. a
        BY <3>1, <1>1
      <4> QED BY <4>1, <3>1, <1>2
    <3>2. CASE ~(i <= a)
      <4>1. i - a \in 0 .. b
        BY <3>2, <1>1
      <4> QED BY <4>1, <3>2, <1>3
    <3> QED BY <3>1, <3>2
  <2> QED BY <2>1
<1>5. /\ \A i \in 0 .. a : y[i] = w[i]
      /\ \A i \in a .. a + b : y[i] = x[i - a]
  <2>1. \A i \in 0 .. a : y[i] = w[i]
    BY <1>1
  <2>2. \A i \in a .. a + b : y[i] = x[i - a]
    <3> TAKE i \in a .. a + b
    <3>1. CASE i = a
      BY <3>1, <1>1, <1>2, <1>3
    <3>2. CASE i # a
      BY <3>2, <1>1
    <3> QED BY <3>1, <3>2
  <2> QED BY <2>1, <2>2
<1> HIDE DEF y
<1>6. ASSUME NEW i \in 1 .. a + b PROVE Good(y[i - 1], o[i]) /\ y[i] = AfterOne(y[i - 1], o[i])
  <2>1. CASE i \in 1 .. a
    <3>1. i - 1 \in 0 .. a /\ i \in 0 .. a
      BY <2>1, <1>1
    <3>2. y[i - 1] = w[i - 1] /\ y[i] = w[i] /\ o[i] = u[i]
      BY <2>1, <3>1, <1>1, <1>5
    <3> QED BY <3>2, <2>1, <1>2
  <2>2. CASE i \in a + 1 .. a + b
    <3>1. i - 1 \in a .. a + b /\ i \in a .. a + b /\ i - a \in 1 .. b /\ (i - 1) - a = (i - a) - 1
      BY <2>2, <1>1
    <3>2. y[i - 1] = x[(i - a) - 1] /\ y[i] = x[i - a] /\ o[i] = v[i - a]
      BY <2>2, <3>1, <1>1, <1>5
    <3> DEFINE k == i - a
    <3>3. k \in 1 .. b
      BY <3>1
    <3>4. Good(x[k - 1], v[k]) /\ x[k] = AfterOne(x[k - 1], v[k])
      BY <3>3, <1>3
    <3> QED BY <3>2, <3>4
  <2> QED BY <2>1, <2>2, <1>1
<1>7. y[0] = p /\ y[a + b] = r
  <2>1. 0 \in 0 .. a /\ a + b \in a .. a + b /\ (a + b) - a = b
    BY <1>1
  <2> QED BY <2>1, <1>2, <1>3, <1>5
<1>8. Trace(y, o)
  BY <1>1, <1>4, <1>6 DEF Trace
<1>9. Legal(p, o, r)
  BY <1>1, <1>7, <1>8 DEF Legal
<1> QED BY <1>9 DEF o

-----------------------------------------------------------------------------
LEMMA StateParts ==
  ASSUME NEW b \in Seq(Boundaries), NEW due \in BOOLEAN
  PROVE  /\ [open |-> b, due |-> due] \in States
         /\ [open |-> b, due |-> due].open = b /\ [open |-> b, due |-> due].due = due
BY DEF States

\* A part inside the boundary that was opened last.
LEMMA PartLegal ==
  ASSUME NEW b \in Seq(Boundaries), b # <<>>, NEW t \in Tokens, t.kind = "part", t.boundary = Last(b)
  PROVE  Legal([open |-> b, due |-> FALSE], <<t>>, [open |-> b, due |-> Announces(t)])
<1> DEFINE p == [open |-> b, due |-> FALSE]
           q == [open |-> b, due |-> Announces(t)]
<1>1. p \in States /\ q \in States /\ p.open = b /\ p.due = FALSE
  BY StateParts DEF Announces
<1>2. AfterToken(b, t) = b
  BY DEF AfterToken
<1>3. AfterOne(p, t) = q
  BY <1>1, <1>2 DEF AfterOne
<1>4. Good(p, t)
  BY <1>1 DEF Good, Fits
<1> HIDE DEF p, q
<1>5. Legal(p, <<t>>, q)
  BY <1>1, <1>3, <1>4, LegalOne
<1> QED BY <1>5 DEF p, q

\* A boundary that is not open is opened.
LEMMA OpenLegal ==
  ASSUME NEW b \in Seq(Boundaries), NEW t \in Tokens, t.kind = "open", t.boundary \notin ToSet(b)
  PROVE  Legal([open |-> b, due |-> TRUE], <<t>>, [open |-> Append(b, t.boundary), due |-> FALSE])
<1> DEFINE p == [open |-> b, due |-> TRUE]
           q == [open |-> Append(b, t.boundary), due |-> FALSE]
<1>0. Append(b, t.boundary) \in Seq(Boundaries)
  BY AppendProperties DEF Tokens
<1>1. p \in States /\ q \in States /\ p.open = b /\ p.due = TRUE
  BY <1>0, StateParts
<1>2. AfterToken(b, t) = Append(b, t.boundary)
  BY DEF AfterToken
<1>3. AfterOne(p, t) = q
  BY <1>1, <1>2 DEF AfterOne, Announces
<1>4. Good(p, t)
  BY <1>1 DEF Good, Fits
<1> HIDE DEF p, q
<1>5. Legal(p, <<t>>, q)
  BY <1>1, <1>3, <1>4, LegalOne
<1> QED BY <1>5 DEF p, q

\* The boundary that was opened last is closed.
LEMMA CloseLegal ==
  ASSUME NEW b \in Seq(Boundaries), b # <<>>, NEW c \in Seq(Boundaries), c = Front(b),
         NEW t \in Tokens, t.kind = "close", t.boundary = Last(b)
  PROVE  Legal([open |-> b, due |-> FALSE], <<t>>, [open |-> c, due |-> FALSE])
<1> DEFINE p == [open |-> b, due |-> FALSE]
           q == [open |-> c, due |-> FALSE]
<1>1. p \in States /\ q \in States /\ p.open = b /\ p.due = FALSE
  BY StateParts
<1>2. AfterToken(b, t) = c
  BY DEF AfterToken
<1>3. AfterOne(p, t) = q
  BY <1>1, <1>2 DEF AfterOne, Announces
<1>4. Good(p, t)
  BY <1>1 DEF Good, Fits
<1> HIDE DEF p, q
<1>5. Legal(p, <<t>>, q)
  BY <1>1, <1>3, <1>4, LegalOne
<1> QED BY <1>5 DEF p, q

\* The last boundary of a list and the list without it.
LEMMA LastOfAppend ==
  ASSUME NEW S, NEW b \in Seq(S), NEW e \in S
  PROVE  /\ Append(b, e) \in Seq(S) /\ Append(b, e) # <<>> /\ Last(Append(b, e)) = e
         /\ Front(Append(b, e)) = b
<1> DEFINE n == Len(b)
           c == Append(b, e)
<1>1. /\ c \in Seq(S) /\ c # <<>> /\ Len(c) = n + 1 /\ n \in Nat
      /\ \A i \in 1 .. n : c[i] = b[i]
      /\ c[n + 1] = e
  BY AppendProperties, LenProperties
<1> HIDE DEF c
<1>2. Last(c) = e
  BY <1>1 DEF Last
<1>3. Front(c) = SubSeq(c, 1, n)
  BY <1>1 DEF Front
<1>4. \A i \in 1 .. n : c[i] \in S
  BY <1>1, ElementOfSeq DEF n
<1> HIDE DEF n
<1>5. /\ SubSeq(c, 1, n) \in Seq(S) /\ Len(SubSeq(c, 1, n)) = IF 1 <= n THEN n - 1 + 1 ELSE 0
      /\ \A i \in 1 .. n - 1 + 1 : SubSeq(c, 1, n)[i] = c[1 + i - 1]
  BY <1>1, <1>4, SubSeqProperties
<1> DEFINE d == SubSeq(c, 1, n)
<1>6. d \in Seq(S) /\ Len(d) = n /\ \A i \in 1 .. n : d[i] = c[i]
  BY <1>1, <1>5
<1> HIDE DEF d
<1>7. d = b
  <2>1. Len(d) = Len(b) /\ \A i \in 1 .. Len(d) : d[i] = b[i]
    BY <1>1, <1>6 DEF n
  <2> QED BY <2>1, <1>6, SeqEqual
<1> QED BY <1>1, <1>2, <1>3, <1>7 DEF c, d

-----------------------------------------------------------------------------
\* The boundaries that are open are those of the calls.
LEMMA NestedKnown ==
  ASSUME NEW calling, NEW depth \in Nat, \A s \in 1 .. depth : calling[s].msg \in Nat
  PROVE  /\ NestedIn(calling, depth) \in Seq(Boundaries) /\ Len(NestedIn(calling, depth)) = depth
         /\ \A s \in 1 .. depth : /\ NestedIn(calling, depth)[s] = Boundary(calling[s].msg, FALSE)
                                  /\ NestedIn(calling, depth)[s].msg = calling[s].msg
                                  /\ NestedIn(calling, depth)[s].alt = FALSE
<1> DEFINE b == NestedIn(calling, depth)
<1>1. \A s \in 1 .. depth : /\ Boundary(calling[s].msg, FALSE) \in Boundaries
                            /\ Boundary(calling[s].msg, FALSE).msg = calling[s].msg
                            /\ Boundary(calling[s].msg, FALSE).alt = FALSE
  BY BoundaryType
<1>2. b \in [1 .. depth -> Boundaries] /\ \A s \in 1 .. depth : b[s] = Boundary(calling[s].msg, FALSE)
  BY <1>1 DEF NestedIn
<1> HIDE DEF b
<1>3. b \in Seq(Boundaries)
  BY <1>2, SeqDef
<1>4. Len(b) = depth
  <2>1. DOMAIN b = 1 .. depth /\ Len(b) \in Nat /\ DOMAIN b = 1 .. Len(b)
    BY <1>2, <1>3, LenProperties
  <2> QED BY <2>1
<1> QED BY <1>1, <1>2, <1>3, <1>4 DEF b

LEMMA NoneNested == \A calling : NestedIn(calling, 0) = <<>>
<1> TAKE calling
<1> DEFINE b == NestedIn(calling, 0)
<1>1. \A s \in 1 .. 0 : calling[s].msg \in Nat
  OBVIOUS
<1>2. b \in Seq(Boundaries) /\ Len(b) = 0
  BY <1>1, NestedKnown
<1> HIDE DEF b
<1>3. b = <<>>
  BY <1>2, EmptySeq
<1> QED BY <1>3 DEF b

LEMMA SameNested ==
  ASSUME NEW calling, NEW others, NEW depth, \A s \in 1 .. depth : calling[s].msg = others[s].msg
  PROVE  NestedIn(calling, depth) = NestedIn(others, depth)
BY DEF NestedIn

\* The state of the structure while a call runs.
LEMMA NowKnown ==
  ASSUME MailTypes, stack # <<>>
  PROVE  LET n == Len(stack)
         IN /\ n \in Nat \ {0} /\ DOMAIN stack = 1 .. n /\ \A s \in 1 .. n : stack[s].msg \in Nat
            /\ Top = stack[n]
            /\ NestedIn(stack, n) \in Seq(Boundaries) /\ NestedIn(stack, n) # <<>>
            /\ Last(NestedIn(stack, n)) = MainBoundary
            /\ NestedIn(stack, n - 1) \in Seq(Boundaries)
            /\ NestedIn(stack, n) = Append(NestedIn(stack, n - 1), MainBoundary)
            /\ Front(NestedIn(stack, n)) = NestedIn(stack, n - 1)
            /\ \A s \in 1 .. n : NestedIn(stack, n)[s].alt = FALSE
            /\ DeeperLater => MainBoundary \notin ToSet(NestedIn(stack, n - 1))
<1> DEFINE n == Len(stack)
           b == NestedIn(stack, n)
           c == NestedIn(stack, n - 1)
           main == MainBoundary
<1>1. n \in Nat \ {0} /\ DOMAIN stack = 1 .. n /\ Top = stack[n] /\ \A s \in 1 .. n : stack[s] \in Frames
  BY TopKnown, ElementOfSeq DEF MailTypes
<1>2. \A s \in 1 .. n : stack[s].msg \in Nat
  BY <1>1 DEF Frames
<1>3. /\ b \in Seq(Boundaries) /\ Len(b) = n
      /\ \A s \in 1 .. n : b[s] = Boundary(stack[s].msg, FALSE) /\ b[s].alt = FALSE
  BY <1>1, <1>2, NestedKnown
<1>4. /\ c \in Seq(Boundaries) /\ Len(c) = n - 1
      /\ \A s \in 1 .. n - 1 : c[s] = Boundary(stack[s].msg, FALSE) /\ c[s].msg = stack[s].msg
  <2>1. n - 1 \in Nat /\ \A s \in 1 .. n - 1 : stack[s].msg \in Nat
    BY <1>1, <1>2
  <2> QED BY <2>1, NestedKnown
<1>5. main = Boundary(stack[n].msg, FALSE) /\ main \in Boundaries /\ main.msg = stack[n].msg
  BY <1>1, MainType DEF MainBoundary
<1>6. DeeperLater => \A s \in 1 .. n - 1 : stack[s].msg < stack[n].msg
  BY <1>1 DEF DeeperLater
<1> HIDE DEF n, b, c, main
<1>7. b = Append(c, main)
  <2> DEFINE d == Append(c, main)
  <2>1. /\ d \in Seq(Boundaries) /\ Len(d) = n
        /\ \A s \in 1 .. n - 1 : d[s] = c[s]
        /\ d[n] = main
    <3>0. c \in Seq(Boundaries) /\ main \in Boundaries
      BY <1>4, <1>5
    <3>1. /\ d \in Seq(Boundaries) /\ Len(d) = Len(c) + 1
          /\ \A s \in 1 .. Len(c) : d[s] = c[s]
          /\ d[Len(c) + 1] = main
      BY <3>0, AppendProperties
    <3>2. Len(c) + 1 = n
      BY <1>1, <1>4
    <3> HIDE DEF d
    <3> QED BY <3>1, <3>2, <1>4
  <2> HIDE DEF d
  <2>2. \A s \in 1 .. n : b[s] = d[s]
    <3> TAKE s \in 1 .. n
    <3>1. CASE s = n
      BY <3>1, <2>1, <1>1, <1>3, <1>5
    <3>2. CASE s # n
      <4>1. s \in 1 .. n - 1
        BY <3>2, <1>1
      <4> QED BY <4>1, <2>1, <1>3, <1>4
    <3> QED BY <3>1, <3>2
  <2>3. b = d
    BY <2>1, <2>2, <1>3, SeqEqual
  <2> QED BY <2>3 DEF d
<1>8. b # <<>> /\ Last(b) = main /\ Front(b) = c
  BY <1>4, <1>5, <1>7, LastOfAppend
<1>9. DeeperLater => main \notin ToSet(c)
  <2> SUFFICES ASSUME DeeperLater, NEW s \in DOMAIN c, c[s] = main PROVE FALSE
    BY DEF ToSet
  <2>1. s \in 1 .. n - 1
    BY <1>4, LenProperties
  <2>2. stack[s].msg < stack[n].msg /\ stack[s].msg = stack[n].msg
    BY <2>1, <1>4, <1>5, <1>6
  <2>3. stack[s].msg \in Nat /\ stack[n].msg \in Nat
    BY <2>1, <1>1, <1>2
  <2> QED BY <2>2, <2>3
<1> QED BY <1>1, <1>2, <1>3, <1>4, <1>7, <1>8, <1>9 DEF n, b, c, main

-----------------------------------------------------------------------------
\* A list of tokens that is written or not leads back to the same state.
LEMMA PartsLegal ==
  ASSUME NEW p \in States
  PROVE  \A t : \A present : (present => Legal(p, t, p)) => Legal(p, Parts(present, t), p)
<1> TAKE t
<1> TAKE present
<1> SUFFICES ASSUME present => Legal(p, t, p) PROVE Legal(p, Parts(present, t), p)
  OBVIOUS
<1>1. CASE present
  BY <1>1 DEF Parts
<1>2. CASE ~present
  <2>1. Parts(present, t) = <<>>
    BY <1>2 DEF Parts
  <2> QED BY <2>1, LegalNone
<1> QED BY <1>1, <1>2

LEMMA TwoTokens == \A e, f \in Tokens : <<e, f>> = <<e>> \o <<f>>
<1> TAKE e, f \in Tokens
<1> DEFINE a == <<e>>
           b == <<f>>
           c == <<e, f>>
<1>1. /\ a \in Seq(Tokens) /\ Len(a) = 1 /\ a[1] = e
      /\ b \in Seq(Tokens) /\ Len(b) = 1 /\ b[1] = f
  OBVIOUS
<1>2. c \in Seq(Tokens) /\ Len(c) = 2 /\ c[1] = e /\ c[2] = f
  OBVIOUS
<1> HIDE DEF a, b, c
<1>3. /\ a \o b \in Seq(Tokens) /\ Len(a \o b) = 2
      /\ \A i \in 1 .. 1 : (a \o b)[i] = a[i]
      /\ \A i \in 1 .. 1 : (a \o b)[1 + i] = b[i]
  BY <1>1, InConcat
<1>4. \A i \in 1 .. 2 : c[i] = (a \o b)[i]
  <2>1. (a \o b)[1] = e /\ (a \o b)[2] = f
    <3>1. (a \o b)[1 + 1] = b[1]
      BY <1>3
    <3> QED BY <3>1, <1>1, <1>3
  <2> DEFINE ab == a \o b
  <2>2. ab[1] = c[1] /\ ab[2] = c[2]
    BY <2>1, <1>2
  <2>3. \A i \in 1 .. 2 : i = 1 \/ i = 2
    OBVIOUS
  <2> HIDE DEF ab
  <2>4. \A i \in 1 .. 2 : c[i] = ab[i]
    BY <2>2, <2>3
  <2> QED BY <2>4 DEF ab
<1>5. c = a \o b
  BY <1>2, <1>3, <1>4, SeqEqual
<1> QED BY <1>5 DEF a, b, c

\* The bodies are written inside the boundary of the message, and the plain
\* and the HTML one inside one of their own, which is closed again.
LEMMA BodiesLegal ==
  ASSUME MailTypes, stack # <<>>, NEW b \in Seq(Boundaries), b # <<>>, Last(b) = MainBoundary,
         \A s \in DOMAIN b : b[s].alt = FALSE
  PROVE  Legal([open |-> b, due |-> FALSE], BodyParts(Message) \o ScheduleParts(Message),
               [open |-> b, due |-> FALSE])
<1> DEFINE m == Message
           main == MainBoundary
           both == m.body /\ m.html
           inner == Boundary(Top.msg, both)
           t1 == Token("part", main, "report", 0)
           t2 == Token("part", main, "multipart", 0)
           t3 == Token("open", inner, "alternative", 0)
           t4 == Token("part", inner, "plain", 0)
           t5 == Token("part", inner, "html", 0)
           t6 == Token("close", inner, "alternative", 0)
           t7 == Token("part", main, "calendar", 1)
           t8 == Token("part", main, "calendar", 2)
           q1 == m.type = "REPORT" /\ m.report
           q6 == m.type = "SCHEDULE" /\ m.appointment
           l1 == <<t1>>
           l2 == <<t2, t3>>
           l3 == <<t4>>
           l4 == <<t5>>
           l5 == <<t6>>
           l6 == <<t7, t8>>
           p == [open |-> b, due |-> FALSE]
           d == Append(b, inner)
           r == [open |-> d, due |-> FALSE]
<1>1. /\ main \in Boundaries /\ inner \in Boundaries /\ inner.alt = both /\ both \in BOOLEAN
      /\ ~both => inner = main
      /\ m.body \in BOOLEAN /\ m.html \in BOOLEAN
  <2>1. Top.msg \in Nat /\ Message \in MessageTypes
    BY HeadedFits, MessageKnown DEF Frames, Message, MailTypes
  <2>2. both \in BOOLEAN /\ m.body \in BOOLEAN /\ m.html \in BOOLEAN
    BY <2>1 DEF MessageTypes
  <2>3. ~both => inner = main
    BY <2>2 DEF MainBoundary
  <2> HIDE DEF both, m
  <2> QED BY <2>1, <2>2, <2>3, MainType, BoundaryType
<1>2. both <=> m.body /\ m.html
  OBVIOUS
<1> HIDE DEF main, inner
<1>3. /\ {t1, t2, t3, t4, t5, t6, t7, t8} \subseteq Tokens
      /\ {t1.kind, t2.kind, t4.kind, t5.kind, t7.kind, t8.kind} = {"part"} /\ t3.kind = "open" /\ t6.kind = "close"
      /\ {t1.boundary, t2.boundary, t7.boundary, t8.boundary} = {main}
      /\ {t3.boundary, t4.boundary, t5.boundary, t6.boundary} = {inner}
      /\ t1.what = "report" /\ t2.what = "multipart" /\ t4.what = "plain" /\ t5.what = "html"
      /\ t7.what = "calendar" /\ t8.what = "calendar"
  <2>0. /\ {"report", "multipart", "alternative", "plain", "html", "calendar"} \subseteq Whats
        /\ {0, 1, 2} \subseteq Int
    BY DEF Whats
  <2>1. t1 \in Tokens /\ t1.kind = "part" /\ t1.boundary = main /\ t1.what = "report"
    BY <1>1, <2>0, TokenType
  <2>2. t2 \in Tokens /\ t2.kind = "part" /\ t2.boundary = main /\ t2.what = "multipart"
    BY <1>1, <2>0, TokenType
  <2>3. t3 \in Tokens /\ t3.kind = "open" /\ t3.boundary = inner
    BY <1>1, <2>0, TokenType
  <2>4. t4 \in Tokens /\ t4.kind = "part" /\ t4.boundary = inner /\ t4.what = "plain"
    BY <1>1, <2>0, TokenType
  <2>5. t5 \in Tokens /\ t5.kind = "part" /\ t5.boundary = inner /\ t5.what = "html"
    BY <1>1, <2>0, TokenType
  <2>6. t6 \in Tokens /\ t6.kind = "close" /\ t6.boundary = inner
    BY <1>1, <2>0, TokenType
  <2>7. t7 \in Tokens /\ t7.kind = "part" /\ t7.boundary = main /\ t7.what = "calendar"
    BY <1>1, <2>0, TokenType
  <2>8. t8 \in Tokens /\ t8.kind = "part" /\ t8.boundary = main /\ t8.what = "calendar"
    BY <1>1, <2>0, TokenType
  <2> HIDE DEF t1, t2, t3, t4, t5, t6, t7, t8
  <2> QED BY <2>1, <2>2, <2>3, <2>4, <2>5, <2>6, <2>7, <2>8
<1>4. BodyParts(Message) = Parts(q1, l1) \o Parts(both, l2) \o Parts(m.body, l3) \o Parts(m.html, l4) \o Parts(both, l5)
      /\ ScheduleParts(Message) = Parts(q6, l6)
  BY DEF BodyParts, ScheduleParts, main, inner
<1> HIDE DEF m, both, t1, t2, t3, t4, t5, t6, t7, t8, q1, q6
<1>5. /\ l1 \in Seq(Tokens) /\ l2 \in Seq(Tokens) /\ l3 \in Seq(Tokens)
      /\ l4 \in Seq(Tokens) /\ l5 \in Seq(Tokens) /\ l6 \in Seq(Tokens)
      /\ <<t2>> \in Seq(Tokens) /\ <<t3>> \in Seq(Tokens) /\ <<t7>> \in Seq(Tokens) /\ <<t8>> \in Seq(Tokens)
  BY <1>3
<1>6. l2 = <<t2>> \o <<t3>> /\ l6 = <<t7>> \o <<t8>>
  BY <1>3, TwoTokens
<1> HIDE DEF l1, l2, l3, l4, l5, l6
<1>7. /\ ~Announces(t1) /\ Announces(t2) /\ ~Announces(t4) /\ ~Announces(t5) /\ ~Announces(t7) /\ ~Announces(t8)
  BY <1>3 DEF Announces
<1>8. Announces(t1) = FALSE /\ Announces(t2) = TRUE /\ Announces(t4) = FALSE /\ Announces(t5) = FALSE
      /\ Announces(t7) = FALSE /\ Announces(t8) = FALSE
  BY <1>7 DEF Announces
<1>9. p \in States
  BY StateParts
<1>10. Legal(p, l1, p) /\ Legal(p, <<t7>>, p) /\ Legal(p, <<t8>>, p)
  <2>1. t1 \in Tokens /\ t7 \in Tokens /\ t8 \in Tokens /\ t1.kind = "part" /\ t7.kind = "part" /\ t8.kind = "part"
        /\ t1.boundary = Last(b) /\ t7.boundary = Last(b) /\ t8.boundary = Last(b)
    BY <1>3 DEF main
  <2> QED BY <2>1, <1>8, PartLegal DEF l1
<1>11. Legal(p, l6, p)
  BY <1>5, <1>6, <1>10, LegalBoth
<1>12. ASSUME ~both PROVE Legal(p, l3, p) /\ Legal(p, l4, p)
  <2>1. t4 \in Tokens /\ t5 \in Tokens /\ t4.kind = "part" /\ t5.kind = "part"
        /\ t4.boundary = Last(b) /\ t5.boundary = Last(b)
    BY <1>1, <1>3, <1>12 DEF main
  <2> QED BY <2>1, <1>8, PartLegal DEF l3, l4
<1>13. ASSUME both PROVE Legal(p, l2, r) /\ Legal(r, l3, r) /\ Legal(r, l4, r) /\ Legal(r, l5, p)
  <2>1. d \in Seq(Boundaries) /\ d # <<>> /\ Last(d) = inner /\ Front(d) = b
    BY <1>1, LastOfAppend
  <2>2. inner \notin ToSet(b)
    BY <1>1, <1>13 DEF ToSet
  <2> HIDE DEF d
  <2>3. Legal(p, <<t2>>, [open |-> b, due |-> TRUE])
    <3>1. t2 \in Tokens /\ t2.kind = "part" /\ t2.boundary = Last(b)
      BY <1>3 DEF main
    <3> QED BY <3>1, <1>8, PartLegal
  <2>4. Legal([open |-> b, due |-> TRUE], <<t3>>, r)
    <3>1. t3 \in Tokens /\ t3.kind = "open" /\ t3.boundary = inner
      BY <1>3
    <3> QED BY <3>1, <2>2, OpenLegal DEF d
  <2>5. Legal(p, l2, r)
    BY <2>3, <2>4, <1>5, <1>6, LegalBoth
  <2>6. Legal(r, l3, r) /\ Legal(r, l4, r)
    <3>1. t4 \in Tokens /\ t5 \in Tokens /\ t4.kind = "part" /\ t5.kind = "part"
          /\ t4.boundary = Last(d) /\ t5.boundary = Last(d)
      BY <1>3, <2>1
    <3> QED BY <3>1, <2>1, <1>8, PartLegal DEF l3, l4
  <2>7. Legal(r, l5, p)
    <3>1. t6 \in Tokens /\ t6.kind = "close" /\ t6.boundary = Last(d)
      BY <1>3, <2>1
    <3> QED BY <3>1, <2>1, CloseLegal DEF l5
  <2> QED BY <2>5, <2>6, <2>7
<1> HIDE DEF p, r
<1> DEFINE u1 == Parts(q1, l1)
           u2 == Parts(both, l2)
           u3 == Parts(m.body, l3)
           u4 == Parts(m.html, l4)
           u5 == Parts(both, l5)
           u6 == Parts(q6, l6)
<1>14. /\ u1 \in Seq(Tokens) /\ u2 \in Seq(Tokens) /\ u3 \in Seq(Tokens)
       /\ u4 \in Seq(Tokens) /\ u5 \in Seq(Tokens) /\ u6 \in Seq(Tokens)
  BY <1>5, PartsIn
<1>15. u1 \o u2 \in Seq(Tokens) /\ u1 \o u2 \o u3 \in Seq(Tokens)
       /\ u1 \o u2 \o u3 \o u4 \in Seq(Tokens)
       /\ u1 \o u2 \o u3 \o u4 \o u5 \in Seq(Tokens)
  <2> HIDE DEF u1, u2, u3, u4, u5
  <2>1. u1 \o u2 \in Seq(Tokens)
    BY <1>14, ConcatProperties
  <2>2. u1 \o u2 \o u3 \in Seq(Tokens)
    BY <2>1, <1>14, ConcatProperties
  <2>3. u1 \o u2 \o u3 \o u4 \in Seq(Tokens)
    BY <2>2, <1>14, ConcatProperties
  <2>4. u1 \o u2 \o u3 \o u4 \o u5 \in Seq(Tokens)
    BY <2>3, <1>14, ConcatProperties
  <2> QED BY <2>1, <2>2, <2>3, <2>4
<1>16. Legal(p, u1, p) /\ Legal(p, u6, p)
  BY <1>9, <1>10, <1>11, PartsLegal
<1>17. Legal(p, u1 \o u2 \o u3 \o u4 \o u5, p)
  <2>1. CASE both
    <3>1. u2 = l2 /\ u3 = l3 /\ u4 = l4 /\ u5 = l5
      BY <2>1, <1>2 DEF Parts
    <3>2. Legal(p, u2, r) /\ Legal(r, u3, r) /\ Legal(r, u4, r) /\ Legal(r, u5, p)
      BY <2>1, <3>1, <1>13
    <3> HIDE DEF u1, u2, u3, u4, u5
    <3>3. Legal(p, u1 \o u2, r)
      BY <1>14, <1>16, <3>2, LegalBoth
    <3>4. Legal(p, u1 \o u2 \o u3, r)
      BY <1>14, <1>15, <3>2, <3>3, LegalBoth
    <3>5. Legal(p, u1 \o u2 \o u3 \o u4, r)
      BY <1>14, <1>15, <3>2, <3>4, LegalBoth
    <3> QED BY <1>14, <1>15, <3>2, <3>5, LegalBoth
  <2>2. CASE ~both
    <3>1. Legal(p, u2, p) /\ Legal(p, u3, p) /\ Legal(p, u4, p) /\ Legal(p, u5, p)
      BY <2>2, <1>9, <1>12, PartsLegal
    <3> HIDE DEF u1, u2, u3, u4, u5
    <3>3. Legal(p, u1 \o u2, p)
      BY <1>14, <1>16, <3>1, LegalBoth
    <3>4. Legal(p, u1 \o u2 \o u3, p)
      BY <1>14, <1>15, <3>1, <3>3, LegalBoth
    <3>5. Legal(p, u1 \o u2 \o u3 \o u4, p)
      BY <1>14, <1>15, <3>1, <3>4, LegalBoth
    <3> QED BY <1>14, <1>15, <3>1, <3>5, LegalBoth
  <2> QED BY <2>1, <2>2
<1>18. BodyParts(Message) = u1 \o u2 \o u3 \o u4 \o u5 /\ ScheduleParts(Message) = u6
  BY <1>4
<1> HIDE DEF u1, u2, u3, u4, u5, u6
<1>19. Legal(p, BodyParts(Message) \o ScheduleParts(Message), p)
  BY <1>14, <1>15, <1>16, <1>17, <1>18, LegalBoth
<1> QED BY <1>19 DEF p

-----------------------------------------------------------------------------
\* A call that goes on has the same boundaries.
LEMMA ReplacedNested ==
  ASSUME MailTypes, stack # <<>>, NEW frame \in Frames, frame.msg = Top.msg, stack' = Replace(frame)
  PROVE  /\ Len(stack') = Len(stack) /\ stack' # <<>> /\ Top' = frame
         /\ NestedIn(stack', Len(stack)) = NestedIn(stack, Len(stack))
         /\ DeeperLater => DeeperLater'
<1>1. /\ stack \in Seq(Frames) /\ DOMAIN stack = 1 .. Len(stack) /\ Len(stack) \in Nat \ {0}
      /\ Top = stack[Len(stack)]
  BY TopKnown DEF MailTypes
<1>2. /\ stack' \in Seq(Frames) /\ Len(stack') = Len(stack) /\ DOMAIN stack' = DOMAIN stack
      /\ \A s \in 1 .. Len(stack) - 1 : stack'[s] = stack[s]
      /\ stack'[Len(stack)] = frame
  BY <1>1, ReplaceKnown
<1>0. \A m \in Nat : \A s \in 1 .. m : s = m \/ s \in 1 .. m - 1
  OBVIOUS
<1>3. \A s \in 1 .. Len(stack) : stack'[s].msg = stack[s].msg
  <2> TAKE s \in 1 .. Len(stack)
  <2>1. CASE s = Len(stack)
    BY <2>1, <1>1, <1>2
  <2>2. CASE s \in 1 .. Len(stack) - 1
    BY <2>2, <1>2
  <2>3. s = Len(stack) \/ s \in 1 .. Len(stack) - 1
    BY <1>0, <1>1
  <2> QED BY <2>1, <2>2, <2>3
<1>4. stack' # <<>> /\ Top' = frame
  BY <1>1, <1>2, EmptySeq DEF Top
<1>5. NestedIn(stack', Len(stack)) = NestedIn(stack, Len(stack))
  BY <1>3, SameNested
<1>6. DeeperLater => DeeperLater'
  BY <1>1, <1>2, <1>3 DEF DeeperLater
<1> QED BY <1>2, <1>4, <1>5, <1>6

\* Tokens that lead on from where the mail file is.
LEMMA LegalGoesOn ==
  ASSUME MimeKept, NEW u \in Seq(Tokens), NEW q, Legal(Now, u, q)
  PROVE  out \o u \in Seq(Tokens) /\ Legal(Nothing, out \o u, q)
BY LegalBoth, ConcatProperties DEF MimeKept

LEMMA InitMimeKept == MailInit => MimeKept
<1> SUFFICES ASSUME MailInit PROVE MimeKept
  OBVIOUS
<1>1. PICK how \in WriteModes : stack = <<Frame(1, 1, how)>>
  BY DEF MailInit
<1> DEFINE frame == Frame(1, 1, how)
<1>2. frame \in Frames /\ frame.pc = "headers"
  BY FrameType DEF Hows
<1> HIDE DEF frame
<1>3. stack = <<frame>>
  BY <1>1 DEF frame
<1>4. DOMAIN stack = {1} /\ stack[1] = frame /\ Len(stack) = 1 /\ stack # <<>>
  BY <1>3
<1>5. AtStep("headers") /\ Depth = 0
  BY <1>2, <1>4 DEF AtStep, Top, Depth
<1>6. NestedIn(stack, 0) = <<>>
  BY NoneNested
<1>7. Now = Nothing
  BY <1>5, <1>6 DEF Now, Nothing, AtStep
<1>8. Nothing \in States
  BY StateParts, EmptySeq DEF Nothing
<1>9. out = <<>> /\ given = <<>> /\ out \in Seq(Tokens)
  BY DEF MailInit
<1>10. Legal(Nothing, out, Now)
  BY <1>7, <1>8, <1>9, LegalNone
<1>11. DeeperLater
  BY <1>4 DEF DeeperLater
<1> QED BY <1>9, <1>10, <1>11 DEF MimeKept, HeadersComplete

\* What the headers of a message have together.
LEMMA CreatedComplete ==
  \A fields, m :
    /\ (fields \ StripFields) \cap Created(fields, m) = {}
    /\ {"From", "Subject", "MIME-Version", "Content-Type"} \subseteq (fields \ StripFields) \cup Created(fields, m)
BY DEF Created, StripFields

LEMMA HeadersMime ==
  ASSUME MailTypes, MimeKept, OwnHeaders \/ BorrowHeaders \/ NoHeaders
  PROVE  MimeKept'
<1>1. stack # <<>> /\ AtStep("headers")
  BY HeadersSteps
<1>2. PICK source \in {"own", "extra", "none"}, chunk \in Nat, fields \in SUBSET STRING, x \in Extras :
        UseHeaders(source, chunk, fields, x)
  BY HeadersSteps
<1> DEFINE t == Token("open", MainBoundary, "mail", 0)
           frame == [Top EXCEPT !.pc = "bodies"]
           n == Len(stack)
           b == NestedIn(stack, n - 1)
           old == given
           new == given'
<1>3. /\ stack' = Replace(frame) /\ out' = Append(out, t)
  BY <1>2 DEF UseHeaders
<1>4. frame \in Frames /\ frame.msg = Top.msg /\ frame.pc = "bodies"
  BY <1>1, HeadedFits
<1>5. t \in Tokens /\ t.kind = "open" /\ t.boundary = MainBoundary
  <2>1. "mail" \in Whats
    BY DEF Whats
  <2>2. MainBoundary \in Boundaries
    BY <1>1, MainType
  <2> QED BY <1>1, <2>1, <2>2, TokenType
<1>6. /\ n \in Nat \ {0} /\ b \in Seq(Boundaries) /\ MainBoundary \notin ToSet(b)
      /\ NestedIn(stack, n) = Append(b, MainBoundary)
  BY <1>1, NowKnown DEF MimeKept
<1>7. Now = [open |-> b, due |-> TRUE]
  BY <1>1 DEF Now, Depth, AtStep
<1> HIDE DEF frame
<1>8. /\ Len(stack') = n /\ Top'.pc = "bodies" /\ DeeperLater'
      /\ NestedIn(stack', n) = NestedIn(stack, n)
  BY <1>1, <1>3, <1>4, ReplacedNested DEF MimeKept
<1>9. Now' = [open |-> Append(b, MainBoundary), due |-> FALSE]
  <2>1. AtStep("headers")' = FALSE
    BY <1>8 DEF AtStep
  <2>2. Depth' = n
    BY <2>1, <1>8 DEF Depth
  <2> QED BY <2>1, <2>2, <1>6, <1>8 DEF Now
<1> HIDE DEF t, b
<1>10. Legal(Now, <<t>>, Now')
  BY <1>5, <1>6, <1>7, <1>9, OpenLegal
<1>11. <<t>> \in Seq(Tokens) /\ out' = out \o <<t>>
  BY <1>3, <1>5, OneToken DEF MimeKept
<1>12. out' \in Seq(Tokens) /\ Legal(Nothing, out', Now')
  BY <1>10, <1>11, LegalGoesOn
<1>13. HeadersComplete'
  <2>1. /\ Len(old) \in Nat /\ DOMAIN old = 1 .. Len(old) /\ DOMAIN new = 1 .. Len(old) + 1
        /\ \A j \in 1 .. Len(old) : new[j] = old[j]
        /\ new[Len(old) + 1].copied = fields \ StripFields
        /\ new[Len(old) + 1].created = Created(fields, Message)
    BY <1>1, <1>2, UseKnown
  <2> HIDE DEF old, new
  <2>2. \A j \in DOMAIN new : (j \in DOMAIN old /\ new[j] = old[j]) \/ j = Len(old) + 1
    BY <2>1
  <2>3. ASSUME NEW j \in DOMAIN new
        PROVE  /\ new[j].copied \cap new[j].created = {}
               /\ {"From", "Subject", "MIME-Version", "Content-Type"} \subseteq new[j].copied \cup new[j].created
    <3>1. CASE j \in DOMAIN old /\ new[j] = old[j]
      BY <3>1 DEF MimeKept, HeadersComplete, old
    <3>2. CASE j = Len(old) + 1
      BY <3>2, <2>1, CreatedComplete
    <3> QED BY <3>1, <3>2, <2>2
  <2> QED BY <2>3 DEF HeadersComplete, new
<1> QED BY <1>8, <1>12, <1>13 DEF MimeKept

\* A step that stays in the message and in the state of the structure.
LEMMA StaysMime ==
  ASSUME MailTypes, MimeKept, stack # <<>>, Top.pc # "headers",
         NEW frame \in Frames, frame.msg = Top.msg, frame.pc # "headers", stack' = Replace(frame),
         NEW u \in Seq(Tokens), out' = out \o u, given' = given,
         LET p == [open |-> NestedIn(stack, Len(stack)), due |-> FALSE] IN Legal(p, u, p)
  PROVE  MimeKept'
<1>1. /\ Len(stack') = Len(stack) /\ Top' = frame /\ stack' # <<>> /\ DeeperLater'
      /\ NestedIn(stack', Len(stack)) = NestedIn(stack, Len(stack))
  BY ReplacedNested DEF MimeKept
<1>2. Now = [open |-> NestedIn(stack, Len(stack)), due |-> FALSE]
  BY DEF Now, Depth, AtStep
<1>3. Now' = Now
  <2>1. AtStep("headers")' = FALSE /\ AtStep("headers") = FALSE
    BY <1>1 DEF AtStep
  <2>2. Depth' = Len(stack) /\ Depth = Len(stack)
    BY <2>1, <1>1 DEF Depth
  <2> QED BY <2>1, <2>2, <1>1 DEF Now
<1>4. out' \in Seq(Tokens) /\ Legal(Nothing, out', Now')
  BY <1>2, <1>3, LegalGoesOn
<1> QED BY <1>1, <1>4 DEF MimeKept, HeadersComplete

LEMMA BodiesMime ==
  ASSUME MailTypes, MimeKept, WriteBodies
  PROVE  MimeKept'
<1> DEFINE u == BodyParts(Message) \o ScheduleParts(Message)
           b == NestedIn(stack, Len(stack))
<1>1. /\ stack # <<>> /\ stack' = Replace(BodiesFrame) /\ BodiesFrame \in Frames
      /\ BodiesFrame.msg = Top.msg /\ BodiesFrame.pc = "attachments" /\ Top.pc = "bodies"
  BY BodiesFits
<1>2. /\ out' = out \o BodyParts(Message) \o ScheduleParts(Message) /\ given' = given
  BY DEF WriteBodies
<1>3. BodyParts(Message) \in Seq(Tokens) /\ ScheduleParts(Message) \in Seq(Tokens)
  <2>1. BodyParts(Message) \in Seq(Quiet(Top.item)) /\ ScheduleParts(Message) \in Seq(Quiet(Top.item))
    BY <1>1, BodiesQuiet
  <2>2. Quiet(Top.item) \subseteq Tokens
    BY DEF Quiet
  <2> QED BY <2>1, <2>2, SeqMonotonic
<1>4. u \in Seq(Tokens)
  BY <1>3, ConcatProperties
<1>5. out' = out \o u
  BY <1>2, <1>3, ConcatAssociative DEF MimeKept
<1>6. /\ b \in Seq(Boundaries) /\ b # <<>> /\ Last(b) = MainBoundary
      /\ \A s \in DOMAIN b : b[s].alt = FALSE
  <2>1. /\ b \in Seq(Boundaries) /\ b # <<>> /\ Last(b) = MainBoundary
        /\ \A s \in 1 .. Len(stack) : b[s].alt = FALSE
    BY <1>1, NowKnown
  <2>2. DOMAIN b = 1 .. Len(stack)
    BY DEF NestedIn
  <2> QED BY <2>1, <2>2
<1> HIDE DEF b
<1>7. Legal([open |-> b, due |-> FALSE], u, [open |-> b, due |-> FALSE])
  BY <1>1, <1>6, BodiesLegal
<1> HIDE DEF u
<1> QED BY <1>1, <1>2, <1>4, <1>5, <1>7, StaysMime DEF b

LEMMA PassesMime ==
  ASSUME MailTypes, MimeKept, Passes
  PROVE  MimeKept'
<1>1. AttachLeft /\ given' = given
  BY PassesFits
<1>2. PICK num \in Nat : /\ [Advanced EXCEPT !.num = num] \in Frames
                         /\ stack' = Replace([Advanced EXCEPT !.num = num])
  BY PassesFits
<1> DEFINE frame == [Advanced EXCEPT !.num = num]
           t == Token("part", MainBoundary, "attachment", Next1.n)
           b == NestedIn(stack, Len(stack))
           p == [open |-> b, due |-> FALSE]
<1>3. /\ stack # <<>> /\ Top.pc = "attachments" /\ frame.msg = Top.msg /\ frame.pc = "attachments"
      /\ Next1 \in Attachments
  BY <1>1, AdvancedKnown DEF Frames
<1>4. b \in Seq(Boundaries) /\ b # <<>> /\ Last(b) = MainBoundary
  BY <1>3, NowKnown
<1>5. t \in Tokens /\ t.kind = "part" /\ t.boundary = MainBoundary /\ t.what = "attachment"
  <2>1. "attachment" \in Whats /\ Next1.n \in Int
    BY <1>3 DEF Whats, Attachments
  <2>2. MainBoundary \in Boundaries
    BY <1>3, MainType
  <2> QED BY <1>3, <2>1, <2>2, TokenType
<1>6. out' = Append(out, t) \/ out' = out
  BY DEF Passes, EmbedNothing, WriteSeparateAttachment, WriteInline, SkipAttachment
<1>7. frame \in Frames /\ stack' = Replace(frame)
  BY <1>2
<1> HIDE DEF frame, t, b
<1>8. Announces(t) = FALSE
  BY <1>5 DEF Announces
<1>9. Legal(p, <<t>>, p)
  BY <1>4, <1>5, <1>8, PartLegal
<1>10. Legal(p, <<>>, p)
  BY <1>4, StateParts, LegalNone
<1>11. /\ <<t>> \in Seq(Tokens) /\ Append(out, t) = out \o <<t>>
       /\ <<>> \in Seq(Tokens) /\ out = out \o <<>>
  BY <1>5, OneToken DEF MimeKept
<1> DEFINE e == <<>>
           f == <<t>>
<1>12. PICK u \in {e, f} : out' = out \o u
  BY <1>6, <1>11
<1>13. u \in Seq(Tokens) /\ Legal(p, u, p)
  BY <1>9, <1>10, <1>11, <1>12
<1> QED BY <1>1, <1>3, <1>7, <1>12, <1>13, StaysMime DEF b

LEMMA EmbedMime ==
  ASSUME MailTypes, MimeKept, EmbedMessage
  PROVE  MimeKept'
<1> DEFINE t == Token("part", MainBoundary, "multipart", Next1.n)
           n == Len(stack)
           b == NestedIn(stack, n)
           frame == Frame(calls', Next1.msg, "normal")
           old == stack
           new == stack'
<1>1. AttachLeft /\ out' = Append(out, t) /\ given' = given
  BY DEF EmbedMessage
<1>2. /\ stack # <<>> /\ Top.pc = "attachments" /\ Next1 \in Attachments /\ Advanced.msg = Top.msg
  BY <1>1, AdvancedKnown
<1>3. /\ n \in Nat \ {0} /\ DOMAIN old = 1 .. n /\ DOMAIN new = 1 .. n + 1 /\ Len(new) = n + 1
      /\ \A s \in 1 .. n - 1 : new[s] = old[s]
      /\ new[n] = Advanced /\ new[n + 1] = frame /\ frame \in Frames
      /\ Next1.msg > Top.msg
  BY EmbedFits
<1>4. frame.pc = "headers" /\ frame.msg = Next1.msg
  BY DEF Frame
<1>5. /\ b \in Seq(Boundaries) /\ b # <<>> /\ Last(b) = MainBoundary /\ Top = old[n]
      /\ \A s \in 1 .. n : old[s].msg \in Nat
  BY <1>2, NowKnown
<1>6. t \in Tokens /\ t.kind = "part" /\ t.boundary = MainBoundary /\ t.what = "multipart"
  <2>1. "multipart" \in Whats /\ Next1.n \in Int
    BY <1>2 DEF Whats, Attachments
  <2>2. MainBoundary \in Boundaries
    BY <1>2, MainType
  <2> QED BY <1>2, <2>1, <2>2, TokenType
<1>7. Now = [open |-> b, due |-> FALSE]
  <2>1. AtStep("headers") = FALSE
    BY <1>2 DEF AtStep
  <2> QED BY <2>1 DEF Now, Depth
<1>8. AtStep("headers")' = TRUE
  <2>1. new # <<>>
    BY <1>3, EmptySeq
  <2>2. Top' = frame
    BY <1>3 DEF Top
  <2> QED BY <2>1, <2>2, <1>4 DEF AtStep
<1>9. Depth' = n
  BY <1>3, <1>8 DEF Depth
<1> HIDE DEF t, n, frame, old, new
<1>10. \A s \in 1 .. n : new[s].msg = old[s].msg
  <2> TAKE s \in 1 .. n
  <2>1. CASE s = n
    BY <2>1, <1>2, <1>3, <1>5
  <2>2. CASE s \in 1 .. n - 1
    BY <2>2, <1>3
  <2> QED BY <2>1, <2>2, <1>3
<1>11. NestedIn(new, n) = b
  BY <1>10, SameNested DEF old
<1>12. Now' = [open |-> b, due |-> TRUE]
  BY <1>8, <1>9, <1>11 DEF Now, new
<1> HIDE DEF b
<1>13. Announces(t) = TRUE
  BY <1>6 DEF Announces
<1>14. Legal(Now, <<t>>, Now')
  BY <1>5, <1>6, <1>7, <1>12, <1>13, PartLegal
<1>15. <<t>> \in Seq(Tokens) /\ out' = out \o <<t>>
  BY <1>1, <1>6, OneToken DEF MimeKept
<1>16. out' \in Seq(Tokens) /\ Legal(Nothing, out', Now')
  BY <1>14, <1>15, LegalGoesOn
<1>17. \A s, r \in DOMAIN new : s < r => new[s].msg < new[r].msg
  <2> TAKE s, r \in DOMAIN new
  <2> SUFFICES ASSUME s < r PROVE new[s].msg < new[r].msg
    OBVIOUS
  <2>1. \A i, j \in 1 .. n : i < j => old[i].msg < old[j].msg
    BY <1>3 DEF MimeKept, DeeperLater, old
  <2>2. CASE r \in 1 .. n
    <3>1. s \in 1 .. n
      BY <2>2, <1>3
    <3> QED BY <3>1, <2>1, <2>2, <1>10
  <2>3. CASE r = n + 1
    <3>1. s \in 1 .. n /\ n \in 1 .. n
      BY <2>3, <1>3
    <3>2. old[s].msg \in Nat /\ old[n].msg \in Nat /\ old[s].msg <= old[n].msg
      <4>1. CASE s = n
        BY <4>1, <3>1, <1>5
      <4>2. CASE s # n
        <5>1. s < n
          BY <4>2, <3>1, <1>3
        <5> QED BY <5>1, <3>1, <2>1, <1>5
      <4> QED BY <4>1, <4>2
    <3>3. new[r].msg = Next1.msg /\ new[s].msg = old[s].msg /\ Top.msg = old[n].msg /\ Next1.msg \in Nat
      BY <2>3, <3>1, <1>2, <1>3, <1>4, <1>5, <1>10 DEF Attachments
    <3> QED BY <3>2, <3>3, <1>3
  <2> QED BY <2>2, <2>3, <1>3
<1> QED BY <1>1, <1>16, <1>17 DEF MimeKept, HeadersComplete, DeeperLater, new

LEMMA FinishMime ==
  ASSUME MailTypes, MimeKept, Finish
  PROVE  MimeKept'
<1> DEFINE t == Token("close", MainBoundary, "mail", 0)
           n == Len(stack)
           b == NestedIn(stack, n)
           c == NestedIn(stack, n - 1)
           old == stack
           new == stack'
<1>1. stack # <<>> /\ Top.pc = "attachments" /\ new = Front(stack) /\ out' = Append(out, t) /\ given' = given
  BY DEF Finish, AtStep
<1>2. /\ new \in Seq(Frames) /\ Len(new) = n - 1 /\ DOMAIN new = 1 .. n - 1
      /\ \A s \in 1 .. n - 1 : new[s] = old[s]
  BY <1>1, FrontKnown DEF MailTypes
<1>3. /\ b \in Seq(Boundaries) /\ b # <<>> /\ Last(b) = MainBoundary
      /\ c \in Seq(Boundaries) /\ c = Front(b)
      /\ n \in Nat \ {0} /\ DOMAIN old = 1 .. n
  BY <1>1, NowKnown
<1>4. t \in Tokens /\ t.kind = "close" /\ t.boundary = MainBoundary
  <2>1. "mail" \in Whats
    BY DEF Whats
  <2>2. MainBoundary \in Boundaries
    BY <1>1, MainType
  <2> QED BY <1>1, <2>1, <2>2, TokenType
<1>5. Now = [open |-> b, due |-> FALSE]
  <2>1. AtStep("headers") = FALSE
    BY <1>1 DEF AtStep
  <2> QED BY <2>1 DEF Now, Depth
<1>6. AtStep("headers")' = FALSE
  <2>1. CASE new = <<>>
    BY <2>1 DEF AtStep
  <2>2. CASE new # <<>>
    <3>1. n - 1 \in 1 .. n - 1 /\ n - 1 \in DOMAIN old /\ n - 1 < n
      BY <2>2, <1>2, <1>3, EmptySeq
    <3>2. Top' = old[n - 1]
      BY <3>1, <1>2 DEF Top
    <3>3. old[n - 1].pc = "attachments"
      BY <3>1 DEF MailTypes, FramesFit
    <3> QED BY <3>2, <3>3 DEF AtStep
  <2> QED BY <2>1, <2>2
<1>7. Depth' = n - 1
  BY <1>2, <1>6 DEF Depth
<1>8. NestedIn(new, n - 1) = c
  BY <1>2, SameNested
<1>9. Now' = [open |-> c, due |-> FALSE]
  BY <1>6, <1>7, <1>8 DEF Now
<1> HIDE DEF t, b, c, n, old, new
<1>10. Legal(Now, <<t>>, Now')
  BY <1>3, <1>4, <1>5, <1>9, CloseLegal
<1>11. <<t>> \in Seq(Tokens) /\ out' = out \o <<t>>
  BY <1>1, <1>4, OneToken DEF MimeKept
<1>12. out' \in Seq(Tokens) /\ Legal(Nothing, out', Now')
  BY <1>10, <1>11, LegalGoesOn
<1>13. \A s \in DOMAIN new : s \in DOMAIN old /\ new[s] = old[s]
  BY <1>2, <1>3
<1>14. DeeperLater'
  BY <1>13 DEF MimeKept, DeeperLater, old, new
<1> QED BY <1>1, <1>12, <1>14 DEF MimeKept, HeadersComplete

LEMMA StepMimeKept == MailTypes /\ MimeKept /\ [MailNext]_mailVars => MimeKept'
<1> SUFFICES ASSUME MailTypes, MimeKept, [MailNext]_mailVars PROVE MimeKept'
  OBVIOUS
<1>1. CASE UNCHANGED mailVars
  <2>1. stack' = stack /\ out' = out /\ given' = given
    BY <1>1 DEF mailVars
  <2>2. Now' = Now
    BY <2>1 DEF Now, Depth, AtStep, Top
  <2> QED BY <2>1, <2>2 DEF MimeKept, DeeperLater, HeadersComplete
<1> QED BY <1>1, HeadersMime, BodiesMime, PassesMime, EmbedMime, FinishMime DEF MailNext, Passes, Done

\* The boundaries after each token are those of the trace that leads there.
LEMMA OpenIs ==
  ASSUME NEW w \in [0 .. Len(out) -> States], Len(out) \in Nat, w[0].open = <<>>,
         \A i \in 1 .. Len(out) : w[i] = AfterOne(w[i - 1], out[i])
  PROVE  \A i \in 0 .. Len(out) : OpenAfter[i] = w[i].open
<1> DEFINE n == Len(out)
           body(f) == [i \in 0 .. n |-> IF i = 0 THEN <<>> ELSE AfterToken(f[i - 1], out[i])]
           g == [i \in 0 .. n |-> w[i].open]
<1>1. \A i \in 1 .. n : w[i].open = AfterToken(w[i - 1].open, out[i])
  <2> TAKE i \in 1 .. n
  <2>1. w[i] = AfterOne(w[i - 1], out[i])
    OBVIOUS
  <2>2. AfterOne(w[i - 1], out[i]).open = AfterToken(w[i - 1].open, out[i])
    BY DEF AfterOne
  <2> QED BY <2>1, <2>2
<1>2. \E f : f = body(f)
  <2>1. \A i \in 0 .. n : g[i] = IF i = 0 THEN <<>> ELSE AfterToken(g[i - 1], out[i])
    <3> TAKE i \in 0 .. n
    <3>1. CASE i = 0
      BY <3>1
    <3>2. CASE i # 0
      <4>1. i \in 1 .. n /\ i - 1 \in 0 .. n
        BY <3>2
      <4>2. g[i] = w[i].open /\ g[i - 1] = w[i - 1].open
        BY <4>1
      <4> QED BY <3>2, <4>1, <4>2, <1>1
    <3> QED BY <3>1, <3>2
  <2>2. g = body(g)
    BY <2>1
  <2> QED BY <2>2
<1>3. OpenAfter = CHOOSE f : f = body(f)
  BY DEF OpenAfter
<1>4. OpenAfter = body(OpenAfter)
  BY <1>2, <1>3
<1>5. /\ OpenAfter[0] = <<>>
      /\ \A i \in 1 .. n : OpenAfter[i] = AfterToken(OpenAfter[i - 1], out[i])
  <2> DEFINE o == OpenAfter
  <2>1. o = [i \in 0 .. n |-> IF i = 0 THEN <<>> ELSE AfterToken(o[i - 1], out[i])]
    BY <1>4
  <2> HIDE DEF o
  <2>2. o[0] = <<>> /\ \A i \in 1 .. n : o[i] = AfterToken(o[i - 1], out[i])
    BY <2>1
  <2> QED BY <2>2 DEF o
<1> DEFINE bad == {i \in 0 .. n : OpenAfter[i] # w[i].open}
<1>6. bad = {}
  <2> SUFFICES ASSUME bad # {} PROVE FALSE
    OBVIOUS
  <2>1. bad \subseteq Nat
    OBVIOUS
  <2>2. PICK i \in bad : \A j \in bad : i <= j
    <3> HIDE DEF bad
    <3> QED BY <2>1, LeastNumber
  <2>3. i # 0 /\ i \in 0 .. n
    BY <2>2, <1>5
  <2>4. i \in 1 .. n /\ i - 1 \in 0 .. n /\ i - 1 \notin bad
    BY <2>2, <2>3
  <2>5. OpenAfter[i - 1] = w[i - 1].open
    BY <2>4
  <2>6. OpenAfter[i] = w[i].open
    BY <2>4, <2>5, <1>1, <1>5
  <2> QED BY <2>2, <2>6
<1> QED BY <1>6

LEMMA MimeMeans == MailTypes /\ MimeKept => MimeWellFormed
<1> SUFFICES ASSUME MailTypes, MimeKept PROVE MimeWellFormed
  OBVIOUS
<1> DEFINE n == Len(out)
<1>1. n \in Nat /\ DOMAIN out = 1 .. n
  BY LenProperties DEF MimeKept
<1>2. PICK w : /\ w \in [0 .. n -> States] /\ w[0] = Nothing /\ w[n] = Now
               /\ \A i \in 1 .. n : Good(w[i - 1], out[i]) /\ w[i] = AfterOne(w[i - 1], out[i])
  BY DEF MimeKept, Legal, Trace
<1>3. \A i \in 0 .. n : OpenAfter[i] = w[i].open
  <2>1. w[0].open = <<>>
    BY <1>2 DEF Nothing
  <2> QED BY <2>1, <1>1, <1>2, OpenIs
<1>4. \A i \in DOMAIN out : Fits(OpenAfter[i - 1], out[i])
  <2> TAKE i \in DOMAIN out
  <2>1. i \in 1 .. n /\ i - 1 \in 0 .. n
    BY <1>1
  <2> QED BY <2>1, <1>2, <1>3 DEF Good
<1>5. ASSUME stack = <<>> PROVE OpenAfter[n] = <<>>
  <2>1. OpenAfter[n] = Now.open
    BY <1>1, <1>2, <1>3
  <2>2. AtStep("headers") = FALSE /\ Len(stack) = 0
    BY <1>5 DEF AtStep
  <2>3. Now.open = NestedIn(stack, 0)
    BY <2>2 DEF Now, Depth
  <2> QED BY <2>1, <2>3, NoneNested
<1>6. ASSUME NEW i \in DOMAIN out, i > 1
      PROVE  (out[i].kind = "open") <=> (out[i - 1].kind = "part" /\ out[i - 1].what = "multipart")
  <2>1. i \in 1 .. n /\ i - 1 \in 1 .. n
    BY <1>1, <1>6
  <2>2. (out[i].kind = "open") <=> w[i - 1].due
    BY <2>1, <1>2 DEF Good
  <2>3. w[i - 1].due = Announces(out[i - 1])
    BY <2>1, <1>2 DEF AfterOne
  <2> QED BY <2>2, <2>3 DEF Announces
<1>7. \A g \in ToSet(given) : /\ g.copied \cap g.created = {}
                              /\ {"From", "Subject", "MIME-Version", "Content-Type"} \subseteq g.copied \cup g.created
  BY DEF MimeKept, HeadersComplete, ToSet
<1> QED BY <1>4, <1>5, <1>6, <1>7 DEF MimeWellFormed

(* The mail file is well-formed: for any message, any bodies, attachments  *)
(* and headers and any depth of embedding, parts are inside the boundary   *)
(* that was opened last, boundaries are closed in the order they have to   *)
(* be, a multipart follows exactly where one is announced, and every       *)
(* message has the headers it needs once (write_normal_email,              *)
(* write_body_part, write_schedule_part, write_embedded_message).          *)
THEOREM MailsWellFormed == MailSpec => []MimeWellFormed
<1>1. MailInit => MailTypes /\ MimeKept
  BY InitMailTypes, InitMimeKept
<1>2. MailTypes /\ MimeKept /\ [MailNext]_mailVars => (MailTypes /\ MimeKept)'
  BY StepMailTypes, StepMimeKept
<1>3. MailTypes /\ MimeKept => MimeWellFormed
  BY MimeMeans
<1> QED BY <1>1, <1>2, <1>3, PTL DEF MailSpec
=============================================================================
