------------------------------ MODULE Scaffold ------------------------------
(***************************************************************************)
(* `zt create' (internal/scaffold/scaffold.go): Create checks that the     *)
(* target directory does not exist, makes it, copies the template file by  *)
(* file, writes go.mod, runs `templ generate' and makes a git repository   *)
(* with one commit.  On an error before the last step it removes the       *)
(* directory, whatever is in it.                                           *)
(*                                                                         *)
(* Several processes may be given the same directory, and each may be      *)
(* killed between two calls; the developer may put a file there, too.      *)
(***************************************************************************)
EXTENDS Naturals, Sequences

CONSTANTS
  Creators,   \* processes of `zt create', all with one target directory
  Template,   \* Template[c]: the files of c's template, in the order copied
  Skips,      \* Skips[c]: which of "templ" and "git" c was told to skip
  GoMod,      \* the file go.mod
  Generated,  \* what `templ generate' writes
  Git,        \* the repository .git
  Notes,      \* a file of the developer's own
  User,       \* the developer
  Nobody      \* the writer of a file that does not exist

Copied == UNION {{Template[c][i] : i \in DOMAIN Template[c]} : c \in Creators}
Items  == Copied \cup {GoMod, Generated, Git, Notes}

ASSUME WritersAssumption == User \notin Creators /\ Nobody \notin Creators \cup {User}
ASSUME ItemsAssumption ==
  /\ \A c \in Creators : Template[c] \in Seq(Copied)
  /\ {GoMod, Generated, Git, Notes} \cap Copied = {}
  /\ GoMod # Generated /\ GoMod # Git /\ GoMod # Notes
  /\ Generated # Git /\ Generated # Notes /\ Git # Notes

VARIABLES
  exists,    \* the directory exists
  writer,    \* writer[i]: who wrote item i last, Nobody if it is not there
  index,     \* the items in the index of the repository
  commit,    \* the items in its last commit
  pc,        \* where each Create is
  copied,    \* copied[c]: how many files c has copied
  met,       \* history: met[c], the others that were past their Stat and not
             \* at their end while c was
  removers,  \* history: the creators that began to remove the directory
  noted,     \* history: the developer has put the file there
  guests     \* history: the creators that were past their Stat when the
             \* developer last did

vars == <<exists, writer, index, commit, pc, copied, met, removers, noted, guests>>

Ended  == {"refused", "failed", "left", "done", "killed"}
Active == {"make", "copy", "gomod", "templ", "init", "add", "commit", "remove"}

PastCopy == {"gomod", "templ", "init", "add", "commit", "done"}

\* Nothing is in a directory that does not exist; a Create that has gone on
\* to go.mod has copied its whole template (scaffold.go:81-89, 107-132).
TypeOK ==
  /\ exists \in BOOLEAN
  /\ writer \in [Items -> Creators \cup {User, Nobody}]
  /\ ~exists => \A i \in Items : writer[i] = Nobody
  /\ index \subseteq Items
  /\ commit \subseteq Items
  /\ pc \in [Creators -> {"stat"} \cup Active \cup Ended]
  /\ copied \in [Creators -> Nat]
  /\ \A c \in Creators : copied[c] <= Len(Template[c])
  /\ \A c \in Creators : pc[c] \in PastCopy => copied[c] = Len(Template[c])
  /\ met \in [Creators -> SUBSET Creators]
  /\ removers \subseteq Creators
  /\ noted \in BOOLEAN
  /\ guests \subseteq Creators

Init ==
  /\ exists = FALSE
  /\ writer = [i \in Items |-> Nobody]
  /\ index = {}
  /\ commit = {}
  /\ pc = [c \in Creators |-> "stat"]
  /\ copied = [c \in Creators |-> 0]
  /\ met = [c \in Creators |-> {}]
  /\ removers = {}
  /\ noted = FALSE
  /\ guests = {}

Present == {i \in Items : writer[i] # Nobody}
Past    == {c \in Creators : pc[c] \in Active}

repo    == <<index, commit>>
history == <<met, removers, noted, guests>>

Goto(c, from, to) == pc[c] = from /\ pc' = [pc EXCEPT ![c] = to]

Write(i, w) == exists' = TRUE /\ writer' = [writer EXCEPT ![i] = w]

-----------------------------------------------------------------------------
(* Create                                                                  *)

\* A bad name, an unknown template, or the directory exists.
Refuse(c) ==
  /\ Goto(c, "stat", "refused")
  /\ UNCHANGED <<exists, writer, repo, copied, history>>

\* c joins those that will write to the directory.
Meet(c) ==
  /\ met' = [d \in Creators |->
               CASE d = c -> Past [] d \in Past -> met[d] \cup {c} [] OTHER -> met[d]]
  /\ UNCHANGED <<removers, noted, guests>>

StatForgotten(c) ==   \* wrong: writes into a directory that exists
  /\ Goto(c, "stat", "make")
  /\ Meet(c)
  /\ UNCHANGED <<exists, writer, repo, copied>>

\* os.Stat finds nothing ...
Stat(c) ==
  /\ ~exists
  /\ Goto(c, "stat", "make")
  /\ Meet(c)
  /\ UNCHANGED <<exists, writer, repo, copied>>

\* ... and os.MkdirAll does not mind a directory made since.
Make(c) ==
  /\ Goto(c, "make", "copy")
  /\ exists' = TRUE
  /\ UNCHANGED <<writer, repo, copied, history>>

\* It fails: nothing was made, nothing is removed.
MakeFail(c) ==
  /\ Goto(c, "make", "failed")
  /\ UNCHANGED <<exists, writer, repo, copied, history>>

\* copyTemplateFile makes the directories it needs again.
Copy(c) ==
  /\ pc[c] = "copy" /\ copied[c] < Len(Template[c])
  /\ copied' = [copied EXCEPT ![c] = @ + 1]
  /\ Write(Template[c][copied[c] + 1], c)
  /\ UNCHANGED <<repo, pc, history>>

CopyEndsEarly(c) ==   \* wrong: a file that cannot be copied ends the walk, but no error
  /\ Goto(c, "copy", "gomod")
  /\ UNCHANGED <<exists, writer, repo, copied, history>>

CopyEnds(c) ==
  /\ copied[c] = Len(Template[c])
  /\ Goto(c, "copy", "gomod")
  /\ UNCHANGED <<exists, writer, repo, copied, history>>

\* os.WriteFile needs the directory.
WriteMod(c) ==
  /\ exists
  /\ Goto(c, "gomod", "templ")
  /\ Write(GoMod, c)
  /\ UNCHANGED <<repo, copied, history>>

SkipTempl(c) ==
  /\ "templ" \in Skips[c]
  /\ Goto(c, "templ", "init")
  /\ UNCHANGED <<exists, writer, repo, copied, history>>

TemplIgnored(c) ==   \* wrong: goes on when the directory or templ is missing
  /\ "templ" \notin Skips[c]
  /\ Goto(c, "templ", "init")
  /\ UNCHANGED <<exists, writer, repo, copied, history>>

Generate(c) ==
  /\ exists /\ "templ" \notin Skips[c]
  /\ Goto(c, "templ", "init")
  /\ Write(Generated, c)
  /\ UNCHANGED <<repo, copied, history>>

StepFailLeaves(c) ==   \* wrong: returns without cleanupOnError
  /\ pc[c] \in {"copy", "gomod"} \/ (pc[c] = "templ" /\ "templ" \notin Skips[c])
  /\ pc' = [pc EXCEPT ![c] = "failed"]
  /\ UNCHANGED <<exists, writer, repo, copied, history>>

\* Any of these steps fails, for a reason of its own or because the
\* directory is gone.
StepFail(c) ==
  /\ pc[c] \in {"copy", "gomod"} \/ (pc[c] = "templ" /\ "templ" \notin Skips[c])
  /\ pc' = [pc EXCEPT ![c] = "remove"]
  /\ UNCHANGED <<exists, writer, repo, copied, history>>

-----------------------------------------------------------------------------
(* initGit: what fails here is only warned about                           *)

GitInit(c) ==
  /\ exists /\ "git" \notin Skips[c]
  /\ Goto(c, "init", "add")
  /\ Write(Git, IF writer[Git] = Nobody THEN c ELSE writer[Git])
  /\ UNCHANGED <<repo, copied, history>>

GitAdd(c) ==
  /\ Git \in Present
  /\ Goto(c, "add", "commit")
  /\ index' = Present \ {Git}
  /\ UNCHANGED <<exists, writer, commit, copied, history>>

\* There is nothing to commit when another Create has done so.
GitCommit(c) ==
  /\ Git \in Present /\ index # commit
  /\ Goto(c, "commit", "done")
  /\ commit' = index
  /\ UNCHANGED <<exists, writer, index, copied, history>>

\* git is missing or fails, or is skipped.
GitFail(c) ==
  /\ pc[c] = "init" \/ pc[c] \in {"add", "commit"}
  /\ pc' = [pc EXCEPT ![c] = "done"]
  /\ UNCHANGED <<exists, writer, repo, copied, history>>

-----------------------------------------------------------------------------
(* cleanupOnError: os.RemoveAll, its error ignored                         *)

Removing(c) ==
  /\ removers' = removers \cup {c}
  /\ UNCHANGED <<copied, met, noted, guests>>

RemoveItem(c, i) ==
  /\ pc[c] = "remove" /\ i \in Present
  /\ writer' = [writer EXCEPT ![i] = Nobody]
  /\ index' = IF i = Git THEN {} ELSE index
  /\ commit' = IF i = Git THEN {} ELSE commit
  /\ Removing(c)
  /\ UNCHANGED <<exists, pc>>

\* The directory goes when it is empty ...
RemoveDir(c) ==
  /\ Present = {}
  /\ Goto(c, "remove", "failed")
  /\ exists' = FALSE
  /\ Removing(c)
  /\ UNCHANGED <<writer, repo>>

\* ... or something cannot be removed.
RemoveFail(c) ==
  /\ Goto(c, "remove", "left")
  /\ UNCHANGED <<exists, writer, repo, copied, history>>

-----------------------------------------------------------------------------
(* The environment                                                         *)

Kill(c) ==
  /\ pc[c] \in Active
  /\ pc' = [pc EXCEPT ![c] = "killed"]
  /\ UNCHANGED <<exists, writer, repo, copied, history>>

\* The developer puts a file into the directory.
Note ==
  /\ writer[Notes] = Nobody
  /\ Write(Notes, User)
  /\ noted' = TRUE
  /\ guests' = Past
  /\ UNCHANGED <<repo, pc, copied, met, removers>>

CreateStep(c) ==
  \/ Refuse(c) \/ Stat(c) \/ Make(c) \/ MakeFail(c)
  \/ Copy(c) \/ CopyEnds(c) \/ WriteMod(c) \/ SkipTempl(c) \/ Generate(c) \/ StepFail(c)
  \/ GitInit(c) \/ GitAdd(c) \/ GitCommit(c) \/ GitFail(c)
  \/ (\E i \in Items : RemoveItem(c, i)) \/ RemoveDir(c) \/ RemoveFail(c)

Next == Note \/ \E c \in Creators : CreateStep(c) \/ Kill(c)

Spec == Init /\ [][Next]_vars

-----------------------------------------------------------------------------
\* What c is to make.
Project(c) ==
  {Template[c][i] : i \in DOMAIN Template[c]} \cup {GoMod}
    \cup (IF "templ" \in Skips[c] THEN {} ELSE {Generated})

\* A Create that succeeds leaves a whole project, whatever fails in or kills
\* other processes; only one that was past its Stat at the same time can
\* have removed some of it (scaffold.go:63, 81-96, 196-198).
SuccessComplete ==
  \A c \in Creators :
    pc[c] = "done" => Project(c) \subseteq Present \/ met[c] \cap removers # {}

\* A Create that met no other leaves its own project, also when later ones
\* are given its directory, and what it commits is all of it
\* (scaffold.go:63, 86-102).
AloneIsExact ==
  \A c \in Creators :
    pc[c] = "done" /\ met[c] = {} =>
      /\ \A i \in Project(c) : writer[i] = c
      /\ commit # {} => Project(c) \subseteq commit

\* A file the developer puts into the directory is lost only to a Create
\* that had seen no directory before, and then failed
\* (scaffold.go:63-65, 82-94).
GuestsOnlyLose ==
  noted /\ writer[Notes] = Nobody => guests \cap removers # {}

\* Failed Creates can be repeated, however they interleave: a directory that
\* stands in the way was left by one that succeeded, that was killed or
\* could not clean up, or by the developer (scaffold.go:77-96).
FailureCanRetry ==
  (\A c \in Creators : pc[c] \in Ended) /\ exists /\ ~noted =>
    \E c \in Creators : pc[c] \in {"done", "killed", "left"}
=============================================================================
