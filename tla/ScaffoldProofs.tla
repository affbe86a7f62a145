---------------------------- MODULE ScaffoldProofs ----------------------------
(***************************************************************************)
(* Proofs about Scaffold, for any number of processes and any templates:   *)
(* its types and all of its properties.                                    *)
(***************************************************************************)
EXTENDS Scaffold, TLAPS

USE DEF repo, history

LEMMA TemplateItems ==
  ASSUME NEW c \in Creators, NEW k \in 1 .. Len(Template[c])
  PROVE  /\ Template[c][k] \in Items /\ Template[c][k] \in Copied
         /\ Template[c][k] \notin {GoMod, Generated, Git, Notes}
<1>1. Template[c] \in Seq(Copied) /\ DOMAIN Template[c] = 1 .. Len(Template[c])
  BY ItemsAssumption
<1>2. Template[c][k] \in Copied
  BY <1>1
<1> QED
  BY <1>2, ItemsAssumption DEF Items

LEMMA WriteKeepsType ==
  ASSUME TypeOK, NEW i \in Items, NEW w \in Creators \cup {User}, Write(i, w)
  PROVE  /\ exists' \in BOOLEAN
         /\ writer' \in [Items -> Creators \cup {User, Nobody}]
         /\ ~exists' => \A j \in Items : writer'[j] = Nobody
BY DEF TypeOK, Write

\* A Create that has gone on to go.mod has copied its template.
LEMMA CountsStep ==
  ASSUME TypeOK, [Next]_vars
  PROVE  \A c \in Creators : /\ copied'[c] <= Len(Template[c])
                             /\ pc'[c] \in PastCopy => copied'[c] = Len(Template[c])
<1> USE DEF Goto, PastCopy
<1> SUFFICES ASSUME NEW c \in Creators
             PROVE  /\ copied'[c] <= Len(Template[c])
                    /\ pc'[c] \in PastCopy => copied'[c] = Len(Template[c])
  OBVIOUS
<1>0. /\ copied[c] <= Len(Template[c])
      /\ pc[c] \in PastCopy => copied[c] = Len(Template[c])
      /\ copied[c] \in Nat /\ Len(Template[c]) \in Nat
  BY ItemsAssumption DEF TypeOK
<1>1. ASSUME NEW a \in Creators \ {c}, CreateStep(a) \/ Kill(a)
      PROVE  pc'[c] = pc[c] /\ copied'[c] = copied[c]
  BY <1>1 DEF TypeOK, CreateStep, Kill, Refuse, Stat, Meet, Make, MakeFail, Copy, CopyEnds,
     WriteMod, SkipTempl, Generate, StepFail, GitInit, GitAdd, GitCommit, GitFail,
     RemoveItem, RemoveDir, RemoveFail, Removing
<1>2. CASE Copy(c)
  BY <1>0, <1>2 DEF Copy, TypeOK
<1>3. CASE CopyEnds(c)
  BY <1>0, <1>3 DEF CopyEnds, TypeOK
<1>4. CASE \/ Refuse(c) \/ Stat(c) \/ Make(c) \/ MakeFail(c) \/ WriteMod(c) \/ SkipTempl(c)
           \/ Generate(c) \/ StepFail(c) \/ GitInit(c) \/ GitAdd(c) \/ GitCommit(c)
           \/ GitFail(c) \/ (\E i \in Items : RemoveItem(c, i)) \/ RemoveDir(c)
           \/ RemoveFail(c) \/ Kill(c)
  <2>1. copied' = copied
    BY <1>4 DEF Kill, Refuse, Stat, Meet, Make, MakeFail, WriteMod, SkipTempl, Generate,
       StepFail, GitInit, GitAdd, GitCommit, GitFail, RemoveItem, RemoveDir, RemoveFail,
       Removing
  <2>2. pc'[c] \in PastCopy => pc[c] \in PastCopy
    BY <1>4 DEF TypeOK, Kill, Refuse, Stat, Make, MakeFail, WriteMod, SkipTempl, Generate,
       StepFail, GitInit, GitAdd, GitCommit, GitFail, RemoveItem, RemoveDir, RemoveFail
  <2> QED
    BY <1>0, <2>1, <2>2
<1>5. CASE Note \/ UNCHANGED vars
  BY <1>0, <1>5 DEF Note, vars
<1> QED
  BY <1>0, <1>1, <1>2, <1>3, <1>4, <1>5 DEF Next, CreateStep

LEMMA TypeStep == TypeOK /\ [Next]_vars => TypeOK'
<1> SUFFICES ASSUME TypeOK, [Next]_vars PROVE TypeOK'
  OBVIOUS
<1> USE DEF Goto
<1>c. \A c \in Creators : /\ copied'[c] <= Len(Template[c])
                          /\ pc'[c] \in PastCopy => copied'[c] = Len(Template[c])
  BY CountsStep
<1>0. {GoMod, Generated, Git, Notes} \subseteq Items
  BY DEF Items
<1>1. ASSUME NEW c \in Creators, CreateStep(c) \/ Kill(c) PROVE TypeOK'
  <2>1. pc' \in [Creators -> {"stat"} \cup Active \cup Ended]
    BY <1>1 DEF TypeOK, CreateStep, Kill, Refuse, Stat, Make, MakeFail, Copy, CopyEnds,
       WriteMod, SkipTempl, Generate, StepFail, GitInit, GitAdd, GitCommit, GitFail,
       RemoveItem, RemoveDir, RemoveFail, Active, Ended
  <2>2. CASE Copy(c)
    <3>1. copied[c] + 1 \in 1 .. Len(Template[c])
      BY <2>2, ItemsAssumption DEF Copy, TypeOK
    <3>2. Template[c][copied[c] + 1] \in Items
      BY <3>1, TemplateItems
    <3>3. copied' \in [Creators -> Nat]
      BY <2>2, <3>1 DEF Copy, TypeOK
    <3> QED
      BY <1>c, <2>1, <2>2, <3>2, <3>3, WriteKeepsType DEF Copy, TypeOK
  <2>3. CASE WriteMod(c) \/ Generate(c)
    BY <1>0, <1>c, <2>1, <2>3, WriteKeepsType DEF WriteMod, Generate, TypeOK
  <2>4. CASE GitInit(c)
    <3>1. PICK w \in Creators \cup {User} : Write(Git, w)
      BY <1>0, <2>4 DEF GitInit, TypeOK
    <3> QED
      BY <1>0, <1>c, <2>1, <2>4, <3>1, WriteKeepsType DEF GitInit, TypeOK
  <2>5. CASE Stat(c)
    <3>1. met' \in [Creators -> SUBSET Creators]
      BY <2>5 DEF Stat, Meet, Past, TypeOK
    <3> QED
      BY <1>c, <2>1, <2>5, <3>1 DEF Stat, Meet, TypeOK
  <2>6. CASE Make(c)
    BY <1>c, <2>1, <2>6 DEF Make, TypeOK
  <2>7. CASE GitAdd(c) \/ GitCommit(c)
    BY <1>c, <2>1, <2>7 DEF GitAdd, GitCommit, Present, TypeOK
  <2>8. ASSUME NEW i \in Items, RemoveItem(c, i) PROVE TypeOK'
    BY <1>c, <2>1, <2>8 DEF RemoveItem, Removing, TypeOK
  <2>9. CASE RemoveDir(c)
    BY <1>c, <2>1, <2>9 DEF RemoveDir, Removing, Present, TypeOK
  <2>10. CASE \/ Refuse(c) \/ MakeFail(c) \/ CopyEnds(c) \/ SkipTempl(c) \/ StepFail(c)
              \/ GitFail(c) \/ RemoveFail(c) \/ Kill(c)
    BY <1>c, <2>1, <2>10 DEF Refuse, MakeFail, CopyEnds, SkipTempl, StepFail, GitFail,
       RemoveFail, Kill, TypeOK
  <2> QED
    BY <1>1, <2>2, <2>3, <2>4, <2>5, <2>6, <2>7, <2>8, <2>9, <2>10 DEF CreateStep
<1>2. CASE Note
  BY <1>0, <1>2, <1>c, WriteKeepsType DEF Note, Past, TypeOK
<1>3. CASE UNCHANGED vars
  BY <1>3, <1>c DEF vars, TypeOK
<1> QED
  BY <1>1, <1>2, <1>3 DEF Next

\* Every variable keeps its type; a directory that does not exist is empty,
\* and a Create that has gone on to go.mod has copied its template.
THEOREM TypeCorrect == Spec => []TypeOK
<1>1. ASSUME Init PROVE TypeOK
  <2>1. pc \in [Creators -> {"stat"} \cup Active \cup Ended]
    BY <1>1 DEF Init, Active, Ended
  <2>2. copied \in [Creators -> Nat] /\ met \in [Creators -> SUBSET Creators]
    BY <1>1 DEF Init
  <2>3. writer \in [Items -> Creators \cup {User, Nobody}] /\ \A i \in Items : writer[i] = Nobody
    BY <1>1 DEF Init
  <2>4. \A c \in Creators : copied[c] <= Len(Template[c]) /\ pc[c] \notin PastCopy
    <3> TAKE c \in Creators
    <3>1. copied[c] = 0 /\ pc[c] = "stat"
      BY <1>1 DEF Init
    <3>2. Len(Template[c]) \in Nat
      BY ItemsAssumption
    <3> QED
      BY <3>1, <3>2 DEF PastCopy
  <2> QED
    BY <1>1, <2>1, <2>2, <2>3, <2>4 DEF Init, TypeOK
<1> QED
  BY <1>1, TypeStep, PTL DEF Spec
-----------------------------------------------------------------------------
(* Retries                                                                 *)

\* Somebody answers for a directory that no developer has touched.
Answerable ==
  exists /\ ~noted =>
    \E c \in Creators : pc[c] \in {"done", "killed", "left"} \cup (Active \ {"make"})

LEMMA AnswerableStep == TypeOK /\ Answerable /\ [Next]_vars => Answerable'
<1> SUFFICES ASSUME TypeOK, Answerable, [Next]_vars, exists', ~noted'
             PROVE  \E c \in Creators : pc'[c] \in {"done", "killed", "left"} \cup (Active \ {"make"})
  BY DEF Answerable
<1> DEFINE Answers == {"done", "killed", "left"} \cup (Active \ {"make"})
<1> USE DEF Goto, Active
<1>1. ASSUME NEW c \in Creators, CreateStep(c) \/ Kill(c) PROVE \E d \in Creators : pc'[d] \in Answers
  <2>1. noted' = noted /\ \A d \in Creators \ {c} : pc'[d] = pc[d]
    BY <1>1 DEF TypeOK, CreateStep, Kill, Refuse, Stat, Meet, Make, MakeFail, Copy, CopyEnds,
       WriteMod, SkipTempl, Generate, StepFail, GitInit, GitAdd, GitCommit, GitFail,
       RemoveItem, RemoveDir, RemoveFail, Removing
  <2>2. CASE Refuse(c) \/ Stat(c) \/ MakeFail(c)
    <3>1. exists' = exists /\ pc[c] \notin Answers
      BY <2>2 DEF Refuse, Stat, MakeFail
    <3>2. PICK d \in Creators : pc[d] \in Answers
      BY <2>1, <3>1 DEF Answerable
    <3> QED
      BY <2>1, <3>1, <3>2
  <2>3. CASE Kill(c)
    BY <2>3 DEF Kill, TypeOK
  <2>4. CASE RemoveDir(c)
    BY <2>4 DEF RemoveDir
  <2>5. CASE \/ Make(c) \/ Copy(c) \/ CopyEnds(c) \/ WriteMod(c) \/ SkipTempl(c) \/ Generate(c)
             \/ StepFail(c) \/ GitInit(c) \/ GitAdd(c) \/ GitCommit(c) \/ GitFail(c)
             \/ (\E i \in Items : RemoveItem(c, i)) \/ RemoveFail(c)
    <3>1. pc'[c] \in Answers
      BY <2>5 DEF TypeOK, Make, Copy, CopyEnds, WriteMod, SkipTempl, Generate, StepFail,
         GitInit, GitAdd, GitCommit, GitFail, RemoveItem, RemoveFail
    <3> QED
      BY <3>1
  <2> QED
    BY <1>1, <2>2, <2>3, <2>4, <2>5 DEF CreateStep
<1>2. CASE Note
  BY <1>2 DEF Note
<1>3. CASE UNCHANGED vars
  BY <1>3 DEF vars, Answerable
<1> QED
  BY <1>1, <1>2, <1>3 DEF Next

\* Failed Creates leave nothing that keeps the next one from its work
\* (scaffold.go:77-96).
THEOREM Retries == Spec => []FailureCanRetry
<1>1. Init => Answerable
  BY DEF Init, Answerable
<1>2. Answerable => FailureCanRetry
  BY DEF Answerable, FailureCanRetry, Active, Ended
<1> QED
  BY <1>1, <1>2, AnswerableStep, TypeCorrect, PTL DEF Spec
-----------------------------------------------------------------------------
(* The developer's file                                                    *)

\* While the file is there the directory exists, and nobody passes its Stat.
Invited ==
  noted /\ writer[Notes] # Nobody => \A c \in Creators : pc[c] \in Active => c \in guests

LEMMA InvitedStep ==
  TypeOK /\ Invited /\ GuestsOnlyLose /\ [Next]_vars => Invited' /\ GuestsOnlyLose'
<1> SUFFICES ASSUME TypeOK, Invited, GuestsOnlyLose, [Next]_vars
             PROVE  Invited' /\ GuestsOnlyLose'
  OBVIOUS
<1> USE DEF Goto
<1>0. Notes \in Items /\ Notes \notin {GoMod, Generated, Git}
  BY ItemsAssumption DEF Items
<1>1. ASSUME NEW c \in Creators, CreateStep(c) \/ Kill(c) PROVE Invited' /\ GuestsOnlyLose'
  <2>1. noted' = noted /\ guests' = guests /\ removers \subseteq removers'
    BY <1>1 DEF TypeOK, CreateStep, Kill, Refuse, Stat, Meet, Make, MakeFail, Copy, CopyEnds,
       WriteMod, SkipTempl, Generate, StepFail, GitInit, GitAdd, GitCommit, GitFail,
       RemoveItem, RemoveDir, RemoveFail, Removing
  <2>2. CASE Stat(c)
    <3>1. writer[Notes] = Nobody /\ writer' = writer /\ removers' = removers
      BY <1>0, <2>2 DEF Stat, Meet, TypeOK
    <3> QED
      BY <2>1, <3>1 DEF Invited, GuestsOnlyLose
  <2>3. ASSUME ~Stat(c) PROVE \A d \in Creators : pc'[d] \in Active => pc[d] \in Active
    BY <1>1, <2>3 DEF TypeOK, CreateStep, Kill, Refuse, Make, MakeFail, Copy, CopyEnds,
       WriteMod, SkipTempl, Generate, StepFail, GitInit, GitAdd, GitCommit, GitFail,
       RemoveItem, RemoveDir, RemoveFail, Active
  <2>4. CASE RemoveItem(c, Notes)
    <3>1. pc[c] \in Active /\ writer[Notes] # Nobody /\ writer'[Notes] = Nobody /\ c \in removers'
      BY <1>0, <2>4 DEF RemoveItem, Removing, Present, Active, TypeOK
    <3>2. noted => c \in guests
      BY <3>1 DEF Invited
    <3> QED
      BY <2>1, <3>1, <3>2 DEF Invited, GuestsOnlyLose
  <2>5. CASE ~Stat(c) /\ ~RemoveItem(c, Notes)
    <3>1. ASSUME Copy(c) PROVE writer'[Notes] = writer[Notes]
      <4>1. copied[c] + 1 \in 1 .. Len(Template[c])
        BY <3>1, ItemsAssumption DEF Copy, TypeOK
      <4>2. Template[c][copied[c] + 1] # Notes
        BY <4>1, TemplateItems
      <4> QED
        BY <1>0, <3>1, <4>2 DEF Copy, Write, TypeOK
    <3>2. ASSUME NEW i \in Items, RemoveItem(c, i) PROVE writer'[Notes] = writer[Notes]
      BY <1>0, <2>5, <3>2 DEF RemoveItem, TypeOK
    <3>3. ASSUME WriteMod(c) \/ Generate(c) \/ GitInit(c) PROVE writer'[Notes] = writer[Notes]
      BY <1>0, <3>3 DEF WriteMod, Generate, GitInit, Write, TypeOK
    <3>4. ASSUME \/ Refuse(c) \/ Make(c) \/ MakeFail(c) \/ CopyEnds(c) \/ SkipTempl(c)
                 \/ StepFail(c) \/ GitAdd(c) \/ GitCommit(c) \/ GitFail(c)
                 \/ RemoveDir(c) \/ RemoveFail(c) \/ Kill(c)
          PROVE  writer'[Notes] = writer[Notes]
      BY <3>4 DEF Refuse, Make, MakeFail, CopyEnds, SkipTempl, StepFail, GitAdd, GitCommit,
         GitFail, RemoveDir, RemoveFail, Kill
    <3>5. writer'[Notes] = writer[Notes]
      BY <1>1, <2>5, <3>1, <3>2, <3>3, <3>4 DEF CreateStep
    <3> QED
      BY <2>1, <2>3, <2>5, <3>5 DEF Invited, GuestsOnlyLose
  <2> QED
    BY <2>2, <2>4, <2>5
<1>2. CASE Note
  <2>1. writer'[Notes] = User /\ User # Nobody
    BY <1>0, <1>2, WritersAssumption DEF Note, Write, TypeOK
  <2> QED
    BY <1>2, <2>1 DEF Note, Past, Invited, GuestsOnlyLose
<1>3. CASE UNCHANGED vars
  BY <1>3 DEF vars, Invited, GuestsOnlyLose
<1> QED
  BY <1>1, <1>2, <1>3 DEF Next

\* A developer's file is lost only to a Create that was past its Stat when
\* the file came, and that failed (scaffold.go:63-65, 82-94).
THEOREM GuestsLose == Spec => []GuestsOnlyLose
<1>1. Init => Invited /\ GuestsOnlyLose
  BY DEF Init, Invited, GuestsOnlyLose
<1> QED
  BY <1>1, InvitedStep, TypeCorrect, PTL DEF Spec
-----------------------------------------------------------------------------
(* What a Create makes and keeps                                           *)

Later    == {"templ", "init", "add", "commit", "done"}
Building == {"make", "copy", "gomod"} \cup Later

Lost(c) == met[c] \cap removers # {}

\* What c has made so far.
Made(c) ==
  {Template[c][i] : i \in 1 .. copied[c]}
    \cup (IF pc[c] \in Later THEN {GoMod} ELSE {})
    \cup (IF pc[c] \in Later \ {"templ"} /\ "templ" \notin Skips[c] THEN {Generated} ELSE {})

Counted(c) ==
  /\ copied[c] <= Len(Template[c])
  /\ pc[c] \in {"stat", "make"} => copied[c] = 0
  /\ pc[c] \in {"gomod"} \cup Later => copied[c] = Len(Template[c])

\* Who is at work has met everybody else who is; a Create that is done is
\* met by nobody unless something of its project was removed.
Aware(c) ==
  pc[c] \in Building =>
    \A d \in Creators \ {c} : pc[d] \in Active => d \in met[c] \/ (pc[c] = "done" /\ Lost(c))

Kept(c) == pc[c] \in Building => Made(c) \subseteq Present \/ Lost(c)

Own(c) == pc[c] \in Building /\ met[c] = {} => \A i \in Made(c) : writer[i] = c

Commits(c) ==
  pc[c] \in Building /\ met[c] = {} =>
    /\ pc[c] # "done" => commit = {}
    /\ pc[c] = "commit" => Made(c) \subseteq index
    /\ pc[c] = "done" /\ commit # {} => Made(c) \subseteq commit

CreateInv(c) == Counted(c) /\ Aware(c) /\ Kept(c) /\ Own(c) /\ Commits(c)

\* Without .git there is no index and no commit.
RepoGone == writer[Git] = Nobody => index = {} /\ commit = {}

LEMMA MadeItems ==
  ASSUME TypeOK, NEW c \in Creators, Counted(c)
  PROVE  Made(c) \subseteq Items \ {Git, Notes}
<1>1. ASSUME NEW i \in 1 .. copied[c] PROVE Template[c][i] \in Items \ {Git, Notes}
  <2>1. Len(Template[c]) \in Nat /\ copied[c] \in Nat
    BY ItemsAssumption DEF TypeOK
  <2>2. i \in 1 .. Len(Template[c])
    BY <1>1, <2>1 DEF Counted
  <2> QED
    BY <2>2, TemplateItems
<1>2. {GoMod, Generated} \subseteq Items \ {Git, Notes}
  BY ItemsAssumption DEF Items
<1> QED
  BY <1>1, <1>2 DEF Made

\* A step of another process does not take from c what it made, or meets it.
LEMMA OthersStep ==
  ASSUME TypeOK, RepoGone, NEW a \in Creators, NEW c \in Creators \ {a}, CreateInv(c),
         CreateStep(a) \/ Kill(a)
  PROVE  CreateInv(c)'
<1> USE DEF Goto
<1>0. c \in Creators /\ c # a
  OBVIOUS
<1>1. pc'[c] = pc[c] /\ copied'[c] = copied[c] /\ removers \subseteq removers'
  BY <1>0 DEF TypeOK, CreateStep, Kill, Refuse, Stat, Meet, Make, MakeFail, Copy, CopyEnds,
     WriteMod, SkipTempl, Generate, StepFail, GitInit, GitAdd, GitCommit, GitFail,
     RemoveItem, RemoveDir, RemoveFail, Removing
<1>2. Made(c)' = Made(c)
  BY <1>1 DEF Made
<1>3. Counted(c)'
  BY <1>1 DEF Counted, CreateInv
<1>4. \A d \in Creators \ {a} : pc'[d] = pc[d]
  BY DEF TypeOK, CreateStep, Kill, Refuse, Stat, Make, MakeFail, Copy, CopyEnds,
     WriteMod, SkipTempl, Generate, StepFail, GitInit, GitAdd, GitCommit, GitFail,
     RemoveItem, RemoveDir, RemoveFail
<1>5. CASE Stat(a)
  <2>1. UNCHANGED <<writer, index, commit, removers>> /\ Present = {}
    BY <1>5 DEF Stat, Meet, Present, TypeOK
  <2>2. met'[c] = IF pc[c] \in Active THEN met[c] \cup {a} ELSE met[c]
    BY <1>0, <1>5 DEF Stat, Meet, Past
  <2>3. Lost(c) => Lost(c)'
    BY <2>1, <2>2 DEF Lost
  <2>4. pc[c] = "done" => Lost(c)
    BY <2>1 DEF CreateInv, Kept, Made, Building, Later
  <2>5. Aware(c)'
    BY <1>0, <1>1, <1>4, <2>2, <2>3, <2>4 DEF CreateInv, Aware, Building, Later, Active
  <2>6. Kept(c)'
    BY <1>1, <1>2, <2>1, <2>3 DEF CreateInv, Kept, Present
  <2>7. met'[c] = {} => met[c] = {}
    BY <2>2
  <2> QED
    BY <1>1, <1>2, <1>3, <2>1, <2>5, <2>6, <2>7 DEF CreateInv, Own, Commits
<1>6. CASE Refuse(a)
  <2>1. UNCHANGED <<writer, index, commit, removers, met>> /\ pc'[a] \notin Active
    BY <1>6 DEF Refuse, TypeOK, Active
  <2> QED
    BY <1>1, <1>2, <1>3, <1>4, <2>1 DEF CreateInv, Aware, Kept, Own, Commits, Lost, Present
<1>7. CASE ~Stat(a) /\ ~Refuse(a)
  <2>1. pc[a] \in Active /\ met' = met
    BY <1>7 DEF CreateStep, Kill, Make, MakeFail, Copy, CopyEnds,
       WriteMod, SkipTempl, Generate, StepFail, GitInit, GitAdd, GitCommit, GitFail,
       RemoveItem, RemoveDir, RemoveFail, Removing, Active
  <2>2. Lost(c) => Lost(c)'
    BY <1>1, <2>1 DEF Lost
  <2>3. pc[c] \in Building => a \in met[c] \/ Lost(c)
    BY <2>1 DEF CreateInv, Aware
  <2>4. Aware(c)'
    BY <1>0, <1>1, <1>4, <2>1, <2>2 DEF CreateInv, Aware
  <2>5. pc[c] \in Building => met'[c] # {}
    BY <2>1, <2>3 DEF Lost
  <2>6. Kept(c)'
    <3>1. ASSUME NEW i \in Items, RemoveItem(a, i), pc[c] \in Building PROVE Lost(c)'
      BY <2>1, <2>2, <2>3, <3>1 DEF RemoveItem, Removing, Lost
    <3>2. ASSUME \A i \in Items : ~RemoveItem(a, i) PROVE Present \subseteq Present'
      <4>1. Nobody \notin Creators
        BY WritersAssumption
      <4>2. ASSUME NEW i \in Items, NEW w \in Creators, Write(i, w) PROVE Present \subseteq Present'
        BY <4>1, <4>2 DEF Write, Present, TypeOK
      <4>3. ASSUME Copy(a) PROVE Present \subseteq Present'
        <5>1. copied[a] + 1 \in 1 .. Len(Template[a])
          BY <4>3, ItemsAssumption DEF Copy, TypeOK
        <5> QED
          BY <4>2, <4>3, <5>1, TemplateItems DEF Copy
      <4>4. ASSUME WriteMod(a) \/ Generate(a) PROVE Present \subseteq Present'
        <5>1. GoMod \in Items /\ Generated \in Items
          BY DEF Items
        <5> QED
          BY <4>2, <4>4, <5>1 DEF WriteMod, Generate
      <4>5. ASSUME GitInit(a) PROVE Present \subseteq Present'
        BY <4>1, <4>5 DEF GitInit, Write, Present, TypeOK
      <4>6. ASSUME \/ Make(a) \/ MakeFail(a) \/ CopyEnds(a) \/ SkipTempl(a) \/ StepFail(a)
                   \/ GitAdd(a) \/ GitCommit(a) \/ GitFail(a) \/ RemoveDir(a)
                   \/ RemoveFail(a) \/ Kill(a)
            PROVE  writer' = writer
        BY <4>6 DEF Make, MakeFail, CopyEnds, SkipTempl, StepFail, GitAdd, GitCommit, GitFail,
           RemoveDir, RemoveFail, Kill
      <4> QED
        BY <1>7, <3>2, <4>3, <4>4, <4>5, <4>6 DEF CreateStep, Present
    <3> QED
      BY <1>1, <1>2, <2>2, <3>1, <3>2 DEF CreateInv, Kept
  <2> QED
    BY <1>1, <1>3, <2>4, <2>5, <2>6 DEF CreateInv, Own, Commits
<1> QED
  BY <1>5, <1>6, <1>7

\* A step of c itself.
LEMMA OwnStep ==
  ASSUME TypeOK, RepoGone, NEW c \in Creators, CreateInv(c), CreateStep(c) \/ Kill(c)
  PROVE  CreateInv(c)'
<1> USE DEF Goto
<1>0. /\ Nobody \notin Creators
      /\ Len(Template[c]) \in Nat /\ copied[c] \in Nat
      /\ {GoMod, Generated, Git} \subseteq Items
  BY WritersAssumption, ItemsAssumption DEF TypeOK, Items
<1>1. \A d \in Creators \ {c} : pc'[d] = pc[d]
  BY DEF TypeOK, CreateStep, Kill, Refuse, Stat, Make, MakeFail, Copy, CopyEnds,
     WriteMod, SkipTempl, Generate, StepFail, GitInit, GitAdd, GitCommit, GitFail,
     RemoveItem, RemoveDir, RemoveFail
<1>2. ASSUME UNCHANGED <<met, removers>>, pc[c] \in Building, pc[c] # "done" PROVE Aware(c)'
  BY <1>1, <1>2 DEF CreateInv, Aware, Lost
<1>3. CASE Stat(c)
  <2>1. pc'[c] = "make" /\ copied'[c] = 0 /\ commit' = {} /\ Made(c)' = {}
    <3>1. pc'[c] = "make" /\ copied'[c] = 0
      BY <1>3 DEF Stat, TypeOK, CreateInv, Counted
    <3>2. commit' = {}
      BY <1>0, <1>3 DEF Stat, TypeOK, RepoGone
    <3> QED
      BY <3>1, <3>2 DEF Made, Later
  <2>2. met'[c] = Past
    BY <1>3 DEF Stat, Meet, Past, Active
  <2>3. Aware(c)'
    BY <1>1, <2>1, <2>2 DEF Aware, Past
  <2> QED
    BY <1>0, <2>1, <2>3 DEF CreateInv, Counted, Kept, Own, Commits, Later
<1>4. CASE \/ Refuse(c) \/ MakeFail(c) \/ StepFail(c) \/ Kill(c) \/ RemoveDir(c)
           \/ RemoveFail(c) \/ \E i \in Items : RemoveItem(c, i)
  <2>1. pc'[c] \notin Building \cup {"stat"} /\ copied' = copied
    BY <1>4 DEF TypeOK, Refuse, MakeFail, StepFail, Kill, RemoveDir, RemoveFail, RemoveItem,
       Removing, Building, Later
  <2> QED
    BY <2>1 DEF CreateInv, Counted, Aware, Kept, Own, Commits, Building, Later
<1>5. CASE Make(c) \/ CopyEnds(c) \/ SkipTempl(c)
  <2>1. /\ UNCHANGED <<writer, index, commit, copied, met, removers>>
        /\ pc[c] \in Building /\ pc[c] \notin {"commit", "done", "stat"}
        /\ pc'[c] \in Building /\ pc'[c] \notin {"commit", "done", "stat", "make"}
    BY <1>5 DEF TypeOK, Make, CopyEnds, SkipTempl, Building, Later
  <2>2. Counted(c)'
    BY <1>0, <1>5, <2>1 DEF Make, CopyEnds, SkipTempl, TypeOK, CreateInv, Counted, Later
  <2>3. Made(c)' = Made(c)
    BY <1>5, <2>1 DEF Make, CopyEnds, SkipTempl, TypeOK, Made, Later
  <2> QED
    BY <1>2, <2>1, <2>2, <2>3 DEF CreateInv, Kept, Own, Commits, Lost, Present
<1>6. CASE Copy(c)
  <2> DEFINE i == Template[c][copied[c] + 1]
  <2>1. i \in Items
    BY <1>0, <1>6, TemplateItems DEF Copy
  <2>2. /\ copied'[c] = copied[c] + 1 /\ pc' = pc /\ pc[c] = "copy"
        /\ UNCHANGED <<index, commit, met, removers>>
        /\ writer'[i] = c /\ \A j \in Items \ {i} : writer'[j] = writer[j]
    BY <1>6, <2>1 DEF Copy, Write, TypeOK
  <2>3. Counted(c)'
    BY <1>0, <1>6, <2>2 DEF Copy, Counted, CreateInv, Later
  <2>4. Made(c)' \subseteq Made(c) \cup {i}
    BY <1>0, <2>2 DEF Made, Later
  <2>5. Made(c) \subseteq Items
    BY MadeItems DEF CreateInv
  <2>6. Kept(c)'
    BY <1>0, <2>1, <2>2, <2>4, <2>5 DEF CreateInv, Kept, Present, Lost
  <2>7. Own(c)'
    BY <2>1, <2>2, <2>4, <2>5 DEF CreateInv, Own
  <2>8. Aware(c)' /\ Commits(c)'
    BY <1>2, <2>2 DEF CreateInv, Commits, Building
  <2> QED
    BY <2>3, <2>6, <2>7, <2>8 DEF CreateInv
<1>7. CASE WriteMod(c) \/ Generate(c)
  <2>1. PICK i \in {GoMod, Generated} :
          /\ writer'[i] = c /\ \A j \in Items \ {i} : writer'[j] = writer[j]
          /\ Made(c)' = Made(c) \cup {i}
    <3>1. CASE WriteMod(c)
      <4>1. pc[c] = "gomod" /\ pc'[c] = "templ" /\ copied' = copied
        BY <3>1 DEF WriteMod, TypeOK
      <4>2. Made(c)' = Made(c) \cup {GoMod}
        BY <4>1 DEF Made, Later
      <4> QED
        BY <1>0, <3>1, <4>2 DEF WriteMod, Write, TypeOK
    <3>2. CASE Generate(c)
      <4>1. pc[c] = "templ" /\ pc'[c] = "init" /\ copied' = copied /\ "templ" \notin Skips[c]
        BY <3>2 DEF Generate, TypeOK
      <4>2. Made(c)' = Made(c) \cup {Generated}
        BY <4>1 DEF Made, Later
      <4> QED
        BY <1>0, <3>2, <4>2 DEF Generate, Write, TypeOK
    <3> QED
      BY <1>7, <3>1, <3>2
  <2>2. /\ UNCHANGED <<index, commit, copied, met, removers>>
        /\ pc[c] \in {"gomod", "templ"} /\ pc'[c] \in {"templ", "init"}
    BY <1>7 DEF WriteMod, Generate, TypeOK
  <2>3. Counted(c)'
    BY <2>2 DEF Counted, CreateInv, Later
  <2>4. Made(c) \subseteq Items
    BY MadeItems DEF CreateInv
  <2>5. Kept(c)'
    BY <1>0, <2>1, <2>2, <2>4 DEF CreateInv, Kept, Present, Lost, Building, Later
  <2>6. Own(c)'
    BY <1>0, <2>1, <2>2, <2>4 DEF CreateInv, Own, Building, Later
  <2>7. Aware(c)' /\ Commits(c)'
    BY <1>2, <2>2 DEF CreateInv, Commits, Building, Later
  <2> QED
    BY <2>3, <2>5, <2>6, <2>7 DEF CreateInv
<1>8. CASE GitInit(c) \/ GitAdd(c) \/ GitCommit(c) \/ GitFail(c)
  <2>1. /\ copied' = copied /\ UNCHANGED <<met, removers>>
        /\ pc[c] \in {"init", "add", "commit"} /\ pc'[c] \in {"add", "commit", "done"}
    BY <1>8 DEF GitInit, GitAdd, GitCommit, GitFail, TypeOK
  <2>2. Counted(c)' /\ Made(c)' = Made(c)
    BY <2>1 DEF CreateInv, Counted, Made, Later
  <2>3. Made(c) \subseteq Items \ {Git, Notes}
    BY MadeItems DEF CreateInv
  <2>4. \A j \in Items \ {Git} : writer'[j] = writer[j]
    BY <1>0, <1>8 DEF GitInit, GitAdd, GitCommit, GitFail, Write, TypeOK
  <2>5. Kept(c)' /\ Own(c)'
    BY <2>1, <2>2, <2>3, <2>4 DEF CreateInv, Kept, Own, Lost, Present, Building, Later
  <2>6. Aware(c)'
    BY <1>2, <2>1 DEF Building, Later
  <2>7. Commits(c)'
    <3>1. CASE GitInit(c)
      BY <2>1, <3>1 DEF GitInit, CreateInv, Commits, Building, Later, TypeOK
    <3>2. CASE GitAdd(c)
      <4>1. index' = Present \ {Git} /\ commit' = commit /\ pc[c] = "add" /\ pc'[c] = "commit"
        BY <3>2 DEF GitAdd, TypeOK
      <4>2. met[c] = {} => Made(c) \subseteq Present
        BY <4>1 DEF CreateInv, Kept, Lost, Building, Later
      <4> QED
        BY <2>1, <2>2, <2>3, <4>1, <4>2 DEF CreateInv, Commits, Building, Later
    <3>3. CASE GitCommit(c)
      <4>1. commit' = index /\ pc[c] = "commit" /\ pc'[c] = "done"
        BY <3>3 DEF GitCommit, TypeOK
      <4> QED
        BY <2>1, <2>2, <4>1 DEF CreateInv, Commits, Building, Later
    <3>4. CASE GitFail(c)
      <4>1. commit' = commit /\ pc'[c] = "done"
        BY <3>4 DEF GitFail, TypeOK
      <4> QED
        BY <2>1, <2>2, <4>1 DEF CreateInv, Commits, Building, Later
    <3> QED
      BY <1>8, <3>1, <3>2, <3>3, <3>4
  <2> QED
    BY <2>2, <2>5, <2>6, <2>7 DEF CreateInv
<1> QED
  BY <1>3, <1>4, <1>5, <1>6, <1>7, <1>8 DEF CreateStep

LEMMA NoteStep ==
  ASSUME TypeOK, NEW c \in Creators, CreateInv(c), Note
  PROVE  CreateInv(c)'
<1>1. /\ UNCHANGED <<index, commit, pc, copied, met, removers>>
      /\ Notes \in Items /\ writer[Notes] = Nobody
      /\ writer'[Notes] # Nobody
      /\ \A j \in Items \ {Notes} : writer'[j] = writer[j]
  BY WritersAssumption DEF Note, Write, TypeOK, Items
<1>2. Made(c)' = Made(c) /\ Made(c) \subseteq Items \ {Git, Notes}
  BY <1>1, MadeItems DEF CreateInv, Made
<1>3. Counted(c)' /\ Aware(c)' /\ Commits(c)'
  BY <1>1, <1>2 DEF CreateInv, Counted, Aware, Commits, Lost
<1>4. Kept(c)' /\ Own(c)'
  BY <1>1, <1>2 DEF CreateInv, Kept, Own, Lost, Present
<1> QED
  BY <1>3, <1>4 DEF CreateInv

LEMMA RepoStep == TypeOK /\ RepoGone /\ [Next]_vars => RepoGone'
<1> SUFFICES ASSUME TypeOK, RepoGone, [Next]_vars PROVE RepoGone'
  OBVIOUS
<1> USE DEF Goto
<1>0. /\ Git \in Items /\ GoMod \in Items /\ Generated \in Items /\ Notes \in Items
      /\ Git \notin {GoMod, Generated, Notes} /\ Nobody \notin Creators
  BY ItemsAssumption, WritersAssumption DEF Items
<1>1. ASSUME NEW c \in Creators, CreateStep(c) \/ Kill(c) PROVE RepoGone'
  <2>1. CASE GitInit(c)
    BY <1>0, <2>1 DEF GitInit, Write, TypeOK, RepoGone
  <2>2. CASE GitAdd(c) \/ GitCommit(c)
    BY <2>2 DEF GitAdd, GitCommit, Present, RepoGone
  <2>3. ASSUME NEW i \in Items, RemoveItem(c, i) PROVE RepoGone'
    BY <2>3 DEF RemoveItem, TypeOK, RepoGone
  <2>4. CASE Copy(c)
    <3>1. copied[c] + 1 \in 1 .. Len(Template[c])
      BY <2>4, ItemsAssumption DEF Copy, TypeOK
    <3>2. Template[c][copied[c] + 1] # Git
      BY <3>1, TemplateItems
    <3> QED
      BY <1>0, <2>4, <3>2 DEF Copy, Write, TypeOK, RepoGone
  <2>5. CASE WriteMod(c) \/ Generate(c)
    BY <1>0, <2>5 DEF WriteMod, Generate, Write, TypeOK, RepoGone
  <2>6. CASE \/ Refuse(c) \/ Stat(c) \/ Make(c) \/ MakeFail(c) \/ CopyEnds(c) \/ SkipTempl(c)
             \/ StepFail(c) \/ GitFail(c) \/ RemoveDir(c) \/ RemoveFail(c) \/ Kill(c)
    BY <2>6 DEF Refuse, Stat, Make, MakeFail, CopyEnds, SkipTempl, StepFail, GitFail,
       RemoveDir, RemoveFail, Kill, RepoGone
  <2> QED
    BY <1>1, <2>1, <2>2, <2>3, <2>4, <2>5, <2>6 DEF CreateStep
<1>2. CASE Note
  BY <1>0, <1>2 DEF Note, Write, TypeOK, RepoGone
<1>3. CASE UNCHANGED vars
  BY <1>3 DEF vars, RepoGone
<1> QED
  BY <1>1, <1>2, <1>3 DEF Next

Inv == RepoGone /\ \A c \in Creators : CreateInv(c)

LEMMA InvHolds == Spec => []Inv
<1>1. ASSUME Init PROVE Inv
  <2>1. RepoGone
    BY <1>1 DEF Init, RepoGone
  <2>2. ASSUME NEW c \in Creators PROVE CreateInv(c)
    <3>1. pc[c] = "stat" /\ copied[c] = 0
      BY <1>1 DEF Init
    <3>2. Len(Template[c]) \in Nat
      BY ItemsAssumption
    <3>3. pc[c] \notin Building
      BY <3>1 DEF Building, Later
    <3> QED
      BY <3>1, <3>2, <3>3 DEF CreateInv, Counted, Aware, Kept, Own, Commits, Later
  <2> QED
    BY <2>1, <2>2 DEF Inv
<1>2. TypeOK /\ Inv /\ [Next]_vars => Inv'
  <2> SUFFICES ASSUME TypeOK, Inv, [Next]_vars, NEW c \in Creators PROVE CreateInv(c)'
    BY RepoStep DEF Inv
  <2>1. RepoGone /\ \A d \in Creators : CreateInv(d)
    BY DEF Inv
  <2>2. ASSUME NEW a \in Creators, CreateStep(a) \/ Kill(a) PROVE CreateInv(c)'
    <3>1. CASE a = c
      BY <2>1, <2>2, <3>1, OwnStep
    <3>2. CASE a # c
      BY <2>1, <2>2, <3>2, OthersStep
    <3> QED
      BY <3>1, <3>2
  <2>3. CASE Note
    BY <2>1, <2>3, NoteStep
  <2>4. CASE UNCHANGED vars
    BY <2>1, <2>4 DEF vars, CreateInv, Counted, Aware, Kept, Own, Commits, Made, Lost, Present
  <2> QED
    BY <2>2, <2>3, <2>4 DEF Next
<1> QED
  BY <1>1, <1>2, TypeCorrect, PTL DEF Spec

LEMMA DoneMade ==
  ASSUME NEW c \in Creators, CreateInv(c), pc[c] = "done"
  PROVE  Made(c) = Project(c)
<1>1. DOMAIN Template[c] = 1 .. copied[c]
  BY ItemsAssumption DEF CreateInv, Counted, Later
<1> QED
  BY <1>1 DEF Made, Project, Later

\* A Create that succeeds leaves its whole project unless a failing one it
\* met removed some of it (scaffold.go:63, 81-96, 196-198).
THEOREM Complete == Spec => []SuccessComplete
<1>1. Inv => SuccessComplete
  BY DoneMade DEF Inv, CreateInv, Kept, Lost, SuccessComplete, Building, Later
<1> QED
  BY <1>1, InvHolds, PTL

\* A Create that met no other leaves its own project, and commits all of it
\* (scaffold.go:63, 86-102).
THEOREM Exact == Spec => []AloneIsExact
<1>1. Inv => AloneIsExact
  BY DoneMade DEF Inv, CreateInv, Own, Commits, AloneIsExact, Building, Later
<1> QED
  BY <1>1, InvHolds, PTL
=============================================================================
