------------------------ MODULE RadixCompleteProofs ------------------------
(***************************************************************************)
(* Nothing is missed, and the best comes first.  A failed search has tried *)
(* every branch (NoBranchIsMissed); every inserted route keeps a way of    *)
(* edges that search can take, whatever is split (Ways, one lemma for each *)
(* way insert goes); and along that way the pattern and a path that its    *)
(* file matches are used up side by side (LookupIsComplete).  A child in   *)
(* front of one on a way holds only plain routes and routes that are       *)
(* doubled (Clean), and the wildcard is tried last, so what is answered    *)
(* along the way is no less specific than its file (StaticIsFirst).  And   *)
(* the tree holds nothing that no route needs (TreeIsTight).               *)
(***************************************************************************)
EXTENDS RadixProofs

-----------------------------------------------------------------------------
(* No branch is missed                                                     *)

\* search at a node with what is left of the path: it is answered there, or
\* goes on below.
Answered(n, path) ==
  LET wild == nodes[n].wild
  IN  IF path = <<>> THEN nodes[n].handler # 0
                     ELSE wild # 0 /\ nodes[wild].hole \in CatchAlls /\ nodes[wild].handler # 0

IntoChild(n, path, id, left) ==
  /\ id \in Kids(n)
  /\ nodes[id].path # <<>> /\ IsPrefix(nodes[id].path, path)
  /\ left = Trim(Trim(Drop(path, Len(nodes[id].path))))

IntoWild(n, path, id, left) ==
  /\ id # 0 /\ id = nodes[n].wild
  /\ nodes[id].hole \notin CatchAlls /\ Segment(path) # <<>>
  /\ left = Trim(Drop(path, Len(Segment(path)) + 1))

Branch(n, path, id, left) == path # <<>> /\ (IntoChild(n, path, id, left) \/ IntoWild(n, path, id, left))

\* A way of search through the tree to an answer.
IsWay(way) ==
  /\ way \in Seq(Ids \X Seq(Characters)) /\ way # <<>>
  /\ \A i \in 1 .. Len(way) - 1 : Branch(way[i][1], way[i][2], way[i + 1][1], way[i + 1][2])
  /\ Answered(way[Len(way)][1], way[Len(way)][2])

\* A search fails at a node in front of a child.
FailsFrom(go, n, path, k) == \E p \in Params :
  go[[node |-> n, kid |-> k, path |-> path, params |-> p]].route = 0

\* What has failed, at a node and below it.
LEMMA FailedHere ==
  ASSUME TypeOK, IsTree, NEW go \in Searches, NEW n \in Ids, NEW path \in Seq(Characters), NEW k \in Nat \ {0},
         FailsFrom(go, n, path, k), path # <<>>, k <= Len(nodes[n].kids)
  PROVE  /\ FailsFrom(go, n, path, k + 1)
         /\ \A left : IntoChild(n, path, nodes[n].kids[k], left) =>
              left \in Seq(Characters) /\ FailsFrom(go, nodes[n].kids[k], left, 1)
<1>1. PICK p \in Params : go[[node |-> n, kid |-> k, path |-> path, params |-> p]].route = 0
  BY DEF FailsFrom
<1> DEFINE call == [node |-> n, kid |-> k, path |-> path, params |-> p]
           id == nodes[n].kids[k]
           low == Below(call, id)
           below == go[low]
           fails == nodes[id].path = <<>> \/ ~IsPrefix(nodes[id].path, path)
           next(q) == [node |-> n, kid |-> k + 1, path |-> path, params |-> q]
<1>2. call \in Calls /\ call.node = n /\ call.kid = k /\ call.path = path /\ call.params = p
  BY DEF Calls, Ids
<1>3. id \in Kids(n)
  <2>1. nodes[n] \in NodeType
    BY DEF TypeOK, Ids
  <2>2. nodes[n].kids \in Seq(Nat)
    BY <2>1, NodeKids
  <2>3. k \in DOMAIN nodes[n].kids
    BY <2>2
  <2> QED BY <2>3 DEF Kids, ToSet
<1>4. go[call] = SearchChild(call, go)
  BY <1>2 DEF Searches, Search
<1>5. go[call] = IF fails THEN go[next(p)] ELSE IF below.route # 0 THEN below ELSE go[next(below.params)]
  <2>1. [call EXCEPT !.kid = @ + 1, !.params = below.params] = next(below.params)
    <3> DEFINE b == below.params
               f == [call EXCEPT !.kid = @ + 1, !.params = b]
    <3> HIDE DEF b, call
    <3>1. DOMAIN f = {"node", "kid", "path", "params"}
      BY <1>2 DEF Calls
    <3>2. f.node = n /\ f.kid = k + 1 /\ f.path = path /\ f.params = b
      BY <1>2 DEF Calls
    <3>3. f = [x \in DOMAIN f |-> f[x]]
      OBVIOUS
    <3> HIDE DEF f
    <3>4. f = next(b)
      BY <3>1, <3>2, <3>3
    <3> QED BY <3>4 DEF b, f
  <2>2. [call EXCEPT !.kid = @ + 1] = next(p)
    OBVIOUS
  <2> HIDE DEF next
  <2> QED BY <1>2, <1>4, <2>1, <2>2 DEF SearchChild, Below
<1>6. go[call].route = 0
  BY <1>1
<1>7. \A q : go[next(q)].route = 0 /\ q \in Params => FailsFrom(go, n, path, k + 1)
  BY DEF FailsFrom
<1> HIDE DEF call, id, low, next
<1>8. CASE fails
  <2>1. FailsFrom(go, n, path, k + 1)
    BY <1>5, <1>6, <1>7, <1>8
  <2> QED BY <2>1, <1>8 DEF IntoChild, id
<1>9. CASE ~fails
  <2>1. low \in Calls
    BY <1>2, <1>3, <1>9, AnswerBelow DEF low
  <2>2. below \in Results
    BY <2>1 DEF Searches
  <2>3. below.route = 0 /\ below.params \in Params
    BY <2>2, <1>5, <1>6, <1>9, ResultFields
  <2>4. FailsFrom(go, n, path, k + 1)
    BY <2>3, <1>5, <1>6, <1>7, <1>9
  <2> DEFINE l == Trim(Trim(Drop(path, Len(nodes[id].path))))
  <2>5. low = [node |-> id, kid |-> 1, path |-> l, params |-> p]
    BY <1>2 DEF low, Below, Enter
  <2>6. l \in Seq(Characters)
    <3>1. low.path = l
      BY <2>5
    <3> HIDE DEF l
    <3> QED BY <2>1, <3>1, CallFields
  <2> HIDE DEF l
  <2>7. FailsFrom(go, id, l, 1)
    BY <2>3, <2>5 DEF FailsFrom
  <2>8. \A left : IntoChild(n, path, id, left) => left = l
    BY DEF IntoChild, l
  <2> QED BY <2>4, <2>6, <2>7, <2>8 DEF id
<1> QED BY <1>8, <1>9

\* Behind the children the wildcard has failed.
LEMMA FailedWild ==
  ASSUME TypeOK, IsTree, NEW go \in Searches, NEW n \in Ids, NEW path \in Seq(Characters), NEW k \in Nat \ {0},
         FailsFrom(go, n, path, k), path # <<>>, ~(k <= Len(nodes[n].kids))
  PROVE  /\ ~Answered(n, path)
         /\ \A id, left : IntoWild(n, path, id, left) => left \in Seq(Characters) /\ FailsFrom(go, id, left, 1)
<1>1. PICK p \in Params : go[[node |-> n, kid |-> k, path |-> path, params |-> p]].route = 0
  BY DEF FailsFrom
<1> DEFINE call == [node |-> n, kid |-> k, path |-> path, params |-> p]
           id == nodes[n].wild
           hole == nodes[id].hole
           value == Segment(path)
           q == Bind(p, hole, value)
           l == Trim(Drop(path, Len(value) + 1))
           low == [node |-> id, kid |-> 1, path |-> l, params |-> q]
<1>2. call \in Calls /\ call.node = n /\ call.kid = k /\ call.path = path /\ call.params = p
  BY DEF Calls, Ids
<1>3. go[call] = SearchWild(call, go)
  BY <1>2 DEF Searches, Search
<1>4. id # 0 => /\ hole \in CatchAlls => go[call].route = nodes[id].handler
                /\ hole \notin CatchAlls /\ value # <<>> => go[call] = go[low]
  BY <1>2, <1>3 DEF SearchWild, Result, Enter
<1>5. go[call].route = 0
  BY <1>1
<1>6. ~Answered(n, path)
  BY <1>4, <1>5 DEF Answered
<1>7. ASSUME id # 0, hole \notin CatchAlls, value # <<>> PROVE l \in Seq(Characters) /\ FailsFrom(go, id, l, 1)
  <2>1. hole \in Holes
    BY <1>7 DEF IsTree
  <2>2. value \in Seq(Letter) /\ Drop(path, Len(value) + 1) \in Seq(Characters)
    BY SegmentFacts
  <2>3. l \in Seq(Characters)
    <3> DEFINE d == Drop(path, Len(value) + 1)
    <3> HIDE DEF d
    <3> QED BY <2>2, TrimLetters DEF d
  <2>4. value \in Seq(Characters)
    <3> HIDE DEF value
    <3> QED BY <2>2 DEF Letter
  <2>5. q \in Params
    <3> HIDE DEF value, hole
    <3> QED BY <2>1, <2>4, BindType
  <2>6. go[low].route = 0
    BY <1>4, <1>5, <1>7
  <2> QED BY <2>3, <2>5, <2>6 DEF FailsFrom
<1>8. \A j, left : IntoWild(n, path, j, left) => j = id /\ id # 0 /\ hole \notin CatchAlls /\ value # <<>> /\ left = l
  BY DEF IntoWild
<1> HIDE DEF id, hole, value, l
<1> QED BY <1>6, <1>7, <1>8

\* Where search fails it has tried everything.
Tried(go, n, path, k) ==
  /\ ~Answered(n, path)
  /\ \A id, left : Branch(n, path, id, left) /\ (\A i \in 1 .. k - 1 : id # nodes[n].kids[i]) =>
       id \in Ids /\ left \in Seq(Characters) /\ FailsFrom(go, id, left, 1)

\* What it has tried from a child on, child by child from the last.
LEMMA FailedTried ==
  ASSUME TypeOK, IsTree, NEW go \in Searches, NEW n \in Ids, NEW path \in Seq(Characters), path # <<>>
  PROVE  FailsFrom(go, n, path, 1) => Tried(go, n, path, 1)
<1> DEFINE kids == nodes[n].kids
           m == Len(kids)
           T == {j \in Nat : \A k \in 1 .. m + 1 : m + 1 - k <= j /\ FailsFrom(go, n, path, k) => Tried(go, n, path, k)}
<1>1. kids \in Seq(Nat) /\ m \in Nat
  BY NodeKids DEF TypeOK, Ids
<1>2. \A id \in Kids(n) : id \in Ids /\ \E i \in 1 .. m : id = kids[i]
  BY <1>1, KidIsNode DEF Kids, ToSet
<1>3. nodes[n].wild # 0 => nodes[n].wild \in Ids
  BY DEF IsTree
<1> HIDE DEF m, kids
<1>4. 0 \in T
  <2> SUFFICES ASSUME NEW k \in 1 .. m + 1, m + 1 - k <= 0, FailsFrom(go, n, path, k) PROVE Tried(go, n, path, k)
    BY DEF T
  <2>1. k = m + 1 /\ k \in Nat \ {0} /\ ~(k <= Len(nodes[n].kids))
    BY <1>1 DEF m, kids
  <2>2. /\ ~Answered(n, path)
        /\ \A id, left : IntoWild(n, path, id, left) => left \in Seq(Characters) /\ FailsFrom(go, id, left, 1)
    BY <2>1, FailedWild
  <2>3. ASSUME NEW id, NEW left, IntoChild(n, path, id, left), \A i \in 1 .. k - 1 : id # nodes[n].kids[i]
        PROVE  FALSE
    BY <2>1, <2>3, <1>1, <1>2 DEF IntoChild, kids
  <2>4. \A id, left : IntoWild(n, path, id, left) => id \in Ids
    BY <1>3 DEF IntoWild
  <2> QED BY <2>2, <2>3, <2>4 DEF Tried, Branch
<1>5. ASSUME NEW j \in Nat, j \in T PROVE j + 1 \in T
  <2> SUFFICES ASSUME NEW k \in 1 .. m + 1, m + 1 - k <= j + 1, FailsFrom(go, n, path, k)
               PROVE  Tried(go, n, path, k)
    BY DEF T
  <2>1. CASE k = m + 1
    <3>1. m + 1 - k <= j
      BY <1>1, <2>1
    <3> QED BY <3>1, <1>5 DEF T
  <2>2. CASE k # m + 1
    <3> DEFINE e == k + 1
               kid == nodes[n].kids[k]
    <3>1. k \in 1 .. m /\ k \in Nat \ {0} /\ k <= Len(nodes[n].kids) /\ e \in 1 .. m + 1 /\ m + 1 - e <= j
      <4>1. m + 1 - k <= j + 1 /\ k \in 1 .. m + 1 /\ m \in Nat /\ k # m + 1 /\ j \in Nat
        BY <1>1, <2>2
      <4>2. k \in 1 .. m /\ k \in Nat \ {0} /\ k <= m /\ e \in 1 .. m + 1 /\ m + 1 - e <= j
        BY ONLY <4>1
      <4>3. m = Len(nodes[n].kids)
        BY DEF m, kids
      <4> QED BY <4>2, <4>3
    <3>2. /\ FailsFrom(go, n, path, e)
          /\ \A left : IntoChild(n, path, kid, left) => left \in Seq(Characters) /\ FailsFrom(go, kid, left, 1)
      BY <3>1, FailedHere
    <3>3. Tried(go, n, path, e)
      BY <3>1, <3>2, <1>5 DEF T
    <3>4. ~Answered(n, path)
      BY <3>3 DEF Tried
    <3>5. ASSUME NEW id, NEW left, Branch(n, path, id, left), \A i \in 1 .. k - 1 : id # nodes[n].kids[i]
          PROVE  id \in Ids /\ left \in Seq(Characters) /\ FailsFrom(go, id, left, 1)
      <4>1. CASE id # kid
        <5>1. \A i \in 1 .. e - 1 : i = k \/ i \in 1 .. k - 1
          BY <3>1
        <5>2. \A i \in 1 .. e - 1 : id # nodes[n].kids[i]
          BY <4>1, <5>1, <3>5
        <5> HIDE DEF e
        <5> QED BY <5>2, <3>3, <3>5 DEF Tried
      <4>2. CASE id = kid
        <5>1. kid \in Kids(n) /\ kid \in Ids
          <6>1. k \in DOMAIN kids
            BY <1>1, <3>1 DEF m
          <6>2. kid \in Kids(n)
            BY <6>1 DEF Kids, ToSet, kids
          <6> QED BY <6>2, <1>2
        <5>2. IntoChild(n, path, kid, left)
          <6>1. ~IntoWild(n, path, kid, left)
            BY <5>1 DEF IntoWild, IsTree
          <6> QED BY <6>1, <4>2, <3>5 DEF Branch
        <5> QED BY <4>2, <5>1, <5>2, <3>2
      <4> QED BY <4>1, <4>2
    <3> HIDE DEF e, kid
    <3> QED BY <3>4, <3>5 DEF Tried
  <2> QED BY <2>1, <2>2
<1>6. T = Nat
  <2>1. T \in SUBSET Nat
    BY DEF T
  <2> HIDE DEF T
  <2> QED BY <2>1, <1>4, <1>5, Induction
<1>7. m \in T /\ 1 \in 1 .. m + 1 /\ m + 1 - 1 <= m
  <2> HIDE DEF T
  <2> QED BY <1>1, <1>6
<1> QED BY <1>7 DEF T

\* search finds something on a path when some way through the tree is one for it.
WaysAreFound ==
  \A path \in Seq(Characters) :
    (\E way : IsWay(way) /\ way[1] = <<1, Trim(path)>>) => SearchTree(path).route # 0

\* Down the way a failed search has failed at each node.
LEMMA WaysFound == ASSUME TypeOK, IsTree, KidsFew PROVE WaysAreFound
<1> SUFFICES ASSUME NEW path \in Seq(Characters), NEW way, IsWay(way), way[1] = <<1, Trim(path)>>,
                    SearchTree(path).route = 0
             PROVE  FALSE
  BY DEF WaysAreFound
<1>1. PICK go \in Searches : SearchTree(path) = go[Enter(1, path, Unbound)]
  BY SearchDecided DEF SearchIsDecided
<1> DEFINE m == Len(way)
           T == {i \in Nat : i + 1 <= m => FailsFrom(go, way[i + 1][1], way[i + 1][2], 1)}
<1>2. way \in Seq(Ids \X Seq(Characters)) /\ m \in Nat /\ m # 0
      /\ \A i \in 1 .. m : way[i][1] \in Ids /\ way[i][2] \in Seq(Characters)
  BY DEF IsWay
<1>3. 0 \in T
  <2>1. Unbound \in Params
    BY Nothing DEF Unbound, Params
  <2>2. Enter(1, path, Unbound) = [node |-> 1, kid |-> 1, path |-> Trim(path), params |-> Unbound]
    BY DEF Enter
  <2>3. FailsFrom(go, 1, Trim(path), 1)
    BY <2>1, <2>2, <1>1 DEF FailsFrom
  <2>4. way[0 + 1][1] = 1 /\ way[0 + 1][2] = Trim(path)
    OBVIOUS
  <2> QED BY <2>3, <2>4
<1>4. ASSUME NEW i \in Nat, i \in T PROVE i + 1 \in T
  <2> SUFFICES ASSUME (i + 1) + 1 <= m PROVE FailsFrom(go, way[(i + 1) + 1][1], way[(i + 1) + 1][2], 1)
    OBVIOUS
  <2> DEFINE n == way[i + 1][1]
             left == way[i + 1][2]
             id == way[(i + 1) + 1][1]
             l == way[(i + 1) + 1][2]
  <2>1. i + 1 \in 1 .. m - 1 /\ i + 1 \in 1 .. m
    BY <1>2
  <2>2. n \in Ids /\ left \in Seq(Characters) /\ Branch(n, left, id, l) /\ FailsFrom(go, n, left, 1)
    BY <2>1, <1>2, <1>4 DEF IsWay
  <2> HIDE DEF n, left, id, l
  <2>3. Tried(go, n, left, 1)
    BY <2>2, FailedTried DEF Branch
  <2>4. FailsFrom(go, id, l, 1)
    BY <2>2, <2>3 DEF Tried
  <2> QED BY <2>4 DEF id, l
<1>5. m - 1 \in T
  <2>1. T \in SUBSET Nat
    OBVIOUS
  <2> HIDE DEF T
  <2>2. T = Nat
    BY <2>1, <1>3, <1>4, Induction
  <2> QED BY <2>2, <1>2
<1> DEFINE n == way[m][1]
           left == way[m][2]
<1>6. FailsFrom(go, n, left, 1) /\ n \in Ids /\ left \in Seq(Characters) /\ Answered(n, left)
  <2>1. (m - 1) + 1 = m /\ m \in 1 .. m
    BY <1>2
  <2>2. FailsFrom(go, way[(m - 1) + 1][1], way[(m - 1) + 1][2], 1)
    BY <1>5, <2>1
  <2> QED BY <2>1, <2>2, <1>2 DEF IsWay
<1> HIDE DEF n, left
<1>7. CASE left = <<>>
  <2>1. PICK p \in Params : go[[node |-> n, kid |-> 1, path |-> left, params |-> p]].route = 0
    BY <1>6 DEF FailsFrom
  <2> DEFINE call == [node |-> n, kid |-> 1, path |-> left, params |-> p]
  <2>2. call \in Calls /\ call.node = n /\ call.path = <<>>
    BY <1>6, <1>7 DEF Calls, Ids
  <2>3. go[call].route = nodes[n].handler
    <3> HIDE DEF call
    <3> QED BY <2>2 DEF Searches, Search, Result
  <2> QED BY <2>1, <2>3, <1>6, <1>7 DEF Answered
<1>8. CASE left # <<>>
  BY <1>6, <1>8, FailedTried DEF Tried
<1> QED BY <1>7, <1>8

\* No branch that ends nowhere keeps search from one that does not: it finds
\* something whenever its loops and strips lead to a route in any way (search,
\* radix.go:166-217).
THEOREM NoBranchIsMissed == Spec => []WaysAreFound
<1>1. TreeSpelled /\ KidsFew => WaysAreFound
  BY WaysFound DEF TreeSpelled
<1> QED BY <1>1, TreeIsSpelled, FewAlways, PTL

-----------------------------------------------------------------------------
(* Patterns piece by piece                                                 *)

\* Behind the longest common prefix two sequences differ or one has ended.
LEMMA CommonEnds ==
  ASSUME NEW E, NEW s \in Seq(E), NEW t \in Seq(E)
  PROVE  LET n == Common(s, t) IN n = Len(s) \/ n = Len(t) \/ s[n + 1] # t[n + 1]
<1> DEFINE Is(i) == /\ i <= Len(s) => i > Len(t) \/ s[i] # t[i]
                    /\ \A j \in 1 .. i - 1 : ~(j > Len(t) \/ s[j] # t[j])
           n == Common(s, t)
<1>1. \E i \in 1 .. Len(s) + 1 : Is(i)
  <2> DEFINE T == {i \in 1 .. Len(s) : i > Len(t) \/ s[i] # t[i]}
             m == Len(s)
  <2>1. m \in Nat /\ m = Len(s)
    OBVIOUS
  <2>2. PICK i \in 1 .. m + 1 : IsFirst(i, m, T)
    BY <2>1, FirstExists
  <2> QED BY <2>1, <2>2 DEF IsFirst
<1>2. n = (CHOOSE i \in 1 .. Len(s) + 1 : Is(i)) - 1
  BY DEF Common, First
<1>3. PICK i \in 1 .. Len(s) + 1 : Is(i) /\ n = i - 1
  <2> DEFINE N == 1 .. Len(s) + 1
             c == CHOOSE i \in N : Is(i)
  <2>1. c \in N /\ Is(c)
    <3> HIDE DEF N, Is
    <3> QED BY <1>1 DEF N
  <2> QED BY <2>1, <1>2
<1> HIDE DEF n
<1>4. n + 1 = i /\ n \in 0 .. Len(t)
  <2>1. n \in 0 .. Len(t)
    BY CommonFacts DEF n
  <2> QED BY <2>1, <1>3
<1>5. n = Len(s) \/ n = Len(t) \/ s[n + 1] # t[n + 1]
  BY <1>3, <1>4
<1> QED BY <1>5 DEF n

\* What two sequences begin with both.
Diverge(E, s, t) == \E w, u, v \in Seq(E) :
  /\ s = w \o u /\ t = w \o v
  /\ u = <<>> \/ v = <<>> \/ \E i, j \in E, u2, v2 \in Seq(E) : i # j /\ u = << i >> \o u2 /\ v = << j >> \o v2

\* Two sequences go together up to where one ends or they differ.
LEMMA TheyDiverge == ASSUME NEW E, NEW s \in Seq(E), NEW t \in Seq(E) PROVE Diverge(E, s, t)
<1> DEFINE n == Common(s, t)
           w == SubSeq(s, 1, n)
           u == Drop(s, n)
           v == Drop(t, n)
<1>1. n \in 0 .. Len(s) /\ n \in 0 .. Len(t) /\ SubSeq(s, 1, n) = SubSeq(t, 1, n)
      /\ (n = Len(s) \/ n = Len(t) \/ s[n + 1] # t[n + 1])
  BY CommonFacts, CommonEnds
<1> HIDE DEF n
<1>2. IsCut(E, s, n, SubSeq(s, 1, n), Drop(s, n)) /\ IsCut(E, t, n, SubSeq(t, 1, n), Drop(t, n))
  BY <1>1, Cut
<1>3. /\ w \in Seq(E) /\ u \in Seq(E) /\ v \in Seq(E) /\ s = w \o u /\ t = w \o v
      /\ Len(w) = n /\ Len(u) = Len(s) - n /\ Len(v) = Len(t) - n
  BY <1>1, <1>2 DEF IsCut
<1> HIDE DEF w, u, v
<1>4. CASE u = <<>> \/ v = <<>>
  BY <1>3, <1>4 DEF Diverge
<1>5. CASE u # <<>> /\ v # <<>>
  <2>1. u[1] = s[n + 1] /\ v[1] = t[n + 1] /\ n # Len(s) /\ n # Len(t)
    BY <1>3, <1>5, <1>1
  <2>2. u = << u[1] >> \o Tail(u) /\ v = << v[1] >> \o Tail(v) /\ Tail(u) \in Seq(E) /\ Tail(v) \in Seq(E)
        /\ u[1] \in E /\ v[1] \in E
    BY <1>3, <1>5
  <2>3. u[1] # v[1]
    BY <2>1, <1>1
  <2> QED BY <2>2, <2>3, <1>3 DEF Diverge
<1> QED BY <1>4, <1>5

\* A sequence up to its first slash.
SlashAt(E, s) == \E a \in Seq(E \ {Slash}), b \in Seq(E) : s = a \o b /\ (b = <<>> \/ Head(b) = Slash)

\* Every sequence has such a cut.
LEMMA SlashCut == ASSUME NEW E, NEW s \in Seq(E) PROVE SlashAt(E, s)
<1> DEFINE m == Len(s)
           T == {i \in 1 .. m : s[i] = Slash}
<1>1. m \in Nat /\ m = Len(s)
  OBVIOUS
<1>2. PICK i \in 1 .. m + 1 : IsFirst(i, m, T)
  <2> HIDE DEF T
  <2> QED BY <1>1, FirstExists
<1> DEFINE n == i - 1
           a == SubSeq(s, 1, n)
           b == Drop(s, n)
<1>3. n \in 0 .. Len(s) /\ i = n + 1
  BY <1>1, <1>2
<1>4. \A j \in 1 .. n : s[j] # Slash
  BY <1>2, <1>3, <1>1 DEF IsFirst
<1>5. n < m => s[n + 1] = Slash
  BY <1>2, <1>3, <1>1 DEF IsFirst
<1> HIDE DEF n
<1>6. IsCut(E, s, n, SubSeq(s, 1, n), Drop(s, n))
  BY <1>3, Cut
<1>7. a \in Seq(E) /\ Len(a) = n /\ b \in Seq(E) /\ Len(b) = Len(s) - n /\ s = a \o b
  BY <1>6 DEF IsCut
<1> HIDE DEF a, b
<1>8. a \in Seq(E \ {Slash})
  <2>1. a = [j \in 1 .. n |-> a[j]] /\ n \in Nat
    BY <1>3, <1>7
  <2>2. \A j \in 1 .. n : a[j] \in E \ {Slash}
    <3> SUFFICES ASSUME NEW j \in 1 .. n PROVE a[j] \in E \ {Slash}
      OBVIOUS
    <3>1. a[j] = s[j] /\ s[j] \in E
      <4>1. j \in 1 .. Len(s) /\ j \in 1 .. Len(a)
        BY <1>3, <1>7
      <4>2. s[j] = (a \o b)[j] /\ (a \o b)[j] = a[j]
        BY <4>1, <1>7
      <4> QED BY <4>1, <4>2
    <3> QED BY <3>1, <1>4
  <2> QED BY <2>1, <2>2, SeqOfItems
<1>9. b = <<>> \/ Head(b) = Slash
  <2>1. b # <<>> => Head(b) = s[n + 1] /\ n < m
    BY <1>3, <1>7, <1>1
  <2> QED BY <2>1, <1>5
<1> QED BY <1>7, <1>8, <1>9 DEF SlashAt

\* What is in front of the first slash is determined.
LEMMA ShortSegment ==
  ASSUME NEW E, NEW v \in Seq(E \ {Slash}), NEW w \in Seq(E \ {Slash}), NEW c \in Seq(E), NEW d \in Seq(E),
         c = <<>> \/ Head(c) = Slash, v \o c = w \o d, Len(v) <= Len(w)
  PROVE  v = w
<1>1. v \in Seq(E) /\ w \in Seq(E)
  OBVIOUS
<1>2. PICK x \in Seq(E) : w = v \o x /\ c = x \o d
  <2>1. Between(E, v, c, w, d)
    BY <1>1, TwoCuts
  <2> QED BY <2>1 DEF Between
<1>3. CASE x = <<>>
  BY <1>1, <1>2, <1>3
<1>4. CASE x # <<>>
  <2>1. Head(c) = x[1] /\ c # <<>> /\ x[1] = w[Len(v) + 1] /\ Len(v) + 1 \in 1 .. Len(w)
    BY <1>1, <1>2, <1>4
  <2>2. w[Len(v) + 1] \in E \ {Slash}
    BY <2>1
  <2> QED BY <2>1, <2>2
<1> QED BY <1>3, <1>4

\* Whichever of the two is shorter.
LEMMA SameSegment ==
  ASSUME NEW E, NEW v \in Seq(E \ {Slash}), NEW w \in Seq(E \ {Slash}), NEW c \in Seq(E), NEW d \in Seq(E),
         c = <<>> \/ Head(c) = Slash, d = <<>> \/ Head(d) = Slash, v \o c = w \o d
  PROVE  v = w
<1>1. Len(v) \in Nat /\ Len(w) \in Nat
  OBVIOUS
<1>2. CASE Len(v) <= Len(w)
  BY <1>2, ShortSegment
<1>3. CASE Len(w) <= Len(v)
  BY <1>3, ShortSegment
<1> QED BY <1>1, <1>2, <1>3

\* A sequence put together from pieces, each behind a slash: what is in front
\* of each and what is behind.
Pieced(E, d, P, A) ==
  /\ P \in [0 .. Len(d) -> Seq(E)] /\ A \in [0 .. Len(d) -> Seq(E)]
  /\ P[0] = <<>> /\ A[Len(d)] = <<>>
  /\ \A j \in 1 .. Len(d) : P[j] = P[j - 1] \o (<<Slash>> \o d[j]) /\ A[j - 1] = <<Slash>> \o (d[j] \o A[j])
  /\ \A j \in 0 .. Len(d) : A[0] = P[j] \o A[j]

\* The whole of a pattern or a path that has those pieces.
HasPieces(E, d, whole) == \E P, A : Pieced(E, d, P, A) /\ A[0] = whole

\* Every sequence of names without slashes can be so put together.
LEMMA PiecesExist ==
  ASSUME NEW E, Slash \in E, NEW d \in Seq(Seq(E \ {Slash}))
  PROVE  HasPieces(E, d, FlattenSeq(Slashed(d)))
<1> DEFINE w == Slashed(d)
           m == Len(d)
           one == <<Slash>>
<1>1. w \in Seq(Seq(E)) /\ Len(w) = m /\ \A i \in 1 .. m : w[i] = one \o d[i]
  BY SlashedSteps
<1> HIDE DEF w
<1>2. PICK P : Steps(E, w, P) /\ FlattenSeq(w) = P[Len(w)]
  BY <1>1, StepsOf
<1> DEFINE whole == P[m]
           A == [j \in 0 .. m |-> Drop(whole, Len(P[j]))]
<1>3. /\ P \in [0 .. m -> Seq(E)] /\ P[0] = <<>> /\ m \in Nat /\ one \in Seq(E)
      /\ \A j \in 1 .. m : d[j] \in Seq(E) /\ P[j] = P[j - 1] \o (one \o d[j])
  <2>1. P \in [0 .. m -> Seq(E)] /\ P[0] = <<>> /\ m \in Nat /\ one \in Seq(E)
    BY <1>1, <1>2 DEF Steps
  <2>2. \A j \in 1 .. m : P[j] = P[j - 1] \o w[j]
    BY <1>1, <1>2 DEF Steps
  <2>3. \A j \in 1 .. m : d[j] \in Seq(E)
    OBVIOUS
  <2> QED BY ONLY <2>1, <2>2, <2>3, <1>1
<1>4. whole \in Seq(E)
  BY <1>3
<1> HIDE DEF m, one
<1>5. ASSUME NEW j \in 0 .. m PROVE A[j] \in Seq(E) /\ whole = P[j] \o A[j]
  <2>1. PICK r \in Seq(E) : whole = P[j] \o r
    <3>1. Goes(E, P[Len(w)], P[j])
      BY <1>1, <1>2, StepsLeft
    <3> QED BY <3>1, <1>1 DEF Goes
  <2> DEFINE x == P[j]
             n == Len(x)
  <2>2. x \in Seq(E)
    BY <1>3
  <2> HIDE DEF x, whole
  <2>3. n \in 0 .. Len(whole)
    BY <2>1, <2>2 DEF x
  <2>4. IsCut(E, whole, n, SubSeq(whole, 1, n), Drop(whole, n))
    BY <2>3, <1>4, Cut
  <2>5. SubSeq(whole, 1, n) = x
    <3>1. SubSeq(whole, 1, n) \in Seq(E) /\ Len(SubSeq(whole, 1, n)) = n
      BY <2>4 DEF IsCut
    <3>2. \A i \in 1 .. n : SubSeq(whole, 1, n)[i] = x[i]
      BY <2>1, <2>2, <2>3, <1>4 DEF x
    <3> QED BY <3>1, <3>2, <2>2, SameItems
  <2> QED BY <2>4, <2>5 DEF IsCut, x
<1>6. A \in [0 .. m -> Seq(E)]
  BY <1>5
<1> HIDE DEF A, whole
<1>7. A[0] = whole
  <2>0. 0 \in 0 .. m
    BY <1>3
  <2>1. whole = P[0] \o A[0] /\ A[0] \in Seq(E)
    BY <2>0, <1>5
  <2>2. <<>> \o A[0] = A[0]
    BY <2>1
  <2> QED BY <2>1, <2>2, <1>3
<1>8. A[m] = <<>>
  <2> DEFINE x == A[m]
  <2>1. x \in Seq(E) /\ whole = whole \o x
    BY <1>3, <1>5 DEF whole
  <2> HIDE DEF x
  <2>2. Len(x) = 0
    BY <2>1, <1>4
  <2>3. x = <<>>
    BY <2>1, <2>2
  <2> QED BY <2>3 DEF x
<1>9. ASSUME NEW j \in 1 .. m PROVE A[j - 1] = one \o (d[j] \o A[j])
  <2> DEFINE i == j - 1
             x == P[i]
             y == d[j]
             z == A[j]
             a == A[i]
  <2>1. i \in 0 .. m /\ j \in 0 .. m
    BY <1>3
  <2> HIDE DEF i
  <2>2. x \in Seq(E) /\ y \in Seq(E) /\ z \in Seq(E) /\ a \in Seq(E) /\ P[j] = x \o (one \o y)
        /\ whole = x \o a /\ whole = P[j] \o z
    <3>1. P[j] = P[i] \o (one \o y)
      BY <1>3 DEF i
    <3> QED BY <3>1, <2>1, <1>3, <1>5
  <2> HIDE DEF x, y, z, a
  <2>3. x \o a = x \o (one \o (y \o z))
    <3> DEFINE o == one \o y
    <3>0. one \in Seq(E) /\ x \in Seq(E) /\ y \in Seq(E) /\ z \in Seq(E)
      BY <2>2, <1>3
    <3>1. o \in Seq(E)
      BY <3>0
    <3>2. one \o (y \o z) = o \o z
      BY ONLY <3>0, ConcatAssoc
    <3> HIDE DEF o
    <3>3. x \o (o \o z) = (x \o o) \o z
      BY ONLY <3>0, <3>1, ConcatAssoc
    <3> QED BY <3>2, <3>3, <2>2 DEF o
  <2> DEFINE b == one \o (y \o z)
  <2>4. b \in Seq(E)
    BY <2>2, <1>3
  <2> HIDE DEF b
  <2>5. a = b
    BY <2>2, <2>3, <2>4, CancelLeft DEF b
  <2> QED BY <2>5 DEF a, b, i, y, z
<1>10. Pieced(E, d, P, A)
  <2>1. \A j \in 0 .. m : A[0] = P[j] \o A[j]
    BY <1>5, <1>7
  <2> QED BY <2>1, <1>3, <1>6, <1>8, <1>9 DEF Pieced, m, one
<1>11. A[0] = FlattenSeq(w)
  BY <1>1, <1>2, <1>7 DEF whole
<1> QED BY <1>10, <1>11 DEF HasPieces, w

\* What is behind a piece is another one or nothing.
LEMMA BehindPiece ==
  ASSUME NEW E, Slash \in E, NEW d \in Seq(Seq(E \ {Slash})), NEW P, NEW A, Pieced(E, d, P, A), NEW j \in 0 .. Len(d)
  PROVE  A[j] \in Seq(E) /\ P[j] \in Seq(E) /\ (A[j] = <<>> \/ Head(A[j]) = Slash) /\ (j # Len(d) => A[j] # <<>>)
<1>1. A[j] \in Seq(E) /\ P[j] \in Seq(E)
  BY DEF Pieced
<1>2. CASE j = Len(d)
  BY <1>1, <1>2 DEF Pieced
<1>3. CASE j # Len(d)
  <2> DEFINE k == j + 1
             y == d[k]
             z == A[k]
  <2>1. k \in 1 .. Len(d) /\ k \in 0 .. Len(d) /\ k - 1 = j
    BY <1>3
  <2> HIDE DEF k
  <2>2. A[j] = <<Slash>> \o (y \o z)
    BY <2>1 DEF Pieced
  <2>3. y \in Seq(E) /\ z \in Seq(E)
    <3>1. d[k] \in Seq(E \ {Slash})
      BY <2>1
    <3>2. d[k] \in Seq(E)
      BY <3>1
    <3> QED BY <3>2, <2>1 DEF Pieced
  <2> DEFINE x == y \o z
  <2>4. x \in Seq(E)
    BY <2>3
  <2> HIDE DEF x
  <2>5. <<Slash>> \o x # <<>> /\ Head(<<Slash>> \o x) = Slash
    BY <2>4
  <2> QED BY <2>2, <2>5, <1>1 DEF x
<1> QED BY <1>2, <1>3

\* What is between two slashes, or behind the last, is a piece.
IsPiece(d, e) == \E j \in 1 .. Len(d) : d[j] = e

\* A name between two slashes of a sequence is one of its pieces.
LEMMA PieceAt ==
  ASSUME NEW E, Slash \in E, NEW d \in Seq(Seq(E \ {Slash})), NEW P, NEW A, Pieced(E, d, P, A),
         NEW a \in Seq(E), NEW e \in Seq(E \ {Slash}), NEW b \in Seq(E), b = <<>> \/ Head(b) = Slash,
         A[0] = a \o (<<Slash>> \o (e \o b))
  PROVE  IsPiece(d, e)
<1> DEFINE m == Len(d)
           T == {j \in 0 .. m : Len(P[j]) > Len(a)}
           tail == <<Slash>> \o (e \o b)
           whole == A[0]
<1>1. m \in Nat /\ e \in Seq(E) /\ P \in [0 .. m -> Seq(E)] /\ A \in [0 .. m -> Seq(E)]
      /\ \A j \in 1 .. m : d[j] \in Seq(E \ {Slash}) /\ d[j] \in Seq(E)
  <2>1. m \in Nat /\ e \in Seq(E)
    OBVIOUS
  <2>2. P \in [0 .. m -> Seq(E)] /\ A \in [0 .. m -> Seq(E)]
    BY DEF Pieced
  <2>3. \A j \in 1 .. m : d[j] \in Seq(E \ {Slash})
    OBVIOUS
  <2>4. \A j \in 1 .. m : d[j] \in Seq(E)
    BY <2>3
  <2> QED BY <2>1, <2>2, <2>3, <2>4
<1>2. tail \in Seq(E) /\ Len(tail) > 0 /\ tail # <<>>
  <2> DEFINE x == e \o b
  <2>1. x \in Seq(E)
    BY <1>1
  <2> HIDE DEF x
  <2>2. <<Slash>> \o x \in Seq(E) /\ Len(<<Slash>> \o x) > 0
    BY <2>1
  <2> QED BY <2>2 DEF x
<1>3. m \in T
  <2> DEFINE x == P[m]
  <2>1. x \in Seq(E) /\ whole = x \o <<>>
    <3>1. m \in 0 .. m
      BY <1>1
    <3>2. whole = P[m] \o A[m] /\ A[m] = <<>>
      BY <3>1 DEF Pieced
    <3> QED BY <3>1, <3>2, <1>1
  <2> HIDE DEF x
  <2>2. x \o <<>> = x
    BY <2>1
  <2> HIDE DEF tail
  <2>4. x = a \o tail
    BY <2>1, <2>2 DEF tail
  <2>3. Len(x) > Len(a)
    BY <2>4, <1>2
  <2> QED BY <2>3, <1>1 DEF x
<1>4. PICK j \in T : \A i \in T : j <= i
  <2>1. T \in SUBSET Nat
    OBVIOUS
  <2> HIDE DEF T
  <2> QED BY <2>1, <1>3, Least
<1>5. j # 0
  <2>1. P[0] = <<>>
    BY DEF Pieced
  <2> QED BY <2>1, <1>4
<1> DEFINE i == j - 1
           x == P[i]
           y == d[j]
           z == A[j]
<1>6. i \in 0 .. m /\ j \in 1 .. m /\ j \in 0 .. m /\ ~(j <= i)
  BY <1>4, <1>5, <1>1
<1>7. i \notin T
  BY <1>4, <1>6
<1>8. Len(P[j]) > Len(a) /\ x \in Seq(E)
  BY <1>1, <1>4, <1>6
<1> HIDE DEF T, i
<1>9. Len(x) <= Len(a) /\ Len(x) \in Nat
  <2>1. ~(Len(x) > Len(a))
    BY <1>6, <1>7 DEF T
  <2>2. Len(x) \in Nat /\ Len(a) \in Nat
    BY <1>8
  <2> QED BY <2>1, <2>2
<1>10. /\ y \in Seq(E) /\ y \in Seq(E \ {Slash}) /\ z \in Seq(E)
       /\ P[j] = x \o (<<Slash>> \o y) /\ A[i] = <<Slash>> \o (y \o z) /\ whole = x \o A[i] /\ A[i] \in Seq(E)
  BY <1>1, <1>6 DEF Pieced, i
<1>11. z = <<>> \/ Head(z) = Slash
  BY <1>6, BehindPiece
<1> HIDE DEF x, y, z, m
<1> DEFINE f == y \o z
           g == e \o b
<1>12. f \in Seq(E) /\ g \in Seq(E) /\ A[i] = <<Slash>> \o f /\ tail = <<Slash>> \o g
  BY <1>10, <1>1
<1> HIDE DEF f, g, tail
<1>13. PICK h \in Seq(E) : a = x \o h /\ A[i] = h \o tail
  <2> DEFINE t == A[i]
  <2>1. x \in Seq(E) /\ t \in Seq(E) /\ x \o t = a \o tail
    BY <1>8, <1>10 DEF tail
  <2> HIDE DEF t
  <2>2. Between(E, x, t, a, tail)
    BY <2>1, <1>2, <1>9, TwoCuts
  <2> QED BY <2>2 DEF Between, t
<1>14. CASE h = <<>>
  <2>1. <<Slash>> \o f = <<Slash>> \o g /\ <<Slash>> \in Seq(E)
    <3>1. <<>> \o tail = tail
      BY <1>2
    <3> QED BY <3>1, <1>12, <1>13, <1>14
  <2>2. f = g
    BY <2>1, <1>12, CancelLeft
  <2>3. y = e
    BY <2>2, <1>10, <1>11, SameSegment DEF f, g
  <2> QED BY <2>3, <1>6 DEF y, m, IsPiece
<1>15. CASE h # <<>>
  <2> DEFINE n == Len(h)
  <2>1. n \in Nat \ {0} /\ Len(a) = Len(x) + n
    BY <1>8, <1>13, <1>15
  <2>2. Len(P[j]) = Len(x) + (1 + Len(y)) /\ Len(y) \in Nat
    <3>1. Len(<<Slash>> \o y) = 1 + Len(y) /\ <<Slash>> \o y \in Seq(E)
      BY <1>10
    <3> DEFINE o == <<Slash>> \o y
    <3> HIDE DEF o
    <3>2. Len(x \o o) = Len(x) + Len(o)
      BY <3>1, <1>8 DEF o
    <3> QED BY <3>1, <3>2, <1>10 DEF o
  <2>3. n \in 1 .. Len(y)
    BY <2>1, <2>2, <1>8, <1>9
  <2>4. (h \o tail)[n + 1] = Slash
    <3>1. tail[1] = Slash
      BY <1>12
    <3> QED BY <3>1, <2>1, <1>2
  <2>5. (<<Slash>> \o f)[n + 1] = f[n]
    <3>1. n \in 1 .. Len(f)
      BY <2>3, <1>10 DEF f
    <3> QED BY <3>1, <1>12
  <2>6. f[n] = y[n]
    BY <2>3, <1>10 DEF f
  <2>7. y[n] \in E \ {Slash}
    BY <2>3, <1>10
  <2> QED BY <2>4, <2>5, <2>6, <2>7, <1>12, <1>13
<1> QED BY <1>14, <1>15

\* No slash follows another, and none is the last.
LEMMA NoDouble ==
  ASSUME NEW E, Slash \in E, NEW d \in Seq(Seq(E \ {Slash})), NEW P, NEW A, Pieced(E, d, P, A),
         \A j \in 1 .. Len(d) : d[j] # <<>>,
         NEW a \in Seq(E), NEW b \in Seq(E), A[0] = a \o (<<Slash>> \o b)
  PROVE  b # <<>> /\ Head(b) # Slash
<1> SUFFICES ASSUME b = <<>> \/ Head(b) = Slash PROVE FALSE
  OBVIOUS
<1> DEFINE e == <<>>
<1>1. e \in Seq(E \ {Slash}) /\ e \o b = b
  OBVIOUS
<1>2. A[0] = a \o (<<Slash>> \o (e \o b))
  BY <1>1
<1> HIDE DEF e
<1>3. IsPiece(d, e)
  BY <1>1, <1>2, PieceAt
<1> QED BY <1>3 DEF e, IsPiece

\* What is behind the last slash.
LastSlash(E, w) == \E a \in Seq(E), e \in Seq(E \ {Slash}) : w = a \o (<<Slash>> \o e)

\* A sequence that begins with a slash has a last one.
LEMMA LastSlashCut ==
  ASSUME NEW E, NEW w \in Seq(E), w # <<>>, Head(w) = Slash
  PROVE  LastSlash(E, w)
<1> DEFINE m == Len(w)
           T == {k \in 0 .. m - 1 : w[m - k] = Slash}
<1>1. m \in Nat \ {0} /\ w[1] = Slash /\ m - 1 \in 0 .. m - 1 /\ m - (m - 1) = 1
  OBVIOUS
<1>2. m - 1 \in T /\ T \in SUBSET Nat
  BY <1>1
<1>3. PICK k \in T : \A i \in T : k <= i
  <2> HIDE DEF T
  <2> QED BY <1>2, Least
<1> DEFINE n == m - k
<1>4. n \in 1 .. m /\ w[n] = Slash
  BY <1>1, <1>3
<1>5. \A i \in n + 1 .. m : w[i] # Slash
  <2> SUFFICES ASSUME NEW i \in n + 1 .. m, w[i] = Slash PROVE FALSE
    OBVIOUS
  <2>1. m - i \in 0 .. m - 1 /\ m - (m - i) = i /\ m - i < k
    BY <1>1, <1>3, <1>4
  <2>2. m - i \in T
    BY <2>1
  <2> QED BY <2>1, <2>2, <1>3
<1> HIDE DEF T, n
<1> DEFINE l == n - 1
           a == SubSeq(w, 1, l)
           b == Drop(w, l)
           e == Drop(w, n)
<1>6. l \in 0 .. Len(w) /\ n \in 0 .. Len(w) /\ l + 1 = n
  BY <1>1, <1>4
<1> HIDE DEF l, m
<1>7. IsCut(E, w, l, SubSeq(w, 1, l), Drop(w, l)) /\ IsCut(E, w, n, SubSeq(w, 1, n), Drop(w, n))
  BY <1>6, Cut
<1>8. /\ a \in Seq(E) /\ b \in Seq(E) /\ w = a \o b /\ Len(a) = l
      /\ e \in Seq(E) /\ Len(b) = Len(w) - l /\ Len(e) = Len(w) - n
  BY <1>7 DEF IsCut
<1>9. \A i \in 1 .. Len(b) : b[i] = w[l + i]
  <2> HIDE DEF a, e
  <2>1. \A i \in 1 .. Len(w) - l : Drop(w, l)[i] = w[l + i]
    BY <1>6 DEF Drop
  <2> HIDE DEF b
  <2> QED BY <2>1, <1>8 DEF b
<1>10. \A i \in 1 .. Len(e) : e[i] = w[n + i]
  <2> HIDE DEF a, b
  <2>1. \A i \in 1 .. Len(w) - n : Drop(w, n)[i] = w[n + i]
    BY <1>6 DEF Drop
  <2> HIDE DEF e
  <2> QED BY <2>1, <1>8 DEF e
<1> HIDE DEF a, b, e
<1>11. e \in Seq(E \ {Slash})
  <2>1. e = [i \in 1 .. Len(e) |-> e[i]] /\ Len(e) \in Nat
    BY <1>8
  <2>2. ASSUME NEW i \in 1 .. Len(e) PROVE e[i] \in E \ {Slash}
    <3>1. e[i] \in E
      BY <1>8
    <3>2. n + i \in n + 1 .. m
      BY <1>6, <1>8 DEF m
    <3>3. w[n + i] # Slash
      BY <3>2, <1>5
    <3> QED BY <3>1, <3>3, <1>10
  <2> QED BY <2>1, <2>2, SeqOfItems
<1>12. b = <<Slash>> \o e
  <2> DEFINE c == <<Slash>> \o e
  <2>1. Slash \in E
    BY <1>4 DEF m
  <2>2. c \in Seq(E) /\ Len(c) = 1 + Len(e) /\ c[1] = Slash /\ \A i \in 1 .. Len(e) : c[1 + i] = e[i]
    BY <2>1, <1>8
  <2>3. Len(c) = Len(b)
    <3>1. Len(c) = 1 + Len(e) /\ Len(b) = Len(w) - l /\ Len(e) = Len(w) - n /\ Len(w) \in Nat /\ l \in Nat /\ l + 1 = n
      BY <2>2, <1>6, <1>8
    <3> QED BY ONLY <3>1
  <2>4. ASSUME NEW i \in 1 .. Len(b) PROVE b[i] = c[i]
    <3>1. CASE i = 1
      BY <3>1, <2>2, <1>4, <1>6, <1>9
    <3>2. CASE i # 1
      <4> DEFINE j == i - 1
      <4>1. j \in 1 .. Len(e) /\ i = 1 + j /\ l + i = n + j
        BY <3>2, <1>6, <1>8
      <4> HIDE DEF j, c
      <4> QED BY <4>1, <2>2, <1>9, <1>10
    <3> QED BY <3>1, <3>2
  <2> HIDE DEF c
  <2>5. b = c
    BY <2>2, <2>3, <2>4, <1>8, SameItems
  <2> QED BY <2>5 DEF c
<1> QED BY <1>8, <1>11, <1>12 DEF LastSlash

\* Where one sequence has a slash and the other goes on, a piece of the one
\* begins a longer piece of the other.
Begun(E, d, d2) == \E i \in 1 .. Len(d), j \in 1 .. Len(d2), y \in Seq(E \ {Slash}) : y # <<>> /\ d2[j] = d[i] \o y

\* One of two sequences has a slash where the other goes on with a letter.
LEMMA PieceGoesOn ==
  ASSUME NEW E, Slash \in E, NEW d \in Seq(Seq(E \ {Slash})), NEW d2 \in Seq(Seq(E \ {Slash})),
         NEW P, NEW A, Pieced(E, d, P, A), NEW P2, NEW A2, Pieced(E, d2, P2, A2),
         NEW w \in Seq(E), NEW u \in Seq(E), NEW v \in Seq(E), NEW z \in E, z # Slash,
         A[0] = w \o (<<Slash>> \o u), A2[0] = w \o (<< z >> \o v)
  PROVE  Begun(E, d, d2)
<1> DEFINE su == <<Slash>> \o u
           zv == << z >> \o v
<1>0. su \in Seq(E) /\ su # <<>> /\ Head(su) = Slash /\ zv \in Seq(E) /\ zv # <<>> /\ Head(zv) = z
  OBVIOUS
<1> HIDE DEF su, zv
<1>1. w # <<>> /\ Head(w) = Slash
  <2>1. A2[0] = <<>> \/ Head(A2[0]) = Slash
    <3>1. 0 \in 0 .. Len(d2)
      OBVIOUS
    <3> QED BY <3>1, BehindPiece
  <2>2. A2[0] = w \o zv
    BY DEF zv
  <2>3. w = <<>> => A2[0] = zv
    BY <2>2, <1>0
  <2>4. w # <<>> => w \o zv # <<>> /\ Head(w \o zv) = Head(w)
    BY <1>0
  <2> QED BY <2>1, <2>2, <2>3, <2>4, <1>0
<1>2. PICK a, e : a \in Seq(E) /\ e \in Seq(E \ {Slash}) /\ w = a \o (<<Slash>> \o e)
  <2>1. LastSlash(E, w)
    BY <1>1, LastSlashCut
  <2> QED BY <2>1 DEF LastSlash
<1>3. e \in Seq(E) /\ <<Slash>> \in Seq(E) /\ a \in Seq(E)
  BY <1>2
<1>4. ASSUME NEW t \in Seq(E) PROVE w \o t = a \o (<<Slash>> \o (e \o t))
  <2> DEFINE o == <<Slash>>
  <2>1. o \in Seq(E) /\ e \in Seq(E) /\ a \in Seq(E)
    BY <1>3
  <2> HIDE DEF o
  <2> DEFINE g == o \o e
  <2>2. o \o (e \o t) = g \o t
    BY ONLY <2>1, t \in Seq(E)
  <2>4. g \in Seq(E)
    BY ONLY <2>1
  <2> HIDE DEF g
  <2>3. a \o (g \o t) = (a \o g) \o t
    BY ONLY <2>1, <2>4, t \in Seq(E)
  <2> QED BY <2>2, <2>3, <1>2 DEF g, o
<1>5. PICK i \in 1 .. Len(d) : d[i] = e
  <2>1. A[0] = a \o (<<Slash>> \o (e \o su))
    BY <1>0, <1>4 DEF su
  <2>2. IsPiece(d, e)
    BY <2>1, <1>0, <1>2, PieceAt
  <2> QED BY <2>2 DEF IsPiece
<1>6. PICK y, b : y \in Seq(E \ {Slash}) /\ b \in Seq(E) /\ zv = y \o b /\ (b = <<>> \/ Head(b) = Slash)
  <2>1. SlashAt(E, zv)
    BY <1>0, SlashCut
  <2> QED BY <2>1 DEF SlashAt
<1>7. y # <<>> /\ y \in Seq(E)
  <2>1. y = <<>> => y \o b = b
    BY <1>6
  <2>2. y # <<>>
    BY <2>1, <1>0, <1>6
  <2> QED BY <2>2, <1>6
<1> DEFINE x == e \o y
<1>8. x \in Seq(E \ {Slash})
  BY <1>2, <1>6
<1>9. A2[0] = a \o (<<Slash>> \o (x \o b))
  <2>1. A2[0] = a \o (<<Slash>> \o (e \o zv))
    BY <1>0, <1>4 DEF zv
  <2>2. (e \o y) \o b = e \o (y \o b)
    <3>1. y \in Seq(E) /\ b \in Seq(E)
      BY <1>6, <1>7
    <3>2. e \in Seq(E)
      BY <1>3
    <3> QED BY ONLY <3>1, <3>2, SMTT(60)
  <2> QED BY <2>1, <2>2, <1>6
<1> HIDE DEF x
<1>10. PICK j \in 1 .. Len(d2) : d2[j] = x
  <2>1. IsPiece(d2, x)
    BY <1>2, <1>6, <1>8, <1>9, PieceAt
  <2> QED BY <2>1 DEF IsPiece
<1> QED BY <1>5, <1>6, <1>7, <1>10 DEF Begun, x

\* Plain pieces that are the same or do not begin alike.
Discernible(d, d2) == \A i \in 1 .. Len(d), j \in 1 .. Len(d2) :
  IsPlain(d[i]) /\ IsPlain(d2[j]) => d[i] = d2[j] \/ ~IsPrefix(d[i], d2[j])

\* Names that can be told from each other do not begin each other.
LEMMA NotBegun ==
  ASSUME NEW d, IsPieces(d), NEW d2, IsPieces(d2), Discernible(d, d2)
  PROVE  ~Begun(Signs, d, d2)
<1> SUFFICES ASSUME NEW i \in 1 .. Len(d), NEW j \in 1 .. Len(d2), NEW y \in Seq(Signs \ {Slash}), y # <<>>,
                    d2[j] = d[i] \o y
             PROVE  FALSE
  BY DEF Begun
<1> DEFINE x == d[i]
           z == d2[j]
<1>1. x \in Seq(Alphabet) /\ z \in Seq(Alphabet) /\ (IsPlain(x) \/ IsSign(x)) /\ (IsPlain(z) \/ IsSign(z))
      /\ y \in Seq(Alphabet) /\ z = x \o y
  <2>1. d[i] \in Seq(Alphabet) /\ d2[j] \in Seq(Alphabet)
    <3> DEFINE F == Seq(Alphabet)
    <3>1. d \in Seq(F) /\ d2 \in Seq(F)
      BY DEF IsPieces
    <3> HIDE DEF F
    <3> QED BY <3>1, ItemOf DEF F
  <2>2. IsPlain(x) \/ IsSign(x)
    BY DEF IsPieces
  <2>3. IsPlain(z) \/ IsSign(z)
    BY DEF IsPieces
  <2> QED BY <2>1, <2>2, <2>3 DEF Alphabet
<1>2. IsPlain(x) /\ IsPlain(z) => x = z \/ ~IsPrefix(x, z)
  BY DEF Discernible
<1> HIDE DEF x, z
<1>3. x # <<>>
  <2>1. IsSign(x) => x # <<>>
    BY DEF IsSign
  <2> QED BY <2>1, <1>1 DEF IsPlain
<1>4. Len(z) = Len(x) + Len(y) /\ Len(x) > 0 /\ Len(y) > 0 /\ z[1] = x[1]
  BY <1>1, <1>3
<1>5. ~IsSign(z)
  <2>1. IsSign(z) => Len(z) = 1
    BY DEF IsSign
  <2> QED BY <2>1, <1>1, <1>4
<1>6. ~IsSign(x)
  <2> SUFFICES ASSUME NEW h \in Holes, x = << h >> PROVE FALSE
    BY DEF IsSign
  <2>1. z[1] = h
    BY <1>4
  <2>2. z[1] \in Letter
    BY <1>1, <1>4, <1>5 DEF IsPlain
  <2> QED BY <2>1, <2>2, SlashIsNoHole DEF Letter
<1>7. IsPrefix(x, z)
  BY <1>1, PrefixOf
<1>8. x # z
  BY <1>1, <1>4
<1> QED BY <1>1, <1>2, <1>5, <1>6, <1>7, <1>8

\* The pattern of a file is put together from the pieces of its directories,
\* unless it has none.
LEMMA PatternPieces ==
  ASSUME NEW file \in ToSet(Files)
  PROVE  IF Place(file) = <<>> THEN Pattern(file) = <<Slash>> ELSE HasPieces(Signs, Pieces(file), Pattern(file))
<1> DEFINE d == Pieces(file)
           w == Slashed(d)
<1>1. IsPieces(d) /\ Len(d) = Len(Place(file)) /\ DOMAIN Place(file) = 1 .. Len(Place(file))
      /\ \A i \in DOMAIN Place(file) : d[i] = Normalize(Place(file)[i])
  BY PlacePieces
<1>2. d \in Seq(Seq(Signs \ {Slash})) /\ Slash \in Signs
  BY <1>1, SlashIsNoHole DEF IsPieces, Alphabet, Signs
<1>3. HasPieces(Signs, d, FlattenSeq(w))
  <2> HIDE DEF d
  <2> QED BY <1>2, PiecesExist
<1>4. CASE Place(file) = <<>>
  <2>1. file.dirs = <<>> /\ file.base # "route.go"
    BY <1>4 DEF Place
  <2> QED BY <1>4, <2>1 DEF Pattern
<1>5. CASE Place(file) # <<>> /\ file.dirs = <<>>
  <2> DEFINE api == [form |-> "plain", name |-> Api]
             one == <<Slash>> \o Api
  <2>1. file.base = "route.go"
    BY <1>5 DEF Place
  <2>2. Place(file) = << api >> /\ Pattern(file) = one
    BY <2>1, <1>5 DEF Place, Pattern
  <2>3. Len(d) = 1 /\ d[1] = Api
    <3>1. Normalize(api) = Api
      BY DEF Normalize, IsHole
    <3> QED BY <3>1, <2>2, <1>1
  <2>4. w = << one >>
    <3>1. DOMAIN d = 1 .. 1
      <4> HIDE DEF d
      <4> QED BY <2>3, <1>2
    <3> HIDE DEF d
    <3> QED BY <3>1, <2>3 DEF Slashed
  <2>5. one \in Seq(Characters)
    <3>1. "a" \in Characters /\ "p" \in Characters /\ "i" \in Characters /\ Slash \in Characters
      BY SignsAssumption DEF Slash, Api, ToSet
    <3> QED BY <3>1 DEF Api
  <2> HIDE DEF one, w
  <2>6. FlattenSeq(w) = one
    BY <2>4, <2>5, FlatOne
  <2> QED BY <1>3, <1>5, <2>2, <2>6
<1>6. CASE file.dirs # <<>>
  <2>1. Place(file) = file.dirs
    BY <1>6 DEF Place
  <2>2. w = [i \in DOMAIN file.dirs |-> <<Slash>> \o Normalize(file.dirs[i])]
    BY <2>1 DEF Slashed, Pieces
  <2> HIDE DEF w
  <2>3. Pattern(file) = FlattenSeq(w)
    BY <1>6, <2>2 DEF Pattern
  <2> QED BY <1>3, <1>6, <2>1, <2>3
<1> QED BY <1>4, <1>5, <1>6

\* Four sequences in a row.
Regroups(E, w, o, u, b) == w \o (o \o (u \o b)) = (w \o (o \o u)) \o b

\* The front, a sign, a name and what is behind it, grouped either way.
LEMMA Regroup ==
  ASSUME NEW E, NEW w \in Seq(E), NEW o \in Seq(E), NEW u \in Seq(E), NEW b \in Seq(E)
  PROVE  Regroups(E, w, o, u, b)
<1>1. (o \o u) \o b = o \o (u \o b)
  OBVIOUS
<1> DEFINE g == o \o u
<1>2. g \in Seq(E)
  OBVIOUS
<1> HIDE DEF g
<1>3. w \o (g \o b) = (w \o g) \o b
  BY <1>2
<1> QED BY <1>1, <1>3 DEF g, Regroups

\* Where the pattern of d2 parts from that of d at a slash, d2 has it too.
SlashTogether(p, p2) == \A w, u, v \in Seq(Signs), z \in Signs :
  p = w \o (<<Slash>> \o u) /\ p2 = w \o (<< z >> \o v) => z = Slash

\* Patterns of such names have their slashes together.
LEMMA NotBySlash ==
  ASSUME NEW d, IsPieces(d), NEW d2, IsPieces(d2), Discernible(d, d2),
         NEW p, HasPieces(Signs, d, p), NEW p2, HasPieces(Signs, d2, p2)
  PROVE  SlashTogether(p, p2)
<1>1. d \in Seq(Seq(Signs \ {Slash})) /\ d2 \in Seq(Seq(Signs \ {Slash})) /\ Slash \in Signs
  BY SlashIsNoHole DEF IsPieces, Alphabet, Signs
<1>2. ~Begun(Signs, d, d2)
  BY NotBegun
<1>3. PICK P, A : Pieced(Signs, d, P, A) /\ A[0] = p
  BY DEF HasPieces
<1>4. PICK P2, A2 : Pieced(Signs, d2, P2, A2) /\ A2[0] = p2
  BY DEF HasPieces
<1> SUFFICES ASSUME NEW w \in Seq(Signs), NEW u \in Seq(Signs), NEW v \in Seq(Signs), NEW z \in Signs,
                    p = w \o (<<Slash>> \o u), p2 = w \o (<< z >> \o v), z # Slash
             PROVE  Begun(Signs, d, d2)
  BY <1>2 DEF SlashTogether
<1>5. A[0] = w \o (<<Slash>> \o u) /\ A2[0] = w \o (<< z >> \o v)
  BY <1>3, <1>4
<1> QED BY <1>1, <1>3, <1>4, <1>5, PieceGoesOn

\* A letter of a pattern, what is in front of it and what is behind.
AtLetter(p, q, x, b) == q \in Seq(Signs) /\ x \in Alphabet /\ b \in Seq(Signs) /\ p = q \o (<< x >> \o b)

\* Two beginnings of patterns with the same letters, in front of one letter.
LEMMA SamePlace ==
  ASSUME NEW p, NEW p2, SlashTogether(p, p2), SlashTogether(p2, p),
         NEW q, NEW q2, NEW x, NEW b, NEW b2, AtLetter(p, q, x, b), AtLetter(p2, q2, x, b2), Letters(q) = Letters(q2)
  PROVE  q = q2
<1>0. /\ q \in Seq(Signs) /\ q2 \in Seq(Signs) /\ x \in Alphabet /\ b \in Seq(Signs) /\ b2 \in Seq(Signs)
      /\ p = q \o (<< x >> \o b) /\ p2 = q2 \o (<< x >> \o b2)
  BY DEF AtLetter
<1> DEFINE o == << x >>
           s == q \o o
           t == q2 \o o
<1>1. o \in Seq(Signs) /\ x \in Signs /\ x # Slash /\ Len(o) = 1 /\ o[1] = x
  BY <1>0 DEF Alphabet
<1>2. s \in Seq(Signs) /\ t \in Seq(Signs)
  BY <1>0, <1>1
<1>3. p = s \o b /\ p2 = t \o b2
  <2>1. p = q \o (o \o b) /\ p2 = q2 \o (o \o b2)
    BY <1>0
  <2> HIDE DEF o
  <2>2. q \o (o \o b) = (q \o o) \o b
    BY <1>0, <1>1, ConcatAssoc
  <2>3. q2 \o (o \o b2) = (q2 \o o) \o b2
    BY <1>0, <1>1, ConcatAssoc
  <2> QED BY <2>1, <2>2, <2>3
<1>4. Letters(s) = Letters(t)
  <2> HIDE DEF o
  <2>1. Letters(q \o o) = Letters(q) \o Letters(o)
    BY <1>0, <1>1, LettersConcat
  <2>2. Letters(q2 \o o) = Letters(q2) \o Letters(o)
    BY <1>0, <1>1, LettersConcat
  <2> QED BY <2>1, <2>2
<1>5. ASSUME NEW r \in Seq(Signs), NEW c \in Seq(Signs), r = c \o o, NEW w \in Seq(Signs), NEW y \in Seq(Signs), r = w \o y,
             Letters(y) = <<>>
      PROVE  y = <<>>
  <2> SUFFICES ASSUME y # <<>> PROVE FALSE
    OBVIOUS
  <2>1. Len(y) \in 1 .. Len(y)
    OBVIOUS
  <2>2. y[Len(y)] = Slash
    BY <2>1, <1>5, NoLetters
  <2>3. r[Len(r)] = x
    <3> HIDE DEF o
    <3>1. Joins(Signs, c \o o, c, o)
      BY <1>1, ConcatItems
    <3>2. r \in Seq(Signs) /\ Len(r) = Len(c) + 1 /\ 1 \in 1 .. Len(o)
      BY <1>1, <1>5, <3>1 DEF Joins
    <3> QED BY <3>1, <3>2, <1>1, <1>5 DEF Joins
  <2>4. r[Len(r)] = y[Len(y)]
    <3>1. Len(w \o y) = Len(w) + Len(y) /\ (w \o y)[Len(w) + Len(y)] = y[Len(y)]
      BY ONLY <2>1, w \in Seq(Signs), y \in Seq(Signs)
    <3> QED BY <3>1, <1>5
  <2> QED BY <2>2, <2>3, <2>4, <1>1
<1>6. s = t => q = q2
  <2> HIDE DEF o
  <2> QED BY <1>0, <1>1, Cancel
<1> HIDE DEF s, t
<1>7. PICK w, u, v \in Seq(Signs) :
        /\ s = w \o u /\ t = w \o v
        /\ \/ u = <<>> \/ v = <<>>
           \/ \E i, j \in Signs, u2, v2 \in Seq(Signs) : i # j /\ u = << i >> \o u2 /\ v = << j >> \o v2
  <2>1. Diverge(Signs, s, t)
    BY <1>2, TheyDiverge
  <2> QED BY <2>1 DEF Diverge
<1>8. Letters(u) = Letters(v)
  <2>1. Letters(w \o u) = Letters(w) \o Letters(u) /\ Letters(w \o v) = Letters(w) \o Letters(v)
    BY <1>7, LettersConcat
  <2>2. Letters(w) \in Seq(Alphabet) /\ Letters(u) \in Seq(Alphabet) /\ Letters(v) \in Seq(Alphabet)
    BY <1>7, LettersOfText
  <2> DEFINE lw == Letters(w)
             lu == Letters(u)
             lv == Letters(v)
  <2>3. lw \o lu = lw \o lv
    BY <2>1, <1>4, <1>7
  <2> HIDE DEF lw, lu, lv
  <2>4. lu = lv
    BY <2>2, <2>3, CancelLeft DEF lw, lu, lv
  <2> QED BY <2>4 DEF lu, lv
<1>9. CASE u = <<>> \/ v = <<>>
  <2>1. Letters(u) = <<>> /\ Letters(v) = <<>>
    BY <1>8, <1>9, LettersFew
  <2>2. u = <<>> /\ v = <<>>
    BY <2>1, <1>0, <1>2, <1>5, <1>7 DEF s, t
  <2>3. s = t
    BY <2>2, <1>7
  <2> QED BY <2>3, <1>6
<1>10. ASSUME NEW i \in Signs, NEW j \in Signs, NEW u2 \in Seq(Signs), NEW v2 \in Seq(Signs),
              i # j, u = << i >> \o u2, v = << j >> \o v2
       PROVE  FALSE
  <2> DEFINE oi == << i >>
             oj == << j >>
             ub == u2 \o b
             vb == v2 \o b2
  <2>1. oi \in Seq(Signs) /\ oj \in Seq(Signs) /\ ub \in Seq(Signs) /\ vb \in Seq(Signs)
    BY <1>0
  <2>2. p = w \o (oi \o ub) /\ p2 = w \o (oj \o vb)
    <3> HIDE DEF oi, oj
    <3>1. p = (w \o (oi \o u2)) \o b /\ p2 = (w \o (oj \o v2)) \o b2
      BY <1>3, <1>7, <1>10 DEF oi, oj
    <3>2. w \in Seq(Signs)
      BY <1>7
    <3>3. Regroups(Signs, w, oi, u2, b) /\ Regroups(Signs, w, oj, v2, b2)
      BY <1>0, <2>1, <3>2, Regroup
    <3> QED BY <3>1, <3>3 DEF Regroups
  <2> HIDE DEF ub, vb
  <2>3. CASE i = Slash
    <3>1. p = w \o (<<Slash>> \o ub) /\ p2 = w \o (<< j >> \o vb)
      BY <2>2, <2>3
    <3>2. j = Slash
      <4>1. w \in Seq(Signs)
        BY <1>7
      <4> QED BY <3>1, <4>1, <2>1 DEF SlashTogether
    <3> QED BY <3>2, <2>3, <1>10
  <2>4. CASE j = Slash
    <3>1. p2 = w \o (<<Slash>> \o vb) /\ p = w \o (<< i >> \o ub)
      BY <2>2, <2>4
    <3>2. i = Slash
      <4>1. w \in Seq(Signs)
        BY <1>7
      <4> QED BY <3>1, <4>1, <2>1 DEF SlashTogether
    <3> QED BY <3>2, <2>4, <1>10
  <2>5. CASE i # Slash /\ j # Slash
    <3> HIDE DEF oi, oj
    <3>1. Letters(oi \o u2) = Letters(oi) \o Letters(u2) /\ Letters(oj \o v2) = Letters(oj) \o Letters(v2)
      BY <2>1, LettersConcat
    <3>2. Letters(oi) = << i >> /\ Letters(oj) = << j >>
      BY <2>5, LettersFew DEF oi, oj
    <3>3. Letters(u2) \in Seq(Alphabet) /\ Letters(v2) \in Seq(Alphabet) /\ i \in Alphabet /\ j \in Alphabet
      BY <2>5, LettersOfText DEF Alphabet
    <3> DEFINE lu == Letters(u2)
               lv == Letters(v2)
    <3>4. << i >> \o lu = << j >> \o lv
      BY <3>1, <3>2, <1>8, <1>10 DEF oi, oj
    <3> HIDE DEF lu, lv
    <3>5. lu \in Seq(Alphabet) /\ lv \in Seq(Alphabet)
      BY <3>3 DEF lu, lv
    <3>6. (<< i >> \o lu)[1] = i /\ (<< j >> \o lv)[1] = j
      BY <3>3, <3>5
    <3> QED BY <3>4, <3>6, <1>10
  <2> QED BY <2>3, <2>4, <2>5
<1> QED BY <1>7, <1>9, <1>10

\* s is what the text of a node leaves of the pattern.
Leaves(tx, p, n, s) == \E q \in Seq(Signs) : p = q \o s /\ Letters(q) = tx[n]

\* A child has been split: new is the lower half.
Halved(ns, tx, ns2, tx2, n, kid, new, above, below) ==
  /\ kid \in DOMAIN ns /\ kid # n /\ kid # 1 /\ n \in DOMAIN ns /\ kid \in ToSet(ns[n].kids) /\ kid \notin ToSet(ns[kid].kids)
  /\ \A k \in DOMAIN ns : (k # n => kid \notin ToSet(ns[k].kids)) /\ ns[k].wild # kid
  /\ new \notin DOMAIN ns /\ DOMAIN ns2 = DOMAIN ns \cup {new}
  /\ above \in Seq(Signs) /\ above # <<>> /\ below \in Seq(Signs) /\ below # <<>>
  /\ ns[kid].path = above \o below
  /\ ns2[kid].path = above /\ ToSet(ns2[kid].kids) = {new}
  /\ ns2[new].path = below /\ ToSet(ns2[new].kids) = ToSet(ns[kid].kids)
  /\ ns2[new].wild = ns[kid].wild /\ ns2[new].handler = ns[kid].handler
  /\ tx2[kid] = tx[n] \o Letters(above) /\ tx2[new] = tx[kid]
  /\ \A k \in DOMAIN ns : k # kid => ns2[k] = ns[k] /\ tx2[k] = tx[k]

\* r is the end of p.
EndsWith(E, p, r) == \E q \in Seq(E) : p = q \o r

\* An end of an end is an end.
LEMMA EndsFurther ==
  ASSUME NEW E, NEW p, NEW r \in Seq(E), NEW t \in Seq(E), EndsWith(E, p, r), EndsWith(E, r, t)
  PROVE  EndsWith(E, p, t)
<1>1. PICK q \in Seq(E) : p = q \o r
  BY DEF EndsWith
<1>2. PICK u \in Seq(E) : r = u \o t
  BY DEF EndsWith
<1>3. q \o (u \o t) = (q \o u) \o t
  OBVIOUS
<1>4. q \o u \in Seq(E)
  OBVIOUS
<1> QED BY <1>1, <1>2, <1>3, <1>4 DEF EndsWith

\* Trim leaves an end.
LEMMA TrimEnds == ASSUME NEW E, NEW s \in Seq(E) PROVE EndsWith(E, s, Trim(s)) /\ Trim(s) \in Seq(E)
<1>1. CASE s # <<>> /\ Head(s) = Slash
  <2>1. s = << Head(s) >> \o Tail(s) /\ << Head(s) >> \in Seq(E) /\ Tail(s) \in Seq(E)
    BY <1>1
  <2> QED BY <1>1, <2>1 DEF Trim, EndsWith
<1>2. CASE ~(s # <<>> /\ Head(s) = Slash)
  <2>1. s = <<>> \o s /\ <<>> \in Seq(E)
    OBVIOUS
  <2> QED BY <1>2, <2>1 DEF Trim, EndsWith
<1> QED BY <1>1, <1>2

\* Behind a text that ends a pattern, that end is left.
LEMMA LeavesRest ==
  ASSUME NEW tx, NEW p \in Seq(Signs), NEW n, tx[n] \in Seq(Alphabet), NEW r \in Seq(Signs),
         EndsWith(Signs, p, r), tx[n] \o Letters(r) = Letters(p)
  PROVE  Leaves(tx, p, n, r)
<1>1. PICK q \in Seq(Signs) : p = q \o r
  BY DEF EndsWith
<1> DEFINE a == tx[n]
           b == Letters(q)
           c == Letters(r)
<1>2. a \in Seq(Alphabet) /\ b \in Seq(Alphabet) /\ c \in Seq(Alphabet)
  BY LettersOfText
<1>3. a \o c = b \o c
  BY <1>1, LettersConcat
<1> HIDE DEF a, b, c
<1>4. a = b
  BY <1>2, <1>3, Cancel
<1> QED BY <1>1, <1>4 DEF a, b, Leaves

\* Trim takes no letters away.
LEMMA LeavesTrim ==
  ASSUME NEW tx, NEW p, NEW n, NEW s \in Seq(Signs), Leaves(tx, p, n, s)
  PROVE  Leaves(tx, p, n, Trim(s)) /\ Trim(s) \in Seq(Signs)
<1>1. PICK q \in Seq(Signs) : p = q \o s /\ Letters(q) = tx[n]
  BY DEF Leaves
<1>2. PICK u \in Seq(Signs) : s = u \o Trim(s)
  BY TrimEnds DEF EndsWith
<1> DEFINE t == Trim(s)
<1>3. t \in Seq(Signs) /\ Letters(t) = Letters(s)
  BY TrimLetters
<1>4. s = u \o t
  BY <1>2
<1> HIDE DEF t
<1>5. q \o (u \o t) = (q \o u) \o t /\ q \o u \in Seq(Signs)
  BY <1>3
<1>6. Letters(u) = <<>>
  <2> DEFINE a == Letters(u)
             b == Letters(t)
  <2>1. a \in Seq(Alphabet) /\ b \in Seq(Alphabet)
    BY <1>3, LettersOfText
  <2>2. b = a \o b
    BY <1>3, <1>4, LettersConcat
  <2> HIDE DEF a, b
  <2>3. Len(a) = 0
    BY <2>1, <2>2
  <2>4. a = <<>>
    BY <2>1, <2>3
  <2> QED BY <2>4 DEF a
<1>7. Letters(q \o u) = tx[n]
  <2>1. Letters(q \o u) = Letters(q) \o <<>>
    BY <1>6, LettersConcat
  <2>2. Letters(q) \in Seq(Alphabet)
    BY LettersOfText
  <2>3. Letters(q) \o <<>> = Letters(q)
    BY <2>2
  <2> QED BY <2>1, <2>3, <1>1
<1>8. p = (q \o u) \o t
  BY <1>1, <1>4, <1>5
<1>9. Leaves(tx, p, n, t)
  BY <1>5, <1>7, <1>8 DEF Leaves
<1> QED BY <1>3, <1>9 DEF t

\* What insert has left of a pattern is its end.
RestLeft == at # 0 => EndsWith(Signs, Pattern(routes[begun]), rest)

\* The plain names of the route begin none of another's, nor those its.
Apart(i) == \A f \in DOMAIN routes : /\ Discernible(Pieces(routes[i]), Pieces(routes[f]))
                                     /\ Discernible(Pieces(routes[f]), Pieces(routes[i]))

Fair(i) == ~Torn(i) /\ Apart(i)

\* Which routes are fair does not depend on the tree.
LEMMA FairStays == ASSUME routes' = routes, NEW i PROVE Fair(i)' <=> Fair(i)
BY DEF Fair, Torn, Apart

\* The call of insert at hand.
LEMMA AtCall ==
  ASSUME TypeOK, AfterWalk, TextsSpelled, RestLeft, at # 0
  PROVE  LET p == Pattern(routes[begun])
         IN  /\ p \in Seq(Signs) /\ Leaves(text, p, at, rest)
             /\ Leaves(text, p, at, Trim(rest)) /\ Trim(rest) \in Seq(Signs)
<1> DEFINE p == Pattern(routes[begun])
<1>1. /\ at \in Ids /\ begun \in DOMAIN routes /\ text[at] \in Seq(Alphabet) /\ rest \in Seq(Signs)
  BY Busy
<1>2. p \in Seq(Signs)
  BY <1>1, RouteLetters
<1>3. EndsWith(Signs, p, rest) /\ text[at] \o Letters(rest) = Letters(p)
  BY DEF RestLeft, TextsSpelled
<1> HIDE DEF p
<1>4. Leaves(text, p, at, rest)
  BY <1>1, <1>2, <1>3, LeavesRest
<1>5. Leaves(text, p, at, Trim(rest)) /\ Trim(rest) \in Seq(Signs)
  BY <1>1, <1>4, LeavesTrim
<1> QED BY <1>2, <1>4, <1>5 DEF p

\* How a call of insert cuts what is left.
LEMMA TrimCutOwn ==
  ASSUME rest \in Seq(Signs)
  PROVE  /\ Own \in Seq(Characters) /\ Own \in Seq(Signs) /\ After \in Seq(Signs) /\ Trim(rest) = Own \o After
         /\ Trim(rest) \in Seq(Signs) /\ (After = <<>> \/ Head(After) \in Holes)
         /\ EndsWith(Signs, rest, Trim(rest)) /\ EndsWith(Signs, rest, After)
<1> DEFINE s == Trim(rest)
<1>1. s \in Seq(Signs) /\ EndsWith(Signs, rest, s)
  BY TrimEnds
<1>2. Own = Fixed(s) /\ After = Drop(s, Len(Fixed(s)))
  BY DEF Own, After
<1> HIDE DEF s
<1>3. /\ Own \in Seq(Characters) /\ After \in Seq(Signs) /\ s = Own \o After
      /\ (After = <<>> \/ Head(After) \in Holes)
  BY <1>1, <1>2, FixedFacts
<1>4. Own \in Seq(Signs)
  BY <1>3 DEF Signs
<1>5. EndsWith(Signs, s, After)
  BY <1>3, <1>4 DEF EndsWith
<1>6. EndsWith(Signs, rest, After)
  BY <1>1, <1>3, <1>5, EndsFurther
<1> QED BY <1>1, <1>3, <1>4, <1>6 DEF s

\* What follows does not begin with a slash.
LEMMA AfterIsOpen == ASSUME After \in Seq(Signs), After = <<>> \/ Head(After) \in Holes PROVE Trim(After) = After
BY SlashIsNoHole DEF Trim

\* And how a child cuts that again.
SharedCuts(above, more) ==
  /\ above \in Seq(Characters) /\ above \in Seq(Signs) /\ above # <<>> /\ Len(above) = Shared
  /\ more \in Seq(Characters) /\ more \in Seq(Signs) /\ Own = above \o more /\ Left = Trim(more) /\ Left \in Seq(Signs)
  /\ Left \in Seq(Characters)
  /\ more \o After \in Seq(Signs) /\ Trim(rest) = above \o (more \o After)
  /\ Left \o After \in Seq(Signs)
  /\ (more # <<>> \/ Left \o After = After) /\ Trim(more \o After) = Left \o After
  /\ Shared = Len(nodes[Child].path) => nodes[Child].path = above

\* What Own shares with the child cuts both in two.
LEMMA SharedCut ==
  ASSUME TypeOK, IsTree, at \in Ids, Shares, rest \in Seq(Signs)
  PROVE  SharedCuts(SubSeq(Own, 1, Shared), Drop(Own, Shared))
<1> DEFINE n == Shared
           own == Own
           above == SubSeq(own, 1, n)
           more == Drop(own, n)
           path == nodes[Child].path
           after == After
<1>1. /\ own \in Seq(Characters) /\ own \in Seq(Signs) /\ after \in Seq(Signs) /\ Trim(rest) = own \o after
      /\ (after = <<>> \/ Head(after) \in Holes)
  BY TrimCutOwn
<1>2. n \in 0 .. Len(own) /\ n > 0 /\ above = SubSeq(path, 1, n) /\ n \in 0 .. Len(path) /\ path \in Seq(Characters)
  BY ChildFacts, KidIsNode DEF NodeType
<1>3. Left = Trim(more)
  BY DEF Left
<1>4. Trim(after) = after
  BY <1>1, AfterIsOpen
<1>5. n = Len(path) => path = above
  <2> HIDE DEF path, above
  <2>1. SubSeq(path, 1, Len(path)) = path
    BY <1>2
  <2> QED BY <2>1, <1>2
<1> HIDE DEF n, own, path, after
<1>6. IsCut(Characters, own, n, SubSeq(own, 1, n), Drop(own, n))
  BY <1>1, <1>2, Cut
<1>7. above \in Seq(Characters) /\ Len(above) = n /\ more \in Seq(Characters) /\ own = above \o more
  BY <1>6 DEF IsCut
<1> HIDE DEF above, more
<1>8. above \in Seq(Signs) /\ more \in Seq(Signs) /\ above # <<>>
  <2>1. above \in Seq(Signs) /\ more \in Seq(Signs)
    BY <1>7 DEF Signs
  <2>2. Len(above) # 0
    BY <1>2, <1>7
  <2> QED BY <2>1, <2>2
<1> DEFINE left == Trim(more)
<1>9. left \in Seq(Signs) /\ left \in Seq(Characters)
  BY <1>7, <1>8, TrimLetters
<1>10. more \o after \in Seq(Signs) /\ (above \o more) \o after = above \o (more \o after)
  BY <1>1, <1>8
<1>11. (more # <<>> \/ left \o after = after) /\ Trim(more \o after) = left \o after /\ left \o after \in Seq(Signs)
  <2>1. left \o after \in Seq(Signs)
    <3> HIDE DEF left
    <3> QED BY <1>9, <1>1
  <2>2. CASE more = <<>>
    <3>1. left = <<>>
      BY <2>2 DEF Trim
    <3>2. more \o after = after /\ left \o after = after
      BY <2>2, <3>1, <1>1
    <3> QED BY <3>2, <2>1, <1>4
  <2>3. CASE more # <<>>
    <3> DEFINE both == more \o after
    <3>1. both # <<>> /\ Head(both) = Head(more) /\ Tail(both) = Tail(more) \o after
      BY <2>3, <1>1, <1>8
    <3> HIDE DEF both
    <3>2. Trim(both) = left \o after
      BY <3>1, <2>3 DEF Trim, both
    <3> QED BY <3>2, <2>1, <2>3 DEF both
  <2> QED BY <2>2, <2>3
<1> HIDE DEF left
<1>12. Trim(rest) = above \o (more \o after)
  BY <1>1, <1>7, <1>10
<1> QED BY <1>3, <1>5, <1>7, <1>8, <1>9, <1>10, <1>11, <1>12 DEF SharedCuts, n, own, above, more, after, left, path

\* The steps of insert go on with an end of the pattern.
LEMMA RestStays ==
  ASSUME TypeOK, IsTree, AfterWalk, RestLeft, Unwalked,
         InsertWild \/ AddChild \/ SplitChild \/ Descend \/ AddBelow
  PROVE  RestLeft' /\ at' # 0 /\ at # 0 /\ begun' = begun
<1> DEFINE p == Pattern(routes[begun])
<1>1. at # 0 /\ begun' = begun /\ routes' = routes
  BY DEF InsertWild, AddChild, SplitChild, Descend, AddBelow, OnText, Inserting, Unwalked
<1>2. at \in Ids /\ begun \in DOMAIN routes /\ rest \in Seq(Signs)
  BY <1>1, Busy
<1>3. p \in Seq(Signs) /\ EndsWith(Signs, p, rest)
  BY <1>1, <1>2, RouteLetters DEF RestLeft
<1>4. Len(nodes) + 1 # 0 /\ 0 \notin Ids
  BY DEF TypeOK, Ids
<1> SUFFICES at' # 0 /\ EndsWith(Signs, p, rest')
  BY <1>1 DEF RestLeft
<1> HIDE DEF p
<1>5. After \in Seq(Signs) /\ EndsWith(Signs, rest, After) /\ EndsWith(Signs, p, After)
  <2>1. After \in Seq(Signs) /\ EndsWith(Signs, rest, After)
    BY <1>2, TrimCutOwn
  <2> QED BY <2>1, <1>2, <1>3, EndsFurther
<1>6. CASE InsertWild
  <2>1. rest' = Trim(Tail(After)) /\ Own = <<>> /\ rest \notin {<<>>, <<Slash>>} /\ at' \in {nodes[at].wild, Len(nodes) + 1}
        /\ (at' = nodes[at].wild => nodes[at].wild # 0)
    BY <1>6, <1>4 DEF InsertWild, Call
  <2> DEFINE t == Tail(After)
             o == << Head(After) >>
             a == After
  <2>2. a \in Seq(Signs) /\ a # <<>>
    <3>1. Trim(rest) = Own \o After
      BY <1>2, TrimCutOwn
    <3>2. Trim(rest) # <<>>
      <4>1. rest # <<>> /\ rest # <<Slash>>
        BY <2>1
      <4>2. Tail(rest) = <<>> => rest = << Head(rest) >>
        BY <4>1, <1>2, Alone
      <4> QED BY <4>1, <4>2 DEF Trim
    <3>3. Own \o After = After
      BY <2>1, <1>5
    <3> QED BY <3>1, <3>2, <3>3, <1>5
  <2>3. t \in Seq(Signs) /\ o \in Seq(Signs) /\ a = o \o t
    <3> HIDE DEF a
    <3>1. Tail(a) \in Seq(Signs) /\ << Head(a) >> \in Seq(Signs) /\ a = << Head(a) >> \o Tail(a)
      BY <2>2
    <3> QED BY <3>1 DEF a
  <2>4. EndsWith(Signs, a, t) /\ a \in Seq(Signs) /\ EndsWith(Signs, p, a)
    BY <2>2, <2>3, <1>5 DEF EndsWith
  <2>5. EndsWith(Signs, t, Trim(t)) /\ Trim(t) \in Seq(Signs)
    <3> HIDE DEF t
    <3> QED BY <2>3, TrimEnds
  <2>6. rest' = Trim(t) /\ at' # 0
    BY <2>1, <1>4
  <2> HIDE DEF t, o, a
  <2>7. EndsWith(Signs, p, t)
    BY <2>3, <2>4, EndsFurther
  <2> DEFINE u == Trim(t)
  <2>8. u \in Seq(Signs) /\ EndsWith(Signs, t, u)
    BY <2>5
  <2> HIDE DEF u
  <2>9. EndsWith(Signs, p, u)
    BY <2>3, <2>7, <2>8, EndsFurther
  <2> QED BY <2>6, <2>9 DEF u
<1>7. CASE AddChild \/ AddBelow
  <2>1. rest' = After /\ at' = Len(nodes) + 1
    BY <1>7 DEF AddChild, AddBelow, Add, Call
  <2> QED BY <2>1, <1>4, <1>5
<1>8. CASE SplitChild
  BY <1>8, <1>1, <1>3 DEF SplitChild
<1>9. CASE Descend
  <2>1. Shares /\ rest' = Left \o After /\ at' = Child
    BY <1>9 DEF Descend, Call
  <2>2. Child \in Ids
    BY <2>1, <1>2, ChildFacts, KidIsNode
  <2> DEFINE above == SubSeq(Own, 1, Shared)
             more == Drop(Own, Shared)
             t == more \o After
             s == Trim(rest)
  <2>3. SharedCuts(above, more)
    BY <2>1, <1>2, SharedCut
  <2>4. above \in Seq(Signs) /\ t \in Seq(Signs) /\ s = above \o t /\ Trim(t) = Left \o After
    BY <2>3 DEF SharedCuts
  <2>5. s \in Seq(Signs) /\ EndsWith(Signs, rest, s)
    BY <1>2, TrimCutOwn
  <2> HIDE DEF above, more, t, s
  <2>6. EndsWith(Signs, s, t)
    BY <2>4 DEF EndsWith
  <2>7. EndsWith(Signs, t, Trim(t)) /\ Trim(t) \in Seq(Signs)
    BY <2>4, TrimEnds
  <2> DEFINE u == Trim(t)
  <2> HIDE DEF u
  <2>8. u \in Seq(Signs) /\ EndsWith(Signs, t, u)
    BY <2>7 DEF u
  <2>9. EndsWith(Signs, p, s)
    BY <2>5, <1>2, <1>3, EndsFurther
  <2>10. EndsWith(Signs, p, t)
    BY <2>4, <2>5, <2>6, <2>9, EndsFurther
  <2>11. EndsWith(Signs, p, u)
    BY <2>4, <2>8, <2>10, EndsFurther
  <2>12. rest' = u /\ at' # 0
    BY <2>1, <2>2, <2>4, <1>4 DEF u
  <2> QED BY <2>11, <2>12
<1> QED BY <1>6, <1>7, <1>8, <1>9

\* Every step keeps what is left of a pattern an end of it.
LEMMA RestGoesOn ==
  ASSUME TreeSpelled, Orderly => RestLeft, [Next]_vars, Orderly'
  PROVE  RestLeft'
<1>1. CASE Build
  <2>1. routes' = routes /\ Unwalked
    BY <1>1 DEF Build, Unwalked
  <2>2. Orderly /\ RestLeft /\ TypeOK /\ IsTree /\ AfterWalk
    BY <2>1, OrderlyStays DEF TreeSpelled
  <2>3. CASE Begin
    <3> DEFINE p == Pattern(routes[begun + 1])
    <3>1. begun' = begun + 1 /\ rest' = p /\ begun + 1 \in DOMAIN routes
      BY <2>2, <2>3 DEF Begin, TypeOK
    <3>2. p \in Seq(Signs)
      BY <2>2, <3>1, RouteLetters
    <3> HIDE DEF p
    <3>3. p = <<>> \o p /\ <<>> \in Seq(Signs)
      BY <3>2
    <3>4. EndsWith(Signs, p, p)
      BY <3>3 DEF EndsWith
    <3> QED BY <2>1, <3>1, <3>4 DEF RestLeft, p
  <2>4. CASE InsertHere
    BY <2>4 DEF InsertHere, Call, RestLeft
  <2>5. CASE InsertWild \/ AddChild \/ SplitChild \/ Descend \/ AddBelow
    BY <2>1, <2>2, <2>5, RestStays
  <2> QED BY <1>1, <2>3, <2>4, <2>5 DEF Build
<1>2. CASE AddRoute \/ AddLayout \/ NoFile
  <2>1. walked < Len(Files) /\ at' = at
    BY <1>2 DEF AddRoute, AddLayout, NoFile, Found, Pass, tree
  <2>2. at = 0
    <3>1. AfterWalk /\ walked \in 0 .. Len(Files)
      BY DEF TreeSpelled, TypeOK
    <3>2. walked # Len(Files)
      <4> DEFINE n == Len(Files)
      <4>1. walked < n /\ walked \in 0 .. n
        BY <2>1, <3>1
      <4> HIDE DEF n
      <4>2. walked # n
        BY <4>1
      <4> QED BY <4>2 DEF n
    <3> QED BY <3>1, <3>2 DEF AfterWalk
  <2> QED BY <2>1, <2>2 DEF RestLeft
<1>3. CASE UNCHANGED vars
  <2>1. routes' = routes /\ begun' = begun /\ at' = at /\ rest' = rest
    BY <1>3 DEF vars
  <2> QED BY <2>1, OrderlyStays DEF RestLeft
<1> QED BY <1>1, <1>2, <1>3 DEF Next

LEMMA RestAlways == Spec => [](Orderly => RestLeft)
<1>1. Init => (Orderly => RestLeft)
  BY DEF Init, RestLeft
<1>2. TreeSpelled /\ (Orderly => RestLeft) /\ [Next]_vars => (Orderly => RestLeft)'
  BY RestGoesOn
<1> QED BY <1>1, <1>2, TreeIsSpelled, PTL DEF Spec

\* Only one node leads to a child or a wildcard.
LEMMA OnlyParent ==
  ASSUME TypeOK, IsTree, NEW n \in Ids, NEW m, m \in Kids(n) \/ (m # 0 /\ m = nodes[n].wild)
  PROVE  /\ m \in Ids /\ m # 1 /\ m # n
         /\ \A k \in DOMAIN nodes : k # n => m \notin ToSet(nodes[k].kids) /\ (m # 0 => nodes[k].wild # m)
BY DEF IsTree, Ids, Kids

\* No slash in a pattern follows another or is the last, but for that of the root.
LEMMA NoSlashPair ==
  ASSUME NEW file \in ToSet(Files), Pattern(file) # <<Slash>>,
         NEW a \in Seq(Signs), NEW b \in Seq(Signs), Pattern(file) = a \o (<<Slash>> \o b)
  PROVE  b # <<>> /\ Head(b) # Slash
<1> DEFINE d == Pieces(file)
<1>1. IsPieces(d)
  BY PlacePieces
<1>2. HasPieces(Signs, d, Pattern(file))
  BY PatternPieces
<1> HIDE DEF d
<1>3. d \in Seq(Seq(Signs \ {Slash})) /\ Slash \in Signs
  BY <1>1, SlashIsNoHole DEF IsPieces, Alphabet, Signs
<1>4. \A j \in 1 .. Len(d) : d[j] # <<>>
  <2> SUFFICES ASSUME NEW j \in 1 .. Len(d) PROVE d[j] # <<>>
    OBVIOUS
  <2>1. IsPlain(d[j]) \/ IsSign(d[j])
    BY <1>1 DEF IsPieces
  <2>2. \A h : << h >> # <<>>
    OBVIOUS
  <2> QED BY <2>1, <2>2 DEF IsPlain, IsSign
<1>5. PICK P, A : Pieced(Signs, d, P, A) /\ A[0] = Pattern(file)
  BY <1>2 DEF HasPieces
<1>6. A[0] = a \o (<<Slash>> \o b)
  BY <1>5
<1> QED BY <1>3, <1>4, <1>5, <1>6, NoDouble

\* The file of a route.
LEMMA RouteFile == ASSUME TypeOK, NEW i \in DOMAIN routes PROVE routes[i] \in ToSet(Files)
BY DEF TypeOK

\* What is left behind what Own shares with a child is the end of the pattern.
LEMMA MoreEnds ==
  ASSUME TypeOK, IsTree, AfterWalk, RestLeft, at # 0, Shares
  PROVE  LET p == Pattern(routes[begun])
             t == Drop(Own, Shared) \o After
         IN  /\ p \in Seq(Signs) /\ EndsWith(Signs, p, Trim(rest)) /\ EndsWith(Signs, p, t)
             /\ EndsWith(Signs, p, Left \o After)
<1> DEFINE p == Pattern(routes[begun])
           above == SubSeq(Own, 1, Shared)
           more == Drop(Own, Shared)
           t == more \o After
           s == Trim(rest)
           u == Trim(t)
<1>1. at \in Ids /\ begun \in DOMAIN routes /\ rest \in Seq(Signs)
  BY Busy
<1>2. p \in Seq(Signs) /\ EndsWith(Signs, p, rest)
  BY <1>1, RouteLetters DEF RestLeft
<1>3. SharedCuts(above, more)
  BY <1>1, SharedCut
<1>4. above \in Seq(Signs) /\ t \in Seq(Signs) /\ s = above \o t /\ u = Left \o After
  BY <1>3 DEF SharedCuts
<1>5. s \in Seq(Signs) /\ EndsWith(Signs, rest, s)
  BY <1>1, TrimCutOwn
<1>6. EndsWith(Signs, t, u) /\ u \in Seq(Signs)
  <2> HIDE DEF t
  <2> QED BY <1>4, TrimEnds
<1> HIDE DEF p, above, more, t, s, u
<1>7. EndsWith(Signs, s, t)
  BY <1>4 DEF EndsWith
<1>8. EndsWith(Signs, p, s)
  BY <1>5, <1>1, <1>2, EndsFurther
<1>9. EndsWith(Signs, p, t)
  BY <1>4, <1>5, <1>7, <1>8, EndsFurther
<1>10. EndsWith(Signs, p, u)
  BY <1>4, <1>6, <1>9, EndsFurther
<1> QED BY <1>2, <1>4, <1>8, <1>9, <1>10 DEF p, t, s, more

\* What is left below a child is left there of the pattern.
LEMMA ChildLeaves ==
  ASSUME TypeOK, IsTree, AfterWalk, TextsSpelled, RestLeft, at # 0, Shares, Shared = Len(nodes[Child].path)
  PROVE  Leaves(text, Pattern(routes[begun]), Child, Left \o After) /\ Left \o After \in Seq(Signs)
<1> DEFINE p == Pattern(routes[begun])
           a == text[at]
           b == text[Child]
           c == Letters(Left)
           d == Letters(After)
           e == Letters(Own)
           r == Left \o After
<1>1. at \in Ids /\ begun \in DOMAIN routes /\ rest \in Seq(Signs) /\ a \in Seq(Alphabet)
  BY Busy
<1>2. p \in Seq(Signs) /\ EndsWith(Signs, p, r)
  BY MoreEnds
<1>3. b \in Seq(Alphabet) /\ Child \in Ids
  BY <1>1, ChildFacts, KidIsNode, TextType
<1>4. After \in Seq(Signs) /\ Own \in Seq(Signs) /\ Letters(rest) = e \o d
  BY <1>1, TrimCutOwn, RestFacts
<1>5. Left \in Seq(Signs) /\ r \in Seq(Signs)
  BY <1>1, SharedCut DEF SharedCuts
<1>6. c \in Seq(Alphabet) /\ d \in Seq(Alphabet) /\ e \in Seq(Alphabet)
  BY <1>4, <1>5, LettersOfText
<1>7. Letters(r) = c \o d
  BY <1>4, <1>5, LettersConcat
<1>8. b \o c = a \o e
  BY <1>1, BelowChild
<1>9. a \o (e \o d) = Letters(p)
  BY <1>4 DEF TextsSpelled
<1> HIDE DEF p, a, c, d, e, r, b
<1>10. b \o (c \o d) = Letters(p)
  <2>0. a \in Seq(Alphabet) /\ b \in Seq(Alphabet)
    BY <1>1, <1>3 DEF a, b
  <2>1. b \o (c \o d) = (b \o c) \o d
    BY ONLY <2>0, <1>6, ConcatAssoc
  <2>2. a \o (e \o d) = (a \o e) \o d
    BY ONLY <2>0, <1>6, ConcatAssoc
  <2> QED BY <2>1, <2>2, <1>8, <1>9
<1>11. Leaves(text, p, Child, r)
  <2>1. text[Child] \in Seq(Alphabet) /\ text[Child] \o Letters(r) = Letters(p)
    BY <1>3, <1>7, <1>10 DEF b
  <2> QED BY <2>1, <1>2, <1>5, LeavesRest
<1> QED BY <1>5, <1>11 DEF p, r

\* What is left below a child does not begin with a slash.
LEMMA LeftIsText ==
  ASSUME TypeOK, IsTree, AfterWalk, RestLeft, at # 0, Shares, Left # <<>>
  PROVE  Head(Left) # Slash
<1> DEFINE p == Pattern(routes[begun])
           above == SubSeq(Own, 1, Shared)
           more == Drop(Own, Shared)
           t == more \o After
           s == Trim(rest)
           left == Left
<1>1. at \in Ids /\ begun \in DOMAIN routes /\ rest \in Seq(Signs)
  BY Busy
<1>2. SharedCuts(above, more)
  BY <1>1, SharedCut
<1>3. /\ above \in Seq(Signs) /\ above # <<>> /\ more \in Seq(Signs) /\ t \in Seq(Signs) /\ s = above \o t
      /\ left = Trim(more) /\ left \in Seq(Signs) /\ left \o After \in Seq(Signs)
  BY <1>2 DEF SharedCuts
<1>4. EndsWith(Signs, p, t) /\ EndsWith(Signs, p, s) /\ p \in Seq(Signs)
  BY MoreEnds
<1>5. After \in Seq(Signs)
  BY <1>1, TrimCutOwn
<1>6. left # <<>>
  OBVIOUS
<1> SUFFICES ASSUME Head(left) = Slash PROVE FALSE
  OBVIOUS
<1>7. more # <<>> /\ Head(more) = Slash
  <2> HIDE DEF more, left
  <2> QED BY <1>3, <1>6 DEF Trim
<1>8. left = Tail(more)
  BY <1>3, <1>7 DEF Trim
<1> DEFINE b == left \o After
<1> HIDE DEF p, s, above, more, left
<1>9. t = <<Slash>> \o b /\ b \in Seq(Signs) /\ b # <<>> /\ Head(b) = Slash
  <2>1. more = <<Slash>> \o left
    BY <1>3, <1>7, <1>8
  <2>2. left \o After # <<>> /\ Head(left \o After) = Head(left)
    BY <1>3, <1>5, <1>6
  <2>3. (<<Slash>> \o left) \o After = <<Slash>> \o (left \o After)
    BY <1>3, <1>5
  <2> QED BY <2>1, <2>2, <2>3, <1>3
<1>10. p # <<Slash>>
  <2>1. Len(s) = Len(above) + Len(t) /\ Len(above) > 0 /\ Len(t) \in Nat /\ Len(t) = 1 + Len(b) /\ Len(b) \in Nat
    <3> HIDE DEF b
    <3>1. Len(<<Slash>> \o b) = 1 + Len(b) /\ <<Slash>> \o b \in Seq(Signs)
      BY <1>9
    <3>2. Len(t) = 1 + Len(b) /\ t \in Seq(Signs)
      BY <3>1, <1>9
    <3> HIDE DEF t
    <3> QED BY <3>2, <1>3, <1>9
  <2>2. Len(b) > 0
    <3> HIDE DEF b
    <3> QED BY <1>9
  <2>3. Len(p) >= Len(s)
    <3>1. PICK q \in Seq(Signs) : p = q \o s
      BY <1>4 DEF EndsWith
    <3>2. s \in Seq(Signs)
      BY <1>3
    <3> QED BY <3>1, <3>2
  <2> DEFINE n == Len(p)
  <2>4. n > 1 /\ n \in Nat
    BY <2>1, <2>2, <2>3, <1>4
  <2>5. p = <<Slash>> => n = 1
    OBVIOUS
  <2> HIDE DEF n
  <2>6. n # 1
    BY <2>4
  <2> QED BY <2>5, <2>6
<1>11. PICK a \in Seq(Signs) : p = a \o (<<Slash>> \o b)
  BY <1>4, <1>9 DEF EndsWith
<1> HIDE DEF b
<1>12. b # <<>> /\ Head(b) # Slash
  <2>1. routes[begun] \in ToSet(Files)
    BY <1>1, RouteFile
  <2> QED BY <2>1, <1>9, <1>10, <1>11, NoSlashPair DEF p
<1> QED BY <1>9, <1>12

\* The path of the child in two, and where Own goes on instead.
Parts(above, below, v) ==
  /\ above \in Seq(Characters) /\ above \in Seq(Signs) /\ above # <<>> /\ above = SubSeq(nodes[Child].path, 1, Shared)
  /\ below \in Seq(Characters) /\ below \in Seq(Signs) /\ below # <<>> /\ nodes[Child].path = above \o below
  /\ v \in Seq(Signs) /\ Trim(rest) = above \o v
  /\ v = <<>> \/ Head(v) # Head(below)

\* They are such parts.
LEMMA SplitParts ==
  ASSUME TypeOK, IsTree, at \in Ids, rest \in Seq(Signs), Shares, Shared < Len(nodes[Child].path)
  PROVE  Parts(SubSeq(Own, 1, Shared), Drop(nodes[Child].path, Shared), Drop(Own, Shared) \o After)
<1> DEFINE n == Shared
           own == Own
           path == nodes[Child].path
           above == SubSeq(own, 1, n)
           more == Drop(own, n)
           below == Drop(path, n)
           v == more \o After
<1>1. SharedCuts(above, more)
  BY SharedCut
<1>2. /\ above \in Seq(Characters) /\ above \in Seq(Signs) /\ above # <<>> /\ more \in Seq(Characters) /\ more \in Seq(Signs)
      /\ own = above \o more /\ Len(above) = n /\ v \in Seq(Signs) /\ Trim(rest) = above \o v
  BY <1>1 DEF SharedCuts
<1>3. n \in 0 .. Len(own) /\ n \in 0 .. Len(path) /\ n # Len(path) /\ above = SubSeq(path, 1, n) /\ path \in Seq(Characters)
      /\ own \in Seq(Characters)
  <2>1. Child \in Kids(at) /\ nodes[Child] \in NodeType
    BY ChildFacts, KidIsNode
  <2>2. path \in Seq(Characters) /\ own \in Seq(Characters)
    BY <2>1, RestFacts DEF NodeType
  <2>3. n \in 0 .. Len(own) /\ n \in 0 .. Len(path) /\ above = SubSeq(path, 1, n)
    BY ChildFacts
  <2> HIDE DEF above, path, n, own
  <2>4. n # Len(path)
    BY <2>3 DEF n, path
  <2> QED BY <2>2, <2>3, <2>4
<1>4. n = Common(own, path)
  BY DEF Shared
<1>5. After \in Seq(Signs) /\ (After = <<>> \/ Head(After) \in Holes)
  BY TrimCutOwn
<1> HIDE DEF n, own, path
<1>6. n = Len(own) \/ own[n + 1] # path[n + 1]
  BY <1>3, <1>4, CommonEnds
<1>7. IsCut(Characters, path, n, SubSeq(path, 1, n), Drop(path, n))
  BY <1>3, Cut
<1>8. below \in Seq(Characters) /\ path = above \o below /\ Len(below) = Len(path) - n
  BY <1>3, <1>7 DEF IsCut
<1> HIDE DEF above, below, more
<1>9. below # <<>> /\ Head(below) = path[n + 1] /\ Head(below) \in Characters
  <2>1. Len(below) > 0
    BY <1>3, <1>8
  <2>2. Head(below) = below[1] /\ below # <<>> /\ below[1] \in Characters
    BY <2>1, <1>8
  <2>3. (above \o below)[n + 1] = below[1]
    <3>1. Joins(Characters, above \o below, above, below)
      BY <1>2, <1>8, ConcatItems
    <3>2. 1 \in 1 .. Len(below)
      BY <2>1, <1>8
    <3> QED BY <3>1, <3>2, <1>2 DEF Joins
  <2> QED BY <2>2, <2>3, <1>8
<1>10. below \in Seq(Signs)
  BY <1>8 DEF Signs
<1>11. v = <<>> \/ Head(v) # Head(below)
  <2>1. CASE more = <<>>
    <3>1. v = After
      BY <2>1, <1>5
    <3> QED BY <3>1, <1>5, <1>9, SlashIsNoHole
  <2>2. CASE more # <<>>
    <3>1. Head(v) = Head(more)
      BY <2>2, <1>2, <1>5
    <3>2. Joins(Characters, above \o more, above, more)
      BY <1>2, ConcatItems
    <3>3. Len(more) > 0 /\ Head(more) = more[1] /\ 1 \in 1 .. Len(more) /\ Len(more) \in Nat
      BY <2>2, <1>2
    <3>5. (above \o more)[Len(above) + 1] = more[1] /\ Len(above \o more) = Len(above) + Len(more)
      BY <3>2, <3>3 DEF Joins
    <3>4. own[n + 1] = more[1] /\ n # Len(own)
      BY <3>3, <3>5, <1>2, <1>3
    <3> QED BY <3>1, <3>3, <3>4, <1>6, <1>9
  <2> QED BY <2>1, <2>2
<1> QED BY <1>2, <1>3, <1>8, <1>9, <1>10, <1>11 DEF Parts, path, n, above, below, more, own

\* The split, as the ways see it.
LEMMA SplitHalves ==
  ASSUME TypeOK, IsTree, at \in Ids, rest \in Seq(Signs), SplitChild
  PROVE  Halved(nodes, text, nodes', text', at, Child, Len(nodes) + 1, SubSeq(Own, 1, Shared), Drop(nodes[Child].path, Shared))
<1> DEFINE new == Len(nodes) + 1
           kid == Child
           above == SubSeq(Own, 1, Shared)
           below == Drop(nodes[kid].path, Shared)
           v == Drop(Own, Shared) \o After
           word == text[at] \o Letters(above)
           low == text[kid]
           G == Seq(Alphabet)
<1>1. Shares /\ Shared < Len(nodes[Child].path)
      /\ text' = Append([text EXCEPT ![Child] = text[at] \o Letters(SubSeq(nodes[Child].path, 1, Shared))], text[Child])
  BY DEF SplitChild, OnText
<1>2. Parts(above, below, v)
  BY <1>1, SplitParts
<1>3. /\ above \in Seq(Characters) /\ above \in Seq(Signs) /\ above # <<>> /\ above = SubSeq(nodes[kid].path, 1, Shared)
      /\ below \in Seq(Signs) /\ below # <<>> /\ nodes[kid].path = above \o below
  BY <1>2 DEF Parts
<1>4. kid \in Kids(at) /\ kid \in Ids /\ kid # at /\ kid # 1
  BY <1>1, ChildFacts, KidIsNode
<1>5. Split(kid, above, below)
  BY <1>3, SplitNodes
<1>6. /\ text \in Seq(G) /\ Len(text) = Len(nodes) /\ text[at] \in Seq(Alphabet) /\ low \in G /\ kid \in 1 .. Len(text)
      /\ Len(nodes) \in Nat
  BY <1>4, TextType DEF TypeOK, Alphabet, Ids
<1>7. word \in G
  <2> DEFINE a == text[at]
             b == Letters(above)
  <2>1. a \in Seq(Alphabet) /\ b \in Seq(Alphabet)
    BY <1>3, <1>6, LettersOfText
  <2> HIDE DEF a, b
  <2>2. a \o b \in Seq(Alphabet)
    BY <2>1
  <2> QED BY <2>2 DEF a, b
<1>8. text' = Append([text EXCEPT ![kid] = word], low)
  BY <1>1, <1>3
<1> HIDE DEF word, low, G, above, below, kid, v
<1>9. Grown(G, text', text, kid, word, low)
  BY <1>6, <1>7, <1>8, AppendExcept
<1>10. text'[kid] = word /\ text'[new] = low /\ \A k \in 1 .. Len(nodes) : k # kid => text'[k] = text[k]
  BY <1>6, <1>9 DEF Grown
<1>11. /\ kid \in DOMAIN nodes /\ at \in DOMAIN nodes /\ kid \in ToSet(nodes[at].kids) /\ kid \notin ToSet(nodes[kid].kids)
       /\ DOMAIN nodes = 1 .. Len(nodes)
       /\ \A k \in DOMAIN nodes : (k # at => kid \notin ToSet(nodes[k].kids)) /\ nodes[k].wild # kid
  <2>1. DOMAIN nodes = 1 .. Len(nodes) /\ Ids = DOMAIN nodes
    BY DEF Ids, TypeOK
  <2>2. kid \notin ToSet(nodes[kid].kids)
    BY <1>4 DEF IsTree, Kids
  <2>3. \A k \in DOMAIN nodes : (k # at => kid \notin ToSet(nodes[k].kids)) /\ nodes[k].wild # kid
    BY <1>4 DEF IsTree, Kids, Ids
  <2> QED BY <2>1, <2>2, <2>3, <1>4 DEF Kids
<1>12. /\ new \notin DOMAIN nodes /\ DOMAIN nodes' = DOMAIN nodes \cup {new}
       /\ nodes'[kid].path = above /\ ToSet(nodes'[kid].kids) = {new}
       /\ nodes'[new].path = below /\ ToSet(nodes'[new].kids) = ToSet(nodes[kid].kids)
       /\ nodes'[new].wild = nodes[kid].wild /\ nodes'[new].handler = nodes[kid].handler
       /\ \A k \in DOMAIN nodes : k # kid => nodes'[k] = nodes[k]
  BY <1>5 DEF Split, Ids, Kids
<1>13. \A k \in DOMAIN nodes : k # kid => text'[k] = text[k]
  BY <1>10, <1>11
<1>14. text'[kid] = text[at] \o Letters(above) /\ text'[new] = text[kid]
  BY <1>10 DEF word, low
<1> HIDE DEF new
<1> QED BY <1>3, <1>4, <1>11, <1>12, <1>13, <1>14 DEF Halved, kid, above, below, new

\* The front of a concatenation.
LEMMA FrontOf ==
  ASSUME NEW E, NEW w \in Seq(E), NEW u \in Seq(E)
  PROVE  SubSeq(w \o u, 1, Len(w)) = w
<1> DEFINE s == w \o u
           n == Len(w)
<1>1. s \in Seq(E) /\ n \in 0 .. Len(s) /\ \A i \in 1 .. n : s[i] = w[i]
  OBVIOUS
<1> HIDE DEF s
<1>2. IsCut(E, s, n, SubSeq(s, 1, n), Drop(s, n))
  BY <1>1, Cut
<1>3. SubSeq(s, 1, n) \in Seq(E) /\ Len(SubSeq(s, 1, n)) = n
  BY <1>2 DEF IsCut
<1>4. \A i \in 1 .. n : SubSeq(s, 1, n)[i] = w[i]
  BY <1>1
<1>5. SubSeq(s, 1, n) = w
  BY <1>3, <1>4, SameItems
<1> QED BY <1>5 DEF s

\* Three sequences in a row.
Assoc(E, s, t, u) == s \o (t \o u) = (s \o t) \o u

\* Concatenation is associative.
LEMMA Associates == ASSUME NEW E, NEW s \in Seq(E), NEW t \in Seq(E), NEW u \in Seq(E) PROVE Assoc(E, s, t, u)
BY ConcatAssoc DEF Assoc

\* A pattern with a letter is put together from pieces and begins with a slash.
LEMMA LetteredPattern ==
  ASSUME NEW file \in ToSet(Files), NEW a \in Seq(Signs), NEW x \in Alphabet, NEW b \in Seq(Signs),
         Pattern(file) = a \o (<< x >> \o b)
  PROVE  HasPieces(Signs, Pieces(file), Pattern(file)) /\ a # <<>>
<1> DEFINE p == Pattern(file)
           o == << x >> \o b
           d == Pieces(file)
<1>1. o \in Seq(Signs) /\ o # <<>> /\ o[1] = x /\ Len(o) > 0 /\ x # Slash /\ x \in Signs
  BY DEF Alphabet
<1>2. p = a \o o
  OBVIOUS
<1> HIDE DEF p, o
<1>3. a = <<>> => p[1] = x
  BY <1>1, <1>2
<1>4. p # <<Slash>>
  <2> SUFFICES ASSUME p = <<Slash>> PROVE FALSE
    OBVIOUS
  <2>1. Len(p) = 1 /\ p[1] = Slash
    OBVIOUS
  <2>2. Len(p) = Len(a) + Len(o)
    <3>1. Joins(Signs, a \o o, a, o)
      BY <1>1, ConcatItems
    <3> QED BY <3>1, <1>2 DEF Joins
  <2>3. Len(a) = 0
    BY <2>1, <2>2, <1>1
  <2>4. a = <<>>
    BY <2>3
  <2> QED BY <2>1, <2>4, <1>1, <1>3
<1>5. HasPieces(Signs, d, p)
  BY <1>4, PatternPieces DEF p
<1>6. p = <<>> \/ Head(p) = Slash
  <2>1. IsPieces(d)
    BY PlacePieces
  <2> HIDE DEF d
  <2>2. d \in Seq(Seq(Signs \ {Slash})) /\ Slash \in Signs
    BY <2>1, SlashIsNoHole DEF IsPieces, Alphabet, Signs
  <2>3. PICK P, A : Pieced(Signs, d, P, A) /\ A[0] = p
    BY <1>5 DEF HasPieces
  <2>4. 0 \in 0 .. Len(d)
    BY <2>2
  <2>5. A[0] = <<>> \/ Head(A[0]) = Slash
    BY <2>2, <2>3, <2>4, BehindPiece
  <2> QED BY <2>3, <2>5
<1>7. a # <<>>
  <2> SUFFICES ASSUME a = <<>> PROVE FALSE
    OBVIOUS
  <2>1. p = o
    BY <1>1, <1>2
  <2>2. p # <<>> /\ Head(p) = x
    BY <2>1, <1>1
  <2> QED BY <2>2, <1>1, <1>6
<1> QED BY <1>5, <1>7 DEF p, d

\* An end of a pattern does not begin with a second slash.
Trimmed(s) == s # <<>> => Head(s) # Slash

LEMMA EndIsTrimmed ==
  ASSUME NEW file \in ToSet(Files), NEW r \in Seq(Signs), EndsWith(Signs, Pattern(file), r)
  PROVE  Trimmed(Trim(r))
<1> SUFFICES ASSUME Trim(r) # <<>> PROVE Head(Trim(r)) # Slash
  BY DEF Trimmed
<1> DEFINE p == Pattern(file)
           t == Tail(r)
<1>1. EndsWith(Signs, p, r)
  OBVIOUS
<1>2. CASE r # <<>> /\ Head(r) = Slash
  <2>1. Trim(r) = t /\ t # <<>> /\ t \in Seq(Signs) /\ r = <<Slash>> \o t
    <3>1. Trim(r) = t
      BY <1>2 DEF Trim
    <3>2. t \in Seq(Signs) /\ r = << Head(r) >> \o t
      BY <1>1, <1>2
    <3> QED BY <3>1, <3>2, <1>2
  <2> HIDE DEF t
  <2>2. PICK a \in Seq(Signs) : p = a \o (<<Slash>> \o t)
    BY <2>1, <1>1 DEF EndsWith
  <2>3. p # <<Slash>>
    <3> DEFINE st == <<Slash>> \o t
               n == Len(p)
    <3>1. st \in Seq(Signs) /\ Len(st) > 1 /\ Len(st) \in Nat
      <4>1. <<Slash>> \in Seq(Signs) /\ Len(<<Slash>>) = 1 /\ Len(t) > 0 /\ Len(t) \in Nat
        BY <2>1, SlashIsNoHole DEF Signs
      <4> DEFINE os == <<Slash>>
      <4> HIDE DEF os
      <4>2. Joins(Signs, os \o t, os, t)
        BY <4>1, <2>1, ConcatItems DEF os
      <4> QED BY <4>1, <4>2 DEF Joins, os
    <3> HIDE DEF st
    <3>2. Joins(Signs, a \o st, a, st)
      BY <3>1, ConcatItems
    <3>3. n > 1 /\ n \in Nat
      BY <3>1, <3>2, <2>2 DEF Joins, st
    <3>4. p = <<Slash>> => n = 1
      OBVIOUS
    <3> HIDE DEF n
    <3> QED BY <3>3, <3>4
  <2>4. t # <<>> /\ Head(t) # Slash
    BY <2>1, <2>2, <2>3, <1>1, NoSlashPair DEF p
  <2> QED BY <2>1, <2>4
<1>3. CASE ~(r # <<>> /\ Head(r) = Slash)
  BY <1>3 DEF Trim
<1> QED BY <1>2, <1>3

LEMMA OwnIsText ==
  ASSUME TypeOK, AfterWalk, RestLeft, at # 0, Trim(rest) # <<>>
  PROVE  Head(Trim(rest)) # Slash
<1>1. begun \in DOMAIN routes /\ rest \in Seq(Signs)
  BY Busy
<1>2. EndsWith(Signs, Pattern(routes[begun]), rest) /\ routes[begun] \in ToSet(Files)
  BY <1>1, RouteFile DEF RestLeft
<1>3. Trimmed(Trim(rest))
  BY <1>1, <1>2, EndIsTrimmed
<1> QED BY <1>3 DEF Trimmed

-----------------------------------------------------------------------------
(* The order of the children                                               *)

\* A new leaf, the wildcard of its parent or the last of its children.
Leafed(parent, wild) ==
  LET new == Len(nodes) + 1
  IN  /\ new \notin Ids /\ Ids' = Ids \cup {new} /\ new \in Nat /\ new > 1
      /\ nodes' \in Seq(NodeType) /\ nodes'[new].kids = <<>> /\ nodes'[new].wild = 0 /\ nodes'[new].handler = 0
      /\ \A n \in Ids : /\ nodes'[n].path = nodes[n].path /\ nodes'[n].handler = nodes[n].handler
                        /\ text'[n] = text[n] /\ nodes[n].kids \in Seq(Nat) /\ nodes[n].wild # new /\ new \notin Kids(n)
      /\ \A n \in Ids : n # parent => nodes'[n].kids = nodes[n].kids /\ nodes'[n].wild = nodes[n].wild
      /\ IF wild THEN nodes'[parent].kids = nodes[parent].kids /\ nodes'[parent].wild = new
                 ELSE /\ Longer(Nat, nodes'[parent].kids, nodes[parent].kids, new)
                      /\ nodes'[parent].wild = nodes[parent].wild

\* What is in a node of the tree, and that its edges lead to nodes.
LEMMA NodeFacts ==
  ASSUME TypeOK, IsTree, NEW n \in Ids
  PROVE  /\ nodes[n] \in NodeType /\ nodes[n].kids \in Seq(Nat) /\ Kids(n) \subseteq Ids \ {1, n}
         /\ nodes[n].wild \in {0} \cup (Ids \ {1, n}) /\ Ids = 1 .. Len(nodes) /\ Len(nodes) \in Nat
         /\ nodes \in Seq(NodeType)
<1>1. nodes[n] \in NodeType
  BY DEF TypeOK, Ids
<1>2. nodes[n].kids \in Seq(Nat)
  BY <1>1 DEF NodeType
<1> QED BY <1>1, <1>2 DEF TypeOK, IsTree, Ids

LEMMA TextsStay ==
  ASSUME TypeOK, NEW word \in Seq(Alphabet), text' = Append(text, word)
  PROVE  text' \in Seq(Seq(Alphabet)) /\ text'[Len(nodes) + 1] = word /\ \A n \in Ids : text'[n] = text[n]
<1> DEFINE A == Seq(Alphabet)
<1>1. word \in A /\ text \in Seq(A) /\ Len(text) = Len(nodes) /\ Ids = 1 .. Len(nodes)
  BY DEF TypeOK, Alphabet, Ids
<1> HIDE DEF A
<1>2. Longer(A, text', text, word)
  BY <1>1, AppendItems
<1> QED BY <1>1, <1>2 DEF Longer, A

LEMMA AddLeafs ==
  ASSUME TypeOK, IsTree, NEW parent \in Ids, NEW path \in Seq(Characters), Add(parent, path)
  PROVE  Leafed(parent, FALSE)
<1> DEFINE new == Len(nodes) + 1
           leaf == Node(path, "")
           old == nodes[parent].kids
           up == [nodes[parent] EXCEPT !.kids = Append(@, new)]
<1>1. /\ nodes[parent] \in NodeType /\ old \in Seq(Nat) /\ new \in Nat /\ Ids = 1 .. Len(nodes) /\ Len(nodes) \in Nat
      /\ nodes \in Seq(NodeType)
  BY NodeFacts
<1>2. leaf \in NodeType /\ leaf.kids = <<>>
  BY DEF Node, NodeType
<1>3. Longer(Nat, Append(old, new), old, new)
  <2> HIDE DEF old, new
  <2> QED BY <1>1, AppendItems
<1>4. up \in NodeType /\ up.kids = Append(old, new)
  <2> DEFINE more == Append(old, new)
  <2>1. more \in Seq(Nat) /\ up = [nodes[parent] EXCEPT !.kids = more]
    BY <1>3 DEF Longer
  <2> HIDE DEF more, up
  <2>2. up \in NodeType /\ up.kids = more
    BY <2>1, <1>1 DEF NodeType
  <2> QED BY <2>2 DEF more
<1>5. nodes' = Append([nodes EXCEPT ![parent] = up], leaf)
  BY DEF Add
<1> HIDE DEF up, leaf
<1>6. Grown(NodeType, nodes', nodes, parent, up, leaf)
  BY <1>1, <1>2, <1>4, <1>5, AppendExcept
<1>7. nodes'[new].kids = <<>> /\ nodes'[parent].kids = Append(old, new)
      /\ \A n \in Ids : n # parent => nodes'[n] = nodes[n]
  BY <1>1, <1>2, <1>4, <1>6 DEF Grown
<1>8. Added(parent, path)
  BY AddNodes
<1>9. \A n \in Ids : text'[n] = text[n]
  <2>1. text[parent] \in Seq(Alphabet) /\ Letters(path) \in Seq(Alphabet)
    BY LettersHoleless, TextType
  <2> DEFINE word == text[parent] \o Letters(path)
  <2>2. word \in Seq(Alphabet)
    BY <2>1
  <2>3. text' = Append(text, word)
    BY DEF Add
  <2> HIDE DEF word
  <2> QED BY <2>2, <2>3, TextsStay
<1>10. \A n \in Ids : nodes[n].kids \in Seq(Nat) /\ nodes[n].wild # new /\ new \notin Kids(n)
  <2> SUFFICES ASSUME NEW n \in Ids PROVE nodes[n].kids \in Seq(Nat) /\ nodes[n].wild # new /\ new \notin Kids(n)
    OBVIOUS
  <2>1. nodes[n].kids \in Seq(Nat) /\ nodes[n].wild \in {0} \cup (Ids \ {1, n}) /\ Kids(n) \subseteq Ids
    BY NodeFacts
  <2> QED BY <2>1, <1>1
<1>11. /\ new \notin Ids /\ Ids' = Ids \cup {new} /\ new > 1 /\ nodes' \in Seq(NodeType)
       /\ nodes'[new].wild = 0 /\ nodes'[new].handler = 0
       /\ \A n \in Ids : /\ nodes'[n].path = nodes[n].path /\ nodes'[n].wild = nodes[n].wild
                         /\ nodes'[n].handler = nodes[n].handler
  BY <1>8 DEF Added
<1> HIDE DEF new
<1>12. nodes'[parent].wild = nodes[parent].wild /\ Longer(Nat, nodes'[parent].kids, nodes[parent].kids, new)
  BY <1>3, <1>7, <1>11
<1> QED BY <1>1, <1>7, <1>9, <1>10, <1>11, <1>12 DEF Leafed, new

LEMMA WildLeafs ==
  ASSUME TypeOK, IsTree, InsertWild, nodes[at].wild = 0
  PROVE  Leafed(at, TRUE)
<1> DEFINE new == Len(nodes) + 1
           hole == Head(After)
           word == Append(text[at], hole)
           leaf == Node(<<>>, hole)
           up == [nodes[at] EXCEPT !.wild = new]
<1>1. /\ at \in Ids /\ rest \in Seq(Signs) /\ Own = <<>> /\ rest \notin {<<>>, <<Slash>>}
      /\ nodes' = Append([nodes EXCEPT ![at] = up], leaf) /\ text' = Append(text, word)
  BY DEF InsertWild, Inserting, TypeOK
<1>2. hole \in Holes
  BY <1>1, RestFacts
<1>3. /\ nodes[at] \in NodeType /\ new \in Nat /\ new > 1 /\ Ids = 1 .. Len(nodes) /\ Len(nodes) \in Nat
      /\ nodes \in Seq(NodeType)
  BY <1>1, NodeFacts DEF IsTree
<1>4. leaf \in NodeType /\ leaf.kids = <<>> /\ leaf.wild = 0 /\ leaf.handler = 0
  <2>1. <<>> \in Seq(Characters) /\ <<>> \in Seq(Nat) /\ 0 \in Nat
    OBVIOUS
  <2> HIDE DEF hole
  <2> QED BY <1>2, <2>1 DEF Node, NodeType
<1>5. up \in NodeType /\ up.path = nodes[at].path /\ up.handler = nodes[at].handler /\ up.kids = nodes[at].kids
      /\ up.wild = new
  <2> HIDE DEF new
  <2> QED BY <1>3 DEF NodeType
<1> HIDE DEF up, leaf
<1>6. Grown(NodeType, nodes', nodes, at, up, leaf)
  BY <1>1, <1>3, <1>4, <1>5, AppendExcept
<1>7. nodes' \in Seq(NodeType) /\ Len(nodes') = new /\ nodes'[at] = up /\ nodes'[new] = leaf
      /\ \A k \in 1 .. Len(nodes) : k # at => nodes'[k] = nodes[k]
  BY <1>6 DEF Grown
<1>8. new \notin Ids /\ Ids' = Ids \cup {new}
  <2>1. Ids' = 1 .. new
    BY <1>7 DEF Ids
  <2> QED BY <2>1, <1>3
<1>9. \A n \in Ids : text'[n] = text[n]
  <2>1. text[at] \in Seq(Alphabet) /\ hole \in Alphabet
    BY <1>1, <1>2, TextType, Letterwise
  <2> HIDE DEF hole
  <2>2. word \in Seq(Alphabet)
    BY <2>1
  <2> HIDE DEF word
  <2> QED BY <2>2, <1>1, TextsStay
<1>10. \A n \in Ids : nodes[n].kids \in Seq(Nat) /\ nodes[n].wild # new /\ new \notin Kids(n)
  <2> SUFFICES ASSUME NEW n \in Ids PROVE nodes[n].kids \in Seq(Nat) /\ nodes[n].wild # new /\ new \notin Kids(n)
    OBVIOUS
  <2>1. nodes[n].kids \in Seq(Nat) /\ nodes[n].wild \in {0} \cup (Ids \ {1, n}) /\ Kids(n) \subseteq Ids
    BY NodeFacts
  <2> QED BY <2>1, <1>3
<1> HIDE DEF new
<1> QED BY <1>1, <1>3, <1>4, <1>5, <1>7, <1>8, <1>9, <1>10 DEF Leafed, new

\* The lists of children when a child has been split.
LEMMA SplitLists ==
  ASSUME TypeOK, IsTree, at \in Ids, SplitChild
  PROVE  nodes'[Child].kids = << Len(nodes) + 1 >> /\ nodes'[Len(nodes) + 1].kids = nodes[Child].kids
<1> DEFINE new == Len(nodes) + 1
           kid == Child
           node == nodes[kid]
           above == SubSeq(node.path, 1, Shared)
           below == Drop(node.path, Shared)
           upper == [Node(above, "") EXCEPT !.kids = << new >>]
           lower == [node EXCEPT !.path = below]
<1>1. Shares /\ nodes' = Append([nodes EXCEPT ![kid] = upper], lower)
  BY DEF SplitChild, OnText
<1>2. kid \in Ids /\ Split(kid, above, below)
  BY <1>1, SplitNodes, ChildFacts, KidIsNode
<1>3. nodes \in Seq(NodeType) /\ kid \in 1 .. Len(nodes) /\ node \in NodeType /\ new \in Nat
  BY <1>2, NodeFacts
<1> HIDE DEF kid, above, below, new
<1>4. above \in Seq(Characters) /\ below \in Seq(Characters)
  <2>1. nodes'[kid] \in NodeType /\ nodes'[Len(nodes) + 1] \in NodeType
    BY <1>2, <1>3 DEF Split, Ids
  <2> QED BY <2>1, <1>2 DEF Split, NodeType
<1>5. upper \in NodeType /\ lower \in NodeType /\ upper.kids = << new >> /\ lower.kids = node.kids
  <2>1. << new >> \in Seq(Nat)
    BY <1>3
  <2> QED BY <2>1, <1>3, <1>4 DEF Node, NodeType
<1> HIDE DEF upper, lower
<1>6. Grown(NodeType, nodes', nodes, kid, upper, lower)
  BY <1>1, <1>3, <1>5, AppendExcept
<1> QED BY <1>5, <1>6 DEF Grown, kid, new

\* The path of a child is not empty.
Edged == \A n \in Ids : \A k \in Kids(n) : nodes[k].path # <<>>

\* Two texts with the same first character share a prefix.
LEMMA SameHeads ==
  ASSUME NEW E, NEW s \in Seq(E), NEW t \in Seq(E), s # <<>>, t # <<>>, Head(s) = Head(t)
  PROVE  Common(s, t) > 0
<1> DEFINE n == Common(s, t)
<1>1. n \in 0 .. Len(s) /\ (n = Len(s) \/ n = Len(t) \/ s[n + 1] # t[n + 1])
  BY CommonFacts, CommonEnds
<1> HIDE DEF n
<1>2. Len(s) > 0 /\ Len(t) > 0 /\ s[1] = t[1]
  OBVIOUS
<1>3. n # 0
  BY <1>1, <1>2
<1> QED BY <1>1, <1>3 DEF n

\* insert takes the first of the children that begin like Own.
FirstAlike ==
  LET kids == nodes[at].kids
  IN  /\ Position \in 1 .. Len(kids) + 1
      /\ \A j \in 1 .. Position - 1 : kids[j] \in Kids(at) /\ Head(nodes[kids[j]].path) # Head(Own)
      /\ Shares => Head(nodes[Child].path) = Head(Own) /\ Child = kids[Position] /\ Position <= Len(kids)
      /\ ~Shares => Position = Len(kids) + 1

LEMMA TakesFirst ==
  ASSUME TypeOK, IsTree, Edged, at \in Ids, Own # <<>>
  PROVE  FirstAlike
<1> DEFINE kids == nodes[at].kids
           m == Len(kids)
           T == {i \in 1 .. m : Common(Own, nodes[kids[i]].path) > 0}
           Is(i) == /\ i <= m => Common(Own, nodes[kids[i]].path) > 0
                    /\ \A j \in 1 .. i - 1 : ~(Common(Own, nodes[kids[j]].path) > 0)
<1>1. kids \in Seq(Nat) /\ m \in Nat
  <2>1. kids \in Seq(Nat)
    BY NodeFacts
  <2> HIDE DEF kids
  <2> QED BY <2>1
<1>2. \E i \in 1 .. m + 1 : Is(i)
  <2> HIDE DEF kids, m
  <2>1. PICK i \in 1 .. m + 1 : (i <= m => i \in T) /\ \A j \in 1 .. i - 1 : j \notin T
    <3> HIDE DEF T
    <3>1. \E i \in 1 .. m + 1 : IsFirst(i, m, T)
      BY <1>1, FirstExists
    <3> QED BY <3>1 DEF IsFirst
  <2>2. \A j \in 1 .. i - 1 : j \in 1 .. m
    BY <1>1
  <2> QED BY <2>1, <2>2
<1>3. Position = CHOOSE i \in 1 .. m + 1 : Is(i)
  BY DEF Position, First
<1>4. Position \in 1 .. m + 1 /\ Is(Position)
  <2> DEFINE N == 1 .. m + 1
             c == CHOOSE i \in N : Is(i)
  <2>1. c \in N /\ Is(c)
    <3> HIDE DEF Is, N
    <3> QED BY <1>2 DEF N
  <2> QED BY <2>1, <1>3
<1>5. Own \in Seq(Characters)
  BY RestFacts DEF TypeOK
<1>6. ASSUME NEW j \in 1 .. Position - 1 PROVE kids[j] \in Kids(at) /\ Head(nodes[kids[j]].path) # Head(Own)
  <2>1. j \in 1 .. m
    BY <1>1, <1>4
  <2>2. kids[j] \in Kids(at)
    BY <2>1, <1>1 DEF Kids, ToSet
  <2> DEFINE t == nodes[kids[j]].path
             o == Own
  <2>3. t \in Seq(Characters) /\ t # <<>>
    BY <2>2, KidIsNode DEF Edged, NodeType
  <2>4. ~(Common(o, t) > 0) /\ o \in Seq(Characters) /\ o # <<>>
    BY <1>4, <1>5
  <2> HIDE DEF t, o, kids
  <2>5. Head(t) # Head(o)
    BY <2>3, <2>4, SameHeads
  <2> QED BY <2>2, <2>5 DEF t, o
<1>7. ASSUME Shares PROVE Head(nodes[Child].path) = Head(Own) /\ Child = kids[Position] /\ Position <= m
  <2>1. /\ Child \in Kids(at) /\ Shared > 0 /\ Shared \in 0 .. Len(Own) /\ Shared \in 0 .. Len(nodes[Child].path)
        /\ SubSeq(Own, 1, Shared) = SubSeq(nodes[Child].path, 1, Shared)
    BY <1>7, ChildFacts
  <2> DEFINE o == Own
             t == nodes[Child].path
             k == Shared
  <2>2. o \in Seq(Characters) /\ t \in Seq(Characters)
    BY <1>5, <2>1, KidIsNode DEF NodeType
  <2>3. k > 0 /\ k \in 0 .. Len(o) /\ k \in 0 .. Len(t) /\ SubSeq(o, 1, k) = SubSeq(t, 1, k)
    BY <2>1
  <2> HIDE DEF o, t, k
  <2>4. SubSeq(o, 1, k)[1] = o[1] /\ SubSeq(t, 1, k)[1] = t[1] /\ o # <<>> /\ t # <<>>
    BY <2>2, <2>3
  <2>5. Head(o) = Head(t)
    BY <2>2, <2>3, <2>4
  <2> QED BY <2>5, <1>7 DEF o, t, Child, Shares
<1>8. ~Shares => Position = m + 1
  BY <1>1, <1>4 DEF Shares
<1> QED BY <1>4, <1>6, <1>7, <1>8 DEF FirstAlike

\* The root or a wildcard: where insert begins with a text.
IsStem(n) == n = 1 \/ \E m \in Ids : nodes[m].wild = n

\* Two children of a node, y before x, that begin alike.
Rivals(n, x, y) ==
  LET kids == nodes[n].kids
  IN  x \in 1 .. Len(kids) /\ y \in 1 .. x - 1 /\ Head(nodes[kids[y]].path) = Head(nodes[kids[x]].path)

StemsApart == \A n \in Ids : IsStem(n) => \A x, y \in Nat : ~Rivals(n, x, y)

\* A new leaf is no rival below the root or a wildcard.
LEMMA LeafApart ==
  ASSUME TypeOK, IsTree, Edged, StemsApart, NEW parent \in Ids, NEW wild \in BOOLEAN, Leafed(parent, wild),
         ~wild => /\ nodes'[Len(nodes) + 1].path # <<>>
                  /\ IsStem(parent) => \A j \in 1 .. Len(nodes[parent].kids) :
                       Head(nodes[nodes[parent].kids[j]].path) # Head(nodes'[Len(nodes) + 1].path)
  PROVE  Edged' /\ StemsApart'
<1> DEFINE new == Len(nodes) + 1
           old(n) == nodes[n].kids
<1>1. /\ new \notin Ids /\ Ids' = Ids \cup {new} /\ nodes'[new].kids = <<>> /\ nodes'[new].wild = 0 /\ new > 1
      /\ \A n \in Ids : nodes'[n].path = nodes[n].path /\ old(n) \in Seq(Nat) /\ nodes[n].wild # new
      /\ \A n \in Ids : n # parent => nodes'[n].kids = old(n) /\ nodes'[n].wild = nodes[n].wild
      /\ wild => nodes'[parent].kids = old(parent) /\ nodes'[parent].wild = new
      /\ ~wild => Longer(Nat, nodes'[parent].kids, old(parent), new) /\ nodes'[parent].wild = nodes[parent].wild
  BY DEF Leafed
<1>2. \A n \in Ids : nodes[n].wild \in {0} \cup Ids /\ \A j \in 1 .. Len(old(n)) : old(n)[j] \in Kids(n) /\ old(n)[j] \in Ids
  <2> SUFFICES ASSUME NEW n \in Ids
               PROVE  nodes[n].wild \in {0} \cup Ids /\ \A j \in 1 .. Len(old(n)) : old(n)[j] \in Kids(n) /\ old(n)[j] \in Ids
    OBVIOUS
  <2>1. Kids(n) \subseteq Ids /\ nodes[n].wild \in {0} \cup Ids /\ old(n) \in Seq(Nat)
    BY NodeFacts
  <2> QED BY <2>1 DEF Kids, ToSet
<1> HIDE DEF new
\* The lists of children in the new tree.
<1>3. ASSUME NEW n \in Ids, NEW k \in 1 .. Len(nodes'[n].kids)
      PROVE  \/ k \in 1 .. Len(old(n)) /\ nodes'[n].kids[k] = old(n)[k]
             \/ ~wild /\ n = parent /\ k = Len(old(n)) + 1 /\ nodes'[n].kids[k] = new
  <2>1. CASE n # parent \/ wild
    <3>1. nodes'[n].kids = old(n)
      BY <2>1, <1>1
    <3> QED BY <3>1, <1>3
  <2>2. CASE n = parent /\ ~wild
    <3> DEFINE k2 == nodes'[n].kids
               k1 == old(n)
    <3>1. Longer(Nat, k2, k1, new) /\ k1 \in Seq(Nat) /\ k \in 1 .. Len(k2)
      BY <2>2, <1>1, <1>3
    <3> HIDE DEF k1, k2
    <3>2. \/ k \in 1 .. Len(k1) /\ k2[k] = k1[k]
          \/ k = Len(k1) + 1 /\ k2[k] = new
      BY <3>1 DEF Longer
    <3> QED BY <3>2, <2>2 DEF k1, k2
  <2> QED BY <2>1, <2>2
<1>4. \A n \in Ids : nodes'[n].kids \in Seq(Nat)
  BY <1>1 DEF Longer
<1>5. Edged'
  <2> SUFFICES ASSUME NEW n \in Ids', NEW k \in ToSet(nodes'[n].kids) PROVE nodes'[k].path # <<>>
    BY DEF Edged, Kids
  <2>1. n # new
    <3>1. ToSet(<<>>) = {}
      BY NoItems
    <3> QED BY <3>1, <1>1
  <2>2. n \in Ids
    BY <2>1, <1>1
  <2>3. PICK j \in 1 .. Len(nodes'[n].kids) : k = nodes'[n].kids[j]
    BY <2>2, <1>4 DEF ToSet
  <2>4. CASE ~wild /\ k = new
    BY <2>4 DEF new
  <2>5. CASE ~(~wild /\ k = new)
    <3>1. k \in Kids(n) /\ k \in Ids
      BY <2>2, <2>3, <2>5, <1>2, <1>3
    <3> QED BY <3>1, <2>2, <1>1 DEF Edged
  <2> QED BY <2>4, <2>5
<1>6. ASSUME NEW n \in Ids', IsStem(n)', NEW x \in Nat, NEW y \in Nat, Rivals(n, x, y)' PROVE FALSE
  <2>1. x \in 1 .. Len(nodes'[n].kids) /\ y \in 1 .. x - 1
        /\ Head(nodes'[nodes'[n].kids[y]].path) = Head(nodes'[nodes'[n].kids[x]].path)
    BY <1>6 DEF Rivals
  <2>2. n # new
    <3>1. Len(<<>>) = 0
      BY NoItems
    <3> QED BY <3>1, <2>1, <1>1
  <2>3. n \in Ids
    BY <2>2, <1>1
  <2>4. IsStem(n)
    <3>1. CASE n = 1
      BY <3>1 DEF IsStem
    <3>2. CASE n # 1
      <4>1. PICK m \in Ids' : nodes'[m].wild = n
        BY <1>6, <3>2 DEF IsStem
      <4>2. m \in Ids /\ nodes[m].wild = n
        <5>1. 0 \notin Ids
          BY DEF TypeOK, Ids
        <5> QED BY <4>1, <5>1, <2>2, <2>3, <1>1
      <4> QED BY <4>2 DEF IsStem
    <3> QED BY <3>1, <3>2
  <2> DEFINE l == Len(nodes'[n].kids)
  <2>5. l \in Nat /\ x \in 1 .. l /\ y \in 1 .. l /\ y < x
    <3>1. l \in Nat
      BY <2>3, <1>4
    <3> QED BY <3>1, <2>1
  <2>6. Len(old(n)) \in Nat
    BY <2>3, <1>1
  <2>7. y \in 1 .. Len(old(n)) /\ nodes'[n].kids[y] = old(n)[y]
    <3>1. \/ y \in 1 .. Len(old(n)) /\ nodes'[n].kids[y] = old(n)[y]
          \/ y = Len(old(n)) + 1
      BY <2>3, <2>5, <1>3
    <3>2. x \in 1 .. Len(old(n)) \/ x = Len(old(n)) + 1
      BY <2>3, <2>5, <1>3
    <3> QED BY <3>1, <3>2, <2>5, <2>6
  <2>8. nodes'[old(n)[y]].path = nodes[old(n)[y]].path
    BY <2>3, <2>7, <1>1, <1>2
  <2>9. CASE x \in 1 .. Len(old(n)) /\ nodes'[n].kids[x] = old(n)[x]
    <3>1. nodes'[old(n)[x]].path = nodes[old(n)[x]].path
      BY <2>3, <2>9, <1>1, <1>2
    <3>2. Rivals(n, x, y)
      BY <3>1, <2>1, <2>7, <2>8, <2>9 DEF Rivals
    <3> QED BY <3>2, <2>3, <2>4 DEF StemsApart
  <2>10. CASE ~wild /\ n = parent /\ nodes'[n].kids[x] = new
    BY <2>10, <2>1, <2>4, <2>7, <2>8 DEF new
  <2> QED BY <2>3, <2>5, <2>9, <2>10, <1>3
<1> QED BY <1>5, <1>6 DEF StemsApart

\* A split child begins as it did, and its lower half is an only child.
SplitFacts ==
  LET new == Len(nodes) + 1
      kid == Child
  IN  /\ kid \in Kids(at) /\ kid \in Ids /\ kid # 1 /\ kid # at
      /\ new \notin Ids /\ Ids' = Ids \cup {new} /\ new > 1
      /\ nodes'[kid].kids = << new >> /\ nodes'[kid].wild = 0 /\ nodes'[kid].handler = 0
      /\ nodes'[new].kids = nodes[kid].kids /\ nodes'[new].wild = nodes[kid].wild
      /\ nodes'[new].handler = nodes[kid].handler /\ nodes'[new].path # <<>> /\ nodes'[kid].path # <<>>
      /\ Head(nodes'[kid].path) = Head(nodes[kid].path)
      /\ \A n \in Ids : n # kid => nodes'[n] = nodes[n] /\ text'[n] = text[n]
      /\ text'[new] = text[kid]

LEMMA SplitIs ==
  ASSUME TypeOK, IsTree, at \in Ids, rest \in Seq(Signs), SplitChild
  PROVE  SplitFacts
<1> DEFINE new == Len(nodes) + 1
           kid == Child
           above == SubSeq(Own, 1, Shared)
           below == Drop(nodes[kid].path, Shared)
           path == SubSeq(nodes[kid].path, 1, Shared)
<1>1. Shares
  BY DEF SplitChild, OnText
<1>2. kid \in Kids(at) /\ kid \in Ids /\ kid # 1 /\ kid # at
  BY <1>1, ChildFacts, KidIsNode
<1>3. Split(kid, path, below)
  BY <1>1, SplitNodes
<1>4. Halved(nodes, text, nodes', text', at, kid, new, above, below)
  BY SplitHalves
<1>5. nodes'[kid].kids = << new >> /\ nodes'[new].kids = nodes[kid].kids
  BY SplitLists
<1> HIDE DEF new, kid, above, below, path
<1>6. /\ above \in Seq(Signs) /\ above # <<>> /\ below \in Seq(Signs) /\ below # <<>>
      /\ nodes[kid].path = above \o below /\ nodes'[kid].path = above /\ nodes'[new].path = below
      /\ text'[new] = text[kid] /\ \A k \in Ids : k # kid => nodes'[k] = nodes[k] /\ text'[k] = text[k]
  BY <1>4 DEF Halved, Ids
<1>7. Head(above) = Head(above \o below)
  BY <1>6
<1>8. /\ new \notin Ids /\ Ids' = Ids \cup {new} /\ new > 1 /\ nodes'[kid].wild = 0 /\ nodes'[kid].handler = 0
      /\ nodes'[new].wild = nodes[kid].wild /\ nodes'[new].handler = nodes[kid].handler
  BY <1>3 DEF Split, new
<1> QED BY <1>2, <1>5, <1>6, <1>7, <1>8 DEF SplitFacts, new, kid

LEMMA SplitApart ==
  ASSUME TypeOK, IsTree, Edged, StemsApart, SplitFacts, at \in Ids
  PROVE  /\ Edged' /\ StemsApart'
         /\ \A n \in Ids : IsStem(n) => IsStem(n)'
<1> DEFINE new == Len(nodes) + 1
           kid == Child
<1>1. /\ kid \in Kids(at) /\ kid \in Ids /\ kid # 1 /\ kid # at
      /\ new \notin Ids /\ Ids' = Ids \cup {new} /\ new > 1
      /\ nodes'[kid].kids = << new >> /\ nodes'[kid].wild = 0
      /\ nodes'[new].kids = nodes[kid].kids /\ nodes'[new].wild = nodes[kid].wild
      /\ nodes'[new].path # <<>> /\ nodes'[kid].path # <<>>
      /\ Head(nodes'[kid].path) = Head(nodes[kid].path)
      /\ \A n \in Ids : n # kid => nodes'[n] = nodes[n]
  BY DEF SplitFacts
<1>2. \A n \in Ids : /\ nodes[n].wild \in {0} \cup Ids /\ nodes[n].kids \in Seq(Nat)
                     /\ \A j \in 1 .. Len(nodes[n].kids) : nodes[n].kids[j] \in Kids(n) /\ nodes[n].kids[j] \in Ids
  <2> SUFFICES ASSUME NEW n \in Ids
               PROVE  /\ nodes[n].wild \in {0} \cup Ids /\ nodes[n].kids \in Seq(Nat)
                      /\ \A j \in 1 .. Len(nodes[n].kids) : nodes[n].kids[j] \in Kids(n) /\ nodes[n].kids[j] \in Ids
    OBVIOUS
  <2>1. Kids(n) \subseteq Ids /\ nodes[n].wild \in {0} \cup Ids /\ nodes[n].kids \in Seq(Nat)
    BY NodeFacts
  <2> QED BY <2>1 DEF Kids, ToSet
<1> HIDE DEF new, kid
<1>3. \A k \in Ids : nodes[k].path # <<>> => nodes'[k].path # <<>> /\ Head(nodes'[k].path) = Head(nodes[k].path)
  BY <1>1
<1>4. 0 \notin Ids
  BY DEF TypeOK, Ids
<1>5. ToSet(<< new >>) = {new} /\ Len(<< new >>) = 1
  BY DEF ToSet
<1>6. Edged'
  <2> SUFFICES ASSUME NEW n \in Ids', NEW k \in ToSet(nodes'[n].kids) PROVE nodes'[k].path # <<>>
    BY DEF Edged, Kids
  <2>1. CASE n = kid
    BY <2>1, <1>1, <1>5
  <2>2. CASE n # kid
    <3>1. \E m \in Ids : nodes'[n].kids = nodes[m].kids
      BY <2>2, <1>1
    <3>2. PICK m \in Ids : k \in Kids(m)
      BY <3>1 DEF Kids
    <3>3. k \in Ids /\ nodes[k].path # <<>>
      BY <3>2, NodeFacts DEF Edged
    <3> QED BY <3>3, <1>3
  <2> QED BY <2>1, <2>2
<1>7. ASSUME NEW n \in Ids', IsStem(n)', NEW x \in Nat, NEW y \in Nat, Rivals(n, x, y)' PROVE FALSE
  <2>1. x \in 1 .. Len(nodes'[n].kids) /\ y \in 1 .. x - 1
        /\ Head(nodes'[nodes'[n].kids[y]].path) = Head(nodes'[nodes'[n].kids[x]].path)
    BY <1>7 DEF Rivals
  <2>2. n # kid
    BY <2>1, <1>1, <1>5
  <2>3. n # new /\ IsStem(n)
    <3>1. CASE n = 1
      BY <3>1, <1>1 DEF IsStem, new
    <3>2. CASE n # 1
      <4>1. PICK m \in Ids' : nodes'[m].wild = n
        BY <1>7, <3>2 DEF IsStem
      <4>2. n # 0
        BY <1>1, <1>4
      <4>3. \E k \in Ids : nodes[k].wild = n
        BY <4>1, <4>2, <1>1
      <4> QED BY <4>2, <4>3, <1>1, <1>2 DEF IsStem
    <3> QED BY <3>1, <3>2
  <2>4. n \in Ids /\ nodes'[n] = nodes[n]
    BY <2>2, <2>3, <1>1
  <2> DEFINE l == Len(nodes[n].kids)
             a == nodes[n].kids[x]
             b == nodes[n].kids[y]
  <2>5. l \in Nat /\ x \in 1 .. l /\ y \in 1 .. l
    <3>1. l \in Nat
      BY <2>4, <1>2
    <3> QED BY <3>1, <2>1, <2>4
  <2>6. a \in Kids(n) /\ b \in Kids(n) /\ a \in Ids /\ b \in Ids
    BY <2>4, <2>5, <1>2
  <2>7. Head(nodes[a].path) = Head(nodes[b].path)
    <3>1. nodes[a].path # <<>> /\ nodes[b].path # <<>>
      BY <2>4, <2>6 DEF Edged
    <3> QED BY <3>1, <2>1, <2>4, <2>6, <1>3
  <2>8. Rivals(n, x, y)
    BY <2>1, <2>4, <2>7 DEF Rivals
  <2> QED BY <2>3, <2>4, <2>8 DEF StemsApart
<1>8. ASSUME NEW n \in Ids, IsStem(n) PROVE IsStem(n)'
  <2>1. CASE n = 1
    BY <2>1 DEF IsStem
  <2>2. CASE n # 1
    <3>1. PICK m \in Ids : nodes[m].wild = n
      BY <1>8, <2>2 DEF IsStem
    <3>2. \E k \in Ids' : nodes'[k].wild = n
      BY <3>1, <1>1
    <3> QED BY <3>2 DEF IsStem
  <2> QED BY <2>1, <2>2
<1> QED BY <1>6, <1>7, <1>8 DEF StemsApart

\* What insert has left after a call with a text, has no text, or nothing else.
LEMMA NoTextLeft ==
  ASSUME NEW s \in Seq(Signs), s = <<>> \/ Head(s) \in Holes
  PROVE  Fixed(Trim(s)) = <<>>
<1>1. Trim(s) = s
  BY SlashIsNoHole DEF Trim
<1> DEFINE f == Fixed(s)
           d == Drop(s, Len(f))
<1>2. f \in Seq(Characters) /\ d \in Seq(Signs) /\ s = f \o d
  BY FixedFacts
<1> HIDE DEF f, d
<1>3. ASSUME f # <<>> PROVE FALSE
  <2>1. s # <<>> /\ Head(s) = Head(f) /\ Head(f) \in Characters
    BY <1>2, <1>3
  <2> QED BY <2>1, SlashIsNoHole
<1> QED BY <1>1, <1>3 DEF f

LEMMA AllText ==
  ASSUME NEW s \in Seq(Characters)
  PROVE  Drop(Trim(s), Len(Fixed(Trim(s)))) = <<>>
<1> DEFINE t == Trim(s)
<1>1. t \in Seq(Characters) /\ t \in Seq(Signs)
  <2>1. t \in Seq(Characters)
    BY TrimLetters
  <2> QED BY <2>1 DEF Signs
<1> HIDE DEF t
<1> DEFINE f == Fixed(t)
           d == Drop(t, Len(f))
<1>2. f \in Seq(Characters) /\ d \in Seq(Signs) /\ t = f \o d /\ (d # <<>> => Head(d) \in Holes)
  BY <1>1, FixedFacts
<1> HIDE DEF f, d
<1>3. ASSUME d # <<>> PROVE FALSE
  <2>1. Len(f) + 1 \in 1 .. Len(t) /\ t[Len(f) + 1] = Head(d)
    BY <1>2, <1>3
  <2>2. Head(d) \in Characters
    BY <2>1, <1>1
  <2> QED BY <2>2, <1>2, <1>3, SlashIsNoHole
<1> QED BY <1>3 DEF d, f, t

\* The children are in order: no child without a path, none that begin alike
\* below a stem, insert is at a stem when a text and a placeholder are left,
\* and the route at hand is later than all that are in the tree.
Shape ==
  /\ Edged
  /\ StemsApart
  /\ at # 0 /\ Own # <<>> /\ After # <<>> => IsStem(at)
  /\ at # 0 => \A n \in Ids : nodes[n].handler < begun

\* A leaf keeps the shape, when no text and placeholder are left.
LEMMA LeafShape ==
  ASSUME TypeOK, IsTree, AfterWalk, Shape, NEW parent \in Ids, NEW wild \in BOOLEAN, Leafed(parent, wild), at # 0,
         begun' = begun, ~(Own' # <<>> /\ After' # <<>>) \/ (wild /\ at' = Len(nodes) + 1),
         ~wild => /\ nodes'[Len(nodes) + 1].path # <<>>
                  /\ IsStem(parent) => \A j \in 1 .. Len(nodes[parent].kids) :
                       Head(nodes[nodes[parent].kids[j]].path) # Head(nodes'[Len(nodes) + 1].path)
  PROVE  Shape'
<1>1. Edged' /\ StemsApart'
  BY LeafApart DEF Shape
<1>2. begun \in DOMAIN routes
  BY Busy
<1>3. begun > 0
  BY <1>2 DEF TypeOK
<1>4. \A n \in Ids' : nodes'[n].handler < begun'
  BY <1>3 DEF Leafed, Shape
<1>5. Own' # <<>> /\ After' # <<>> => IsStem(at)'
  <2>1. CASE wild /\ at' = Len(nodes) + 1
    <3>1. parent \in Ids' /\ nodes'[parent].wild = at'
      BY <2>1 DEF Leafed
    <3> QED BY <3>1 DEF IsStem
  <2> QED BY <2>1
<1> QED BY <1>1, <1>4, <1>5 DEF Shape

\* A child is no stem.
LEMMA KidIsNoStem ==
  ASSUME IsTree, NEW n \in Ids, NEW kid \in Kids(n), kid # 1
  PROVE  ~IsStem(kid)
BY DEF IsTree, IsStem

\* A call for what follows the text has no text.
LEMMA NoTextAfter ==
  ASSUME rest \in Seq(Signs), rest' = After
  PROVE  Own' = <<>>
<1>1. After \in Seq(Signs) /\ (After = <<>> \/ Head(After) \in Holes)
  BY TrimCutOwn
<1>2. Fixed(Trim(After)) = <<>>
  <2> DEFINE a == After
  <2>1. a \in Seq(Signs) /\ (a = <<>> \/ Head(a) \in Holes)
    BY <1>1
  <2> HIDE DEF a
  <2>2. Fixed(Trim(a)) = <<>>
    BY <2>1, NoTextLeft
  <2> QED BY <2>2 DEF a
<1> QED BY <1>2 DEF Own

\* Every call of insert keeps the shape.
LEMMA ShapeStays ==
  ASSUME TypeOK, IsTree, AfterWalk, Shape, Build
  PROVE  Shape'
<1>1. CASE Begin
  <2>1. UNCHANGED <<nodes, text>> /\ begun' = begun + 1 /\ at' = 1
    BY <1>1 DEF Begin
  <2>2. \A n \in Ids : nodes[n].handler < begun + 1
    BY DEF IsTree, TypeOK
  <2> QED BY <2>1, <2>2 DEF Shape, Edged, StemsApart, IsStem, Rivals, Ids, Kids
<1>2. ASSUME at # 0 PROVE at \in Ids /\ begun \in DOMAIN routes /\ rest \in Seq(Signs)
  BY <1>2, Busy
<1>3. CASE InsertHere
  <2>1. at # 0 /\ at' = 0 /\ nodes' = [nodes EXCEPT ![at].handler = begun]
    BY <1>3 DEF InsertHere, Inserting, Call
  <2>2. nodes \in Seq(NodeType) /\ Ids' = Ids
        /\ \A n \in Ids : nodes'[n].kids = nodes[n].kids /\ nodes'[n].path = nodes[n].path /\ nodes'[n].wild = nodes[n].wild
    <3>1. nodes \in Seq(NodeType)
      BY DEF TypeOK
    <3>2. \A n \in Ids : nodes[n] \in NodeType
      BY DEF TypeOK, Ids
    <3>3. Ids' = Ids /\ \A n \in Ids : nodes'[n] = IF n = at THEN [nodes[at] EXCEPT !.handler = begun] ELSE nodes[n]
      BY <2>1, <3>1 DEF Ids
    <3> QED BY <3>1, <3>2, <3>3 DEF NodeType
  <2>3. \A n \in Ids : Kids(n) \subseteq Ids /\ nodes[n].kids \in Seq(Nat)
    BY NodeFacts
  <2>4. Edged'
    BY <2>2, <2>3 DEF Edged, Kids, Shape
  <2>5. ASSUME NEW n \in Ids, IsStem(n)', NEW x \in Nat, NEW y \in Nat, Rivals(n, x, y)' PROVE FALSE
    <3>1. IsStem(n)
      BY <2>2, <2>5 DEF IsStem
    <3> DEFINE kids == nodes[n].kids
    <3>2. x \in 1 .. Len(kids) /\ y \in 1 .. x - 1 /\ Head(nodes'[kids[y]].path) = Head(nodes'[kids[x]].path)
      BY <2>2, <2>5 DEF Rivals
    <3>3. kids[x] \in Ids /\ kids[y] \in Ids
      <4>1. kids \in Seq(Nat) /\ ToSet(kids) \subseteq Ids
        BY <2>3 DEF Kids
      <4> HIDE DEF kids
      <4>2. y \in 1 .. Len(kids)
        BY <3>2, <4>1
      <4> QED BY <3>2, <4>1, <4>2 DEF ToSet
    <3>4. Rivals(n, x, y)
      BY <3>2, <3>3, <2>2 DEF Rivals
    <3> QED BY <3>1, <3>4 DEF Shape, StemsApart
  <2> QED BY <2>1, <2>2, <2>4, <2>5 DEF Shape, StemsApart
<1>4. CASE InsertWild
  <2>1. at # 0 /\ Own = <<>> /\ begun' = begun
    BY <1>4 DEF InsertWild, Inserting
  <2>2. CASE nodes[at].wild # 0
    <3>1. UNCHANGED <<nodes, text>> /\ at' = nodes[at].wild
      BY <1>4, <2>2 DEF InsertWild, Call
    <3>2. IsStem(at)'
      BY <1>2, <2>1, <3>1 DEF IsStem, Ids
    <3> QED BY <2>1, <3>1, <3>2 DEF Shape, Edged, StemsApart, IsStem, Rivals, Ids, Kids
  <2>3. CASE nodes[at].wild = 0
    <3>1. Leafed(at, TRUE) /\ at' = Len(nodes) + 1
      BY <1>4, <2>3, WildLeafs DEF InsertWild, Call
    <3> QED BY <1>2, <2>1, <3>1, LeafShape
  <2> QED BY <2>2, <2>3
<1>5. CASE AddChild
  <2>1. at # 0 /\ Own # <<>> /\ begun' = begun /\ ~Shares /\ Add(at, Own) /\ rest' = After
    BY <1>5 DEF AddChild, OnText, Inserting, Add, Call
  <2>2. Own \in Seq(Characters)
    BY <1>2, <2>1, TrimCutOwn
  <2>3. Leafed(at, FALSE) /\ nodes'[Len(nodes) + 1].path = Own
    BY <1>2, <2>1, <2>2, AddLeafs, AddNodes DEF Added
  <2>4. Own' = <<>>
    BY <1>2, <2>1, NoTextAfter
  <2>5. \A j \in 1 .. Len(nodes[at].kids) : Head(nodes[nodes[at].kids[j]].path) # Head(Own)
    <3>1. FirstAlike
      BY <1>2, <2>1, TakesFirst DEF Shape
    <3>2. Len(nodes[at].kids) \in Nat
      BY <1>2, <2>1, NodeFacts
    <3> QED BY <2>1, <3>1, <3>2 DEF FirstAlike
  <2> QED BY <1>2, <2>1, <2>3, <2>4, <2>5, LeafShape
<1>6. CASE SplitChild
  <2>1. at # 0 /\ begun' = begun /\ at' = at /\ rest' = rest
    BY <1>6 DEF SplitChild, OnText, Inserting
  <2>2. SplitFacts
    BY <1>2, <1>6, <2>1, SplitIs
  <2>3. Edged' /\ StemsApart' /\ \A n \in Ids : IsStem(n) => IsStem(n)'
    BY <1>2, <2>1, <2>2, SplitApart DEF Shape
  <2>4. \A n \in Ids' : nodes'[n].handler < begun
    <3>1. begun > 0
      BY <1>2, <2>1 DEF TypeOK
    <3> QED BY <2>1, <2>2, <3>1 DEF SplitFacts, Shape
  <2>5. Own' = Own /\ After' = After
    BY <2>1 DEF Own, After
  <2> QED BY <1>2, <2>1, <2>3, <2>4, <2>5 DEF Shape
<1>7. CASE Descend
  <2>1. /\ at # 0 /\ begun' = begun /\ UNCHANGED <<nodes, text>> /\ Shares /\ rest' = Left \o After
        /\ Left = <<>> \/ After = <<>>
    BY <1>7 DEF Descend, OnText, Inserting, Call
  <2>2. SharedCuts(SubSeq(Own, 1, Shared), Drop(Own, Shared))
    BY <1>2, <2>1, SharedCut
  <2>3. Left \in Seq(Characters) /\ After \in Seq(Signs)
    BY <1>2, <2>1, <2>2, TrimCutOwn DEF SharedCuts
  <2>4. Own' = <<>> \/ After' = <<>>
    <3>1. CASE Left = <<>>
      <4>1. rest' = After
        BY <2>1, <2>3, <3>1
      <4> QED BY <1>2, <2>1, <4>1, NoTextAfter
    <3>2. CASE After = <<>>
      <4> DEFINE l == Left
      <4>1. rest' = l /\ l \in Seq(Characters)
        BY <2>1, <2>3, <3>2
      <4> HIDE DEF l
      <4>2. Drop(Trim(l), Len(Fixed(Trim(l)))) = <<>>
        BY <4>1, AllText
      <4> QED BY <4>1, <4>2 DEF After, Own
    <3> QED BY <2>1, <3>1, <3>2
  <2> QED BY <2>1, <2>4 DEF Shape, Edged, StemsApart, IsStem, Rivals, Ids, Kids
<1>8. CASE AddBelow
  <2>1. at # 0 /\ begun' = begun /\ Shares /\ Left # <<>> /\ Add(Child, Left) /\ rest' = After
    BY <1>8 DEF AddBelow, OnText, Inserting, Add, Call
  <2>2. SharedCuts(SubSeq(Own, 1, Shared), Drop(Own, Shared))
    BY <1>2, <2>1, SharedCut
  <2>3. Left \in Seq(Characters)
    BY <2>2 DEF SharedCuts
  <2>4. Child \in Ids /\ ~IsStem(Child)
    BY <1>2, <2>1, ChildFacts, KidIsNode, KidIsNoStem
  <2>5. Leafed(Child, FALSE) /\ nodes'[Len(nodes) + 1].path = Left
    BY <2>1, <2>3, <2>4, AddLeafs, AddNodes DEF Added
  <2>6. Own' = <<>>
    BY <1>2, <2>1, NoTextAfter
  <2> QED BY <2>1, <2>4, <2>5, <2>6, LeafShape
<1> QED BY <1>1, <1>3, <1>4, <1>5, <1>6, <1>7, <1>8 DEF Build

\* A route whose pattern, in front of u, has the letters of a node.
GoesBy(j, n, e, u) ==
  j \in 1 .. begun /\ e \in Seq(Signs) /\ u \in Seq(Signs) /\ Pattern(routes[j]) = e \o u /\ Letters(e) = text[n]

\* The path of a child is in some pattern as it is.
Passed(n, k) == \E j, e, t, u : u \in Seq(Signs) /\ t = nodes[k].path \o u /\ GoesBy(j, n, e, t)

EndsIn(d, z) == \E f \in Seq(Signs) : d = f \o << z >>

\* Behind a child one route ends or has a placeholder, or two part.
Fork(k) == \E i, j, z, d, e, u, v :
  /\ z \in Signs /\ EndsIn(d, z) /\ EndsIn(e, z)
  /\ GoesBy(i, k, d, u) /\ GoesBy(j, k, e, v)
  /\ u = <<>> \/ Head(u) \in Holes \/ (v # <<>> /\ Head(u) # Head(v))

Forks == \A n \in Ids : \A k \in Kids(n) : Passed(n, k) /\ Fork(k)

LEMMA GoesByStays ==
  ASSUME routes' = routes, begun \in Nat, begun' \in {begun, begun + 1}, NEW j, NEW n, NEW m, text'[m] = text[n], NEW e, NEW u, GoesBy(j, n, e, u)
  PROVE  GoesBy(j, m, e, u)'
BY DEF GoesBy

LEMMA ForkStays ==
  ASSUME routes' = routes, begun \in Nat, begun' \in {begun, begun + 1}, NEW n, NEW m, text'[m] = text[n], Fork(n)
  PROVE  Fork(m)'
<1>1. PICK i, j, z, d, e, u, v :
        /\ z \in Signs /\ EndsIn(d, z) /\ EndsIn(e, z)
        /\ GoesBy(i, n, d, u) /\ GoesBy(j, n, e, v)
        /\ u = <<>> \/ Head(u) \in Holes \/ (v # <<>> /\ Head(u) # Head(v))
  BY DEF Fork
<1>2. GoesBy(i, m, d, u)' /\ GoesBy(j, m, e, v)'
  BY <1>1, GoesByStays
<1> QED BY <1>1, <1>2 DEF Fork

LEMMA PassedStays ==
  ASSUME routes' = routes, begun \in Nat, begun' \in {begun, begun + 1},
         NEW n, NEW m, text'[m] = text[n], NEW k, nodes'[k].path = nodes[k].path, Passed(n, k)
  PROVE  Passed(m, k)'
<1>1. PICK j, e, t, u : u \in Seq(Signs) /\ t = nodes[k].path \o u /\ GoesBy(j, n, e, t)
  BY DEF Passed
<1>2. GoesBy(j, m, e, t)'
  BY <1>1, GoesByStays
<1>3. t = nodes'[k].path \o u
  BY <1>1
<1> QED BY <1>1, <1>2, <1>3 DEF Passed

\* What the pattern has in front of the last sign of a text.
LEMMA EndsInSign ==
  ASSUME NEW q \in Seq(Signs), NEW s \in Seq(Signs), s # <<>>
  PROVE  s[Len(s)] \in Signs /\ EndsIn(q \o s, s[Len(s)])
<1> DEFINE n == Len(s)
           f == SubSeq(s, 1, n - 1)
           z == s[n]
<1>1. n \in Nat /\ n > 0 /\ n - 1 \in 0 .. n /\ z \in Signs
  OBVIOUS
<1>2. IsCut(Signs, s, n - 1, f, Drop(s, n - 1))
  BY <1>1, Cut
<1>3. f \in Seq(Signs) /\ Drop(s, n - 1) = << z >> /\ s = f \o << z >>
  <2> DEFINE b == Drop(s, n - 1)
  <2>1. /\ b \in Seq(Signs) /\ Len(b) = n - (n - 1) /\ s = f \o b /\ f \in Seq(Signs) /\ Len(f) = n - 1
    BY <1>2 DEF IsCut
  <2> HIDE DEF b, f
  <2>2. Len(b) = 1 /\ b[1] = z
    BY <2>1, <1>1
  <2>3. b = << z >>
    BY <2>1, <2>2
  <2> QED BY <2>1, <2>3 DEF b
<1> HIDE DEF f, n, z
<1>4. q \o (f \o << z >>) = (q \o f) \o << z >> /\ q \o f \in Seq(Signs)
  BY <1>1, <1>3
<1> QED BY <1>1, <1>3, <1>4 DEF n, z, EndsIn

\* A new leaf behind the parent's text.
LEMMA LeafForks ==
  ASSUME TypeOK, IsTree, TextsSpelled', Forks, NEW parent \in Ids, Leafed(parent, FALSE), routes' = routes, begun' = begun,
         NEW path \in Seq(Characters), path # <<>>, nodes'[Len(nodes) + 1].path = path, begun \in 1 .. Len(routes),
         NEW t \in Seq(Signs), t = <<>> \/ Head(t) \in Holes, Leaves(text, Pattern(routes[begun]), parent, path \o t)
  PROVE  Forks'
<1>0. PICK new : new = Len(nodes) + 1
  OBVIOUS
<1>1. /\ new \notin Ids /\ Ids' = Ids \cup {new} /\ nodes'[new].kids = <<>>
      /\ \A n \in Ids : nodes'[n].path = nodes[n].path /\ text'[n] = text[n] /\ nodes[n].kids \in Seq(Nat)
      /\ \A n \in Ids : n # parent => nodes'[n].kids = nodes[n].kids
      /\ Longer(Nat, nodes'[parent].kids, nodes[parent].kids, new)
  BY <1>0 DEF Leafed
<1>2. begun \in Nat
  BY DEF TypeOK
<1>3. ASSUME NEW n \in Ids', NEW k \in ToSet(nodes'[n].kids)
      PROVE  n \in Ids /\ (k \in Kids(n) \/ (n = parent /\ k = new))
  <2>1. n # new
    BY <1>1, <1>3, NoItems
  <2>2. n \in Ids
    BY <2>1, <1>1
  <2>3. CASE n # parent
    BY <2>2, <2>3, <1>1, <1>3 DEF Kids
  <2>4. CASE n = parent
    <3> DEFINE k2 == nodes'[n].kids
               k1 == nodes[n].kids
    <3>1. Longer(Nat, k2, k1, new) /\ k1 \in Seq(Nat) /\ k \in ToSet(k2)
      BY <2>2, <2>4, <1>1, <1>3
    <3> HIDE DEF k1, k2
    <3>2. k \in ToSet(k1) \cup {new}
      <4>1. PICK i \in 1 .. Len(k2) : k = k2[i]
        BY <3>1 DEF Longer, ToSet
      <4>2. i \in 1 .. Len(k1) \/ i = Len(k1) + 1
        BY <3>1 DEF Longer
      <4>3. DOMAIN k1 = 1 .. Len(k1)
        BY <3>1
      <4> QED BY <3>1, <4>1, <4>2, <4>3 DEF Longer, ToSet
    <3> QED BY <3>2, <2>2, <2>4 DEF k1, Kids
  <2> QED BY <2>3, <2>4
<1>4. \A n \in Ids : Kids(n) \subseteq Ids
  BY NodeFacts
<1>5. PICK q \in Seq(Signs) : Pattern(routes[begun]) = q \o (path \o t) /\ Letters(q) = text[parent]
  BY DEF Leaves
<1>6. path \in Seq(Signs)
  BY DEF Signs
<1>7. Passed(parent, new)'
  <2>1. PICK r : r = path \o t
    OBVIOUS
  <2>2. r \in Seq(Signs) /\ Pattern(routes[begun]) = q \o r
    BY <2>1, <1>5, <1>6
  <2>3. GoesBy(begun, parent, q, r)'
    BY <2>2, <1>1, <1>2, <1>5 DEF GoesBy
  <2> QED BY <1>0, <2>1, <2>3 DEF Passed
<1>8. Fork(new)'
  <2>1. PICK a, z : a = q \o path /\ z = path[Len(path)]
    OBVIOUS
  <2>2. z \in Signs /\ EndsIn(a, z)
    BY <1>5, <1>6, <2>1, EndsInSign
  <2> DEFINE p == Pattern(routes[begun])
  <2>3. a \in Seq(Signs) /\ p = a \o t /\ Letters(a) = Letters(q) \o Letters(path)
    <3>1. p = q \o (path \o t)
      BY <1>5
    <3> HIDE DEF p
    <3>2. Letters(a) = Letters(q) \o Letters(path)
      BY <2>1, <1>5, <1>6, LettersConcat
    <3>3. q \in Seq(Signs) /\ path \in Seq(Signs) /\ t \in Seq(Signs)
      BY <1>5, <1>6
    <3>4. q \o (path \o t) = (q \o path) \o t /\ q \o path \in Seq(Signs)
      BY ONLY <3>3
    <3> QED BY <2>1, <3>1, <3>2, <3>4
  <2>4. text'[new] = text'[parent] \o Letters(path)
    <3> DEFINE k2 == nodes'[parent].kids
    <3>1. Longer(Nat, k2, nodes[parent].kids, new) /\ nodes[parent].kids \in Seq(Nat)
      BY <1>1
    <3> HIDE DEF k2
    <3>2. new \in ToSet(k2)
      BY <3>1 DEF Longer, ToSet
    <3>3. new \in Kids(parent)' /\ parent \in Ids'
      BY <3>2, <1>1 DEF Kids, k2
    <3> QED BY <1>0, <3>3 DEF TextsSpelled
  <2> HIDE DEF p
  <2>5. GoesBy(begun, new, a, t)'
    <3>1. Letters(a) = text'[new]
      BY <2>3, <2>4, <1>1, <1>5
    <3>2. Pattern(routes'[begun']) = a \o t
      BY <2>3 DEF p
    <3> QED BY <3>1, <3>2, <2>3, <1>2 DEF GoesBy
  <2> QED BY <2>2, <2>5 DEF Fork
<1> SUFFICES ASSUME NEW n \in Ids', NEW k \in ToSet(nodes'[n].kids) PROVE Passed(n, k)' /\ Fork(k)'
  BY DEF Forks, Kids
<1>9. CASE n \in Ids /\ k \in Kids(n)
  <2>1. k \in Ids /\ Passed(n, k) /\ Fork(k)
    BY <1>4, <1>9 DEF Forks
  <2>2. text'[n] = text[n] /\ text'[k] = text[k] /\ nodes'[k].path = nodes[k].path
    BY <2>1, <1>1, <1>9
  <2> QED BY <2>1, <2>2, <1>2, PassedStays, ForkStays
<1> QED BY <1>3, <1>7, <1>8, <1>9

\* The children, their paths and texts are what they were.
LEMMA SameForks ==
  ASSUME TypeOK, IsTree, Forks, routes' = routes, begun \in Nat, begun' \in {begun, begun + 1},
         \A n \in Ids' : nodes'[n].kids = <<>> \/ (n \in Ids /\ nodes'[n].kids = nodes[n].kids),
         \A n \in Ids : nodes'[n].path = nodes[n].path /\ text'[n] = text[n]
  PROVE  Forks'
<1> SUFFICES ASSUME NEW n \in Ids', NEW k \in ToSet(nodes'[n].kids) PROVE Passed(n, k)' /\ Fork(k)'
  BY DEF Forks, Kids
<1>1. n \in Ids /\ k \in Kids(n)
  BY NoItems DEF Kids
<1>2. k \in Ids /\ Passed(n, k) /\ Fork(k)
  BY <1>1, NodeFacts DEF Forks
<1>3. text'[n] = text[n] /\ text'[k] = text[k] /\ nodes'[k].path = nodes[k].path
  BY <1>1, <1>2
<1> QED BY <1>2, <1>3, PassedStays, ForkStays

\* A split adds a fork where the child and the route at hand part.
LEMMA SplitForks ==
  ASSUME TypeOK, IsTree, AfterWalk, TextsSpelled, RestLeft, Forks, at # 0, SplitChild, Unwalked
  PROVE  Forks'
<1>0. PICK new, kid, c, x : new = Len(nodes) + 1 /\ kid = Child /\ c = begun /\ x = at
  OBVIOUS
<1>1. PICK above, below, more : above = SubSeq(Own, 1, Shared) /\ below = Drop(nodes[Child].path, Shared)
                                /\ more = Drop(Own, Shared)
  OBVIOUS
<1>2. /\ at \in Ids /\ c \in DOMAIN routes /\ rest \in Seq(Signs) /\ Shares /\ begun' = begun /\ routes' = routes
      /\ begun \in Nat /\ c \in 1 .. begun /\ Shared < Len(nodes[kid].path)
  <2>1. at \in Ids /\ begun \in DOMAIN routes /\ rest \in Seq(Signs) /\ begun # 0
    BY Busy
  <2>2. begun \in Nat
    BY DEF TypeOK
  <2>3. Shares /\ begun' = begun /\ routes' = routes /\ Shared < Len(nodes[Child].path)
    BY DEF SplitChild, OnText, Inserting, Unwalked
  <2> QED BY <2>1, <2>2, <2>3, <1>0
<1>3. SplitFacts /\ Halved(nodes, text, nodes', text', at, kid, new, above, below) /\ SharedCuts(above, more)
  BY <1>0, <1>1, <1>2, SplitIs, SplitHalves, SharedCut
<1>4. /\ kid \in Kids(x) /\ kid \in Ids /\ new \notin Ids /\ Ids' = Ids \cup {new}
      /\ ToSet(nodes'[kid].kids) = {new} /\ ToSet(nodes'[new].kids) = Kids(kid)
      /\ above \in Seq(Signs) /\ above # <<>> /\ below \in Seq(Signs) /\ below # <<>>
      /\ nodes[kid].path = above \o below /\ nodes'[kid].path = above /\ nodes'[new].path = below
      /\ text'[kid] = text[x] \o Letters(above) /\ text'[new] = text[kid]
      /\ \A k \in Ids : k # kid => nodes'[k] = nodes[k] /\ text'[k] = text[k]
  BY <1>0, <1>3 DEF Halved, Ids, Kids
<1>5. more \in Seq(Signs) /\ After \in Seq(Signs) /\ Trim(rest) = above \o (more \o After) /\ kid # x
      /\ (After = <<>> \/ Head(After) \in Holes)
  BY <1>0, <1>2, <1>3, TrimCutOwn DEF SharedCuts, SplitFacts
<1>6. \A m \in Ids : Kids(m) \subseteq Ids
  BY NodeFacts
\* The route that passed the child, and the one at hand.
<1>7. PICK j, e, t, u : u \in Seq(Signs) /\ t = (above \o below) \o u /\ GoesBy(j, x, e, t)
  <2>1. Passed(x, kid)
    BY <1>0, <1>2, <1>4 DEF Forks
  <2> QED BY <2>1, <1>4 DEF Passed
<1>8. PICK r, v : /\ r = below \o u /\ r \in Seq(Signs) /\ t = above \o r /\ r # <<>> /\ Head(r) = Head(below)
                  /\ v = more \o After /\ v \in Seq(Signs)
  <2>1. (above \o below) \o u = above \o (below \o u)
    BY <1>4, <1>7, ConcatAssoc
  <2>2. below \in Seq(Signs) /\ below # <<>> /\ u \in Seq(Signs) /\ more \in Seq(Signs) /\ After \in Seq(Signs)
    BY <1>4, <1>5, <1>7
  <2>3. below \o u \in Seq(Signs) /\ below \o u # <<>> /\ Head(below \o u) = Head(below)
    BY ONLY <2>2
  <2>4. more \o After \in Seq(Signs)
    BY <2>2
  <2> QED BY <2>1, <2>3, <2>4, <1>7
<1>9. j \in 1 .. begun /\ e \in Seq(Signs) /\ Letters(e) = text[x] /\ Pattern(routes[j]) = e \o (above \o r)
  BY <1>7, <1>8 DEF GoesBy
<1>10. PICK q \in Seq(Signs) : Pattern(routes[c]) = q \o (above \o v) /\ Letters(q) = text[x]
  <2>1. Leaves(text, Pattern(routes[begun]), at, Trim(rest))
    BY AtCall
  <2> QED BY <2>1, <1>0, <1>5, <1>8 DEF Leaves
<1>11. Passed(x, kid)'
  <2>1. text'[x] = text[x] /\ t = nodes'[kid].path \o r
    BY <1>0, <1>2, <1>4, <1>5, <1>8
  <2>2. GoesBy(j, x, e, t)'
    BY <2>1, <1>2, <1>7, GoesByStays
  <2> QED BY <2>1, <2>2, <1>8 DEF Passed
<1>12. PICK a, b, z : /\ a = e \o above /\ b = q \o above /\ z \in Signs /\ EndsIn(a, z) /\ EndsIn(b, z)
                      /\ a \in Seq(Signs) /\ b \in Seq(Signs)
  <2>1. e \o above \in Seq(Signs) /\ q \o above \in Seq(Signs)
    BY <1>4, <1>9, <1>10
  <2> QED BY <2>1, <1>4, <1>9, <1>10, EndsInSign
<1>13. Letters(a) = text'[kid] /\ Letters(b) = text'[kid]
  <2>1. Letters(e \o above) = Letters(e) \o Letters(above) /\ Letters(q \o above) = Letters(q) \o Letters(above)
    BY <1>4, <1>9, <1>10, LettersConcat
  <2> QED BY <2>1, <1>4, <1>9, <1>10, <1>12
<1>14. Pattern(routes[j]) = a \o r /\ Pattern(routes[c]) = b \o v
  <2>1. e \o (above \o r) = (e \o above) \o r /\ q \o (above \o v) = (q \o above) \o v
    <3>1. e \in Seq(Signs) /\ q \in Seq(Signs) /\ above \in Seq(Signs) /\ r \in Seq(Signs) /\ v \in Seq(Signs)
      BY <1>4, <1>8, <1>9, <1>10
    <3>2. e \o (above \o r) = (e \o above) \o r
      BY ONLY <3>1
    <3>3. q \o (above \o v) = (q \o above) \o v
      BY ONLY <3>1
    <3> QED BY <3>2, <3>3
  <2> QED BY <2>1, <1>9, <1>10, <1>12
<1>15. GoesBy(j, kid, a, r)' /\ GoesBy(c, kid, b, v)'
  BY <1>2, <1>8, <1>9, <1>12, <1>13, <1>14 DEF GoesBy
<1>16. v = <<>> \/ Head(r) # Head(v)
  <2>1. Parts(above, below, v)
    BY <1>0, <1>1, <1>2, <1>8, SplitParts
  <2> QED BY <2>1, <1>8 DEF Parts
<1>17. Fork(kid)'
  <2>1. CASE v = <<>>
    BY <2>1, <1>12, <1>15 DEF Fork
  <2>2. CASE v # <<>>
    <3>1. Head(r) # Head(v)
      BY <2>2, <1>16
    <3>2. /\ z \in Signs /\ EndsIn(a, z) /\ EndsIn(b, z)
          /\ GoesBy(j, kid, a, r)' /\ GoesBy(c, kid, b, v)'
          /\ r = <<>> \/ Head(r) \in Holes \/ (v # <<>> /\ Head(r) # Head(v))
      BY <2>2, <3>1, <1>12, <1>15
    <3> QED BY ONLY <3>2 DEF Fork
  <2> QED BY <2>1, <2>2
<1>18. Passed(kid, new)'
  <2>1. GoesBy(j, kid, a, r)' /\ r = nodes'[new].path \o u
    BY <1>4, <1>8, <1>15
  <2> QED BY <2>1, <1>7 DEF Passed
<1> SUFFICES ASSUME NEW m \in Ids', NEW k \in ToSet(nodes'[m].kids) PROVE Passed(m, k)' /\ Fork(k)'
  BY DEF Forks, Kids
<1>19. CASE m = kid
  <2>1. k = new /\ Fork(kid) /\ kid \in Ids
    <3>1. x \in Ids
      BY <1>0, <1>2
    <3>2. Fork(kid)
      BY <3>1, <1>4 DEF Forks
    <3> QED BY <3>2, <1>4, <1>19
  <2>2. Fork(new)'
    BY <2>1, <1>2, <1>4, ForkStays
  <2> QED BY <2>1, <2>2, <1>18, <1>19
<1>20. CASE m # kid
  <2>1. PICK o \in Ids : k \in Kids(o) /\ text'[m] = text[o]
    <3>1. CASE m = new
      BY <3>1, <1>4
    <3>2. CASE m # new
      BY <3>2, <1>4, <1>20 DEF Kids
    <3> QED BY <3>1, <3>2
  <2>2. k \in Ids /\ Passed(o, k) /\ Fork(k)
    BY <2>1, <1>6 DEF Forks
  <2>3. CASE k = kid
    <3>1. m = x
      <4>1. o = x
        BY <1>0, <2>1, <2>3, <1>3 DEF Halved, Ids, Kids
      <4>2. m # new
        BY <2>3, <1>3, <1>4 DEF Halved, Kids
      <4>3. m \in Ids /\ k \in Kids(m)
        BY <4>2, <1>4, <1>20 DEF Kids
      <4> QED BY <1>0, <4>3, <2>3, <1>3 DEF Halved, Ids, Kids
    <3> QED BY <3>1, <2>3, <1>11, <1>17
  <2>4. CASE k # kid
    <3>1. text'[k] = text[k] /\ nodes'[k].path = nodes[k].path
      BY <2>2, <2>4, <1>4
    <3> QED BY <3>1, <2>1, <2>2, <1>2, PassedStays, ForkStays
  <2> QED BY <2>3, <2>4
<1> QED BY <1>19, <1>20

\* Every call of insert keeps what is known of the children.
LEMMA ForksStay ==
  ASSUME TypeOK, IsTree, AfterWalk, TextsSpelled, RestLeft, Forks, TextsSpelled', Build
  PROVE  Forks'
<1>1. routes' = routes /\ Unwalked /\ begun \in Nat
  BY DEF Build, Unwalked, TypeOK
<1>2. ASSUME at # 0
      PROVE  /\ at \in Ids /\ begun \in 1 .. Len(routes) /\ rest \in Seq(Signs) /\ After \in Seq(Signs) /\ Own \in Seq(Characters)
             /\ (After = <<>> \/ Head(After) \in Holes)
             /\ Leaves(text, Pattern(routes[begun]), at, Own \o After)
  <2>1. at \in Ids /\ begun \in DOMAIN routes /\ rest \in Seq(Signs)
    BY <1>2, Busy
  <2>2. Leaves(text, Pattern(routes[begun]), at, Trim(rest)) /\ begun \in 1 .. Len(routes)
    BY <1>2, <2>1, AtCall DEF TypeOK
  <2> QED BY <2>1, <2>2, TrimCutOwn
<1>3. CASE Begin \/ Descend \/ (InsertWild /\ nodes[at].wild # 0)
  <2>1. nodes' = nodes /\ text' = text /\ begun' \in {begun, begun + 1}
    BY <1>3 DEF Begin, Descend, InsertWild, OnText, Inserting
  <2> QED BY <1>1, <2>1, SameForks DEF Ids
<1>4. CASE InsertHere
  <2>1. at \in Ids /\ nodes' = [nodes EXCEPT ![at].handler = begun] /\ text' = text /\ begun' = begun
    BY <1>2, <1>4 DEF InsertHere, Inserting
  <2>2. nodes \in Seq(NodeType) /\ nodes[at] \in NodeType
    BY <2>1, NodeFacts
  <2>3. Ids' = Ids /\ \A n \in Ids : nodes'[n].kids = nodes[n].kids /\ nodes'[n].path = nodes[n].path
    <3>1. Ids' = Ids /\ \A n \in Ids : nodes'[n] = IF n = at THEN [nodes[at] EXCEPT !.handler = begun] ELSE nodes[n]
      BY <2>1, <2>2 DEF Ids
    <3> QED BY <2>2, <3>1 DEF NodeType
  <2> QED BY <1>1, <2>1, <2>3, SameForks
<1>5. CASE InsertWild /\ nodes[at].wild = 0
  <2>1. Leafed(at, TRUE) /\ begun' = begun
    BY <1>5, WildLeafs DEF InsertWild, Inserting
  <2>2. \A n \in Ids' : nodes'[n].kids = <<>> \/ (n \in Ids /\ nodes'[n].kids = nodes[n].kids)
    BY <2>1 DEF Leafed
  <2>3. \A n \in Ids : nodes'[n].path = nodes[n].path /\ text'[n] = text[n]
    BY <2>1 DEF Leafed
  <2> QED BY <1>1, <2>1, <2>2, <2>3, SameForks
<1>6. CASE AddChild
  <2>1. at # 0 /\ Own # <<>> /\ begun' = begun /\ Add(at, Own)
    BY <1>6 DEF AddChild, OnText, Inserting
  <2> DEFINE o == Own
             a == After
  <2>2. Leafed(at, FALSE) /\ nodes'[Len(nodes) + 1].path = o
    BY <1>2, <2>1, AddLeafs, AddNodes DEF Added
  <2>3. /\ o \in Seq(Characters) /\ o # <<>> /\ a \in Seq(Signs) /\ (a = <<>> \/ Head(a) \in Holes)
        /\ Leaves(text, Pattern(routes[begun]), at, o \o a)
    BY <1>2, <2>1
  <2> HIDE DEF o, a
  <2> QED BY <1>1, <1>2, <2>1, <2>2, <2>3, LeafForks
<1>7. CASE SplitChild
  <2>1. at # 0
    BY <1>7 DEF SplitChild, OnText, Inserting
  <2> QED BY <1>1, <1>7, <2>1, SplitForks
<1>8. CASE AddBelow
  <2>1. at # 0 /\ Left # <<>> /\ begun' = begun /\ Add(Child, Left) /\ Shares /\ Shared = Len(nodes[Child].path)
    BY <1>8 DEF AddBelow, OnText, Inserting
  <2> DEFINE o == Left
             a == After
             n == Child
  <2>2. n \in Ids /\ o \in Seq(Characters)
    BY <1>2, <2>1, ChildFacts, KidIsNode, SharedCut DEF SharedCuts
  <2>3. Leafed(n, FALSE) /\ nodes'[Len(nodes) + 1].path = o
    BY <2>1, <2>2, AddLeafs, AddNodes DEF Added
  <2>4. /\ o # <<>> /\ a \in Seq(Signs) /\ (a = <<>> \/ Head(a) \in Holes)
        /\ Leaves(text, Pattern(routes[begun]), n, o \o a)
    BY <1>2, <2>1, ChildLeaves
  <2> HIDE DEF o, a, n
  <2> QED BY <1>1, <1>2, <2>1, <2>2, <2>3, <2>4, LeafForks
<1> QED BY <1>3, <1>4, <1>5, <1>6, <1>7, <1>8 DEF Build

\* No child is twice in the list of its parent.
Once == \A n \in Ids : \A a, b \in 1 .. Len(nodes[n].kids) : nodes[n].kids[a] = nodes[n].kids[b] => a = b

LEMMA OnceStays ==
  ASSUME TypeOK, IsTree, AfterWalk, Once, Build
  PROVE  Once'
<1>1. ASSUME at # 0 PROVE at \in Ids /\ begun \in DOMAIN routes /\ rest \in Seq(Signs)
  BY <1>1, Busy
<1>2. CASE Begin \/ Descend \/ (InsertWild /\ nodes[at].wild # 0)
  <2>1. nodes' = nodes
    BY <1>2 DEF Begin, Descend, InsertWild
  <2> QED BY <2>1 DEF Once, Ids
<1>3. CASE InsertHere
  <2>1. at \in Ids /\ nodes' = [nodes EXCEPT ![at].handler = begun]
    BY <1>1, <1>3 DEF InsertHere, Inserting
  <2>2. nodes \in Seq(NodeType) /\ nodes[at] \in NodeType
    BY <2>1, NodeFacts
  <2>3. Ids' = Ids /\ \A n \in Ids : nodes'[n].kids = nodes[n].kids
    <3>1. Ids' = Ids /\ \A n \in Ids : nodes'[n] = IF n = at THEN [nodes[at] EXCEPT !.handler = begun] ELSE nodes[n]
      BY <2>1, <2>2 DEF Ids
    <3> QED BY <2>2, <3>1 DEF NodeType
  <2> QED BY <2>3 DEF Once
<1>4. CASE \E n \in Ids, wild \in BOOLEAN : Leafed(n, wild)
  <2>1. PICK parent \in Ids, wild \in BOOLEAN : Leafed(parent, wild)
    BY <1>4
  <2>2. PICK new : new = Len(nodes) + 1
    OBVIOUS
  <2>3. /\ Ids' = Ids \cup {new} /\ nodes'[new].kids = <<>>
        /\ \A n \in Ids : nodes[n].kids \in Seq(Nat) /\ new \notin Kids(n)
        /\ \A n \in Ids : n # parent => nodes'[n].kids = nodes[n].kids
        /\ wild => nodes'[parent].kids = nodes[parent].kids
        /\ ~wild => Longer(Nat, nodes'[parent].kids, nodes[parent].kids, new)
    BY <2>1, <2>2 DEF Leafed
  <2> SUFFICES ASSUME NEW n \in Ids', NEW a \in 1 .. Len(nodes'[n].kids), NEW b \in 1 .. Len(nodes'[n].kids),
                      nodes'[n].kids[a] = nodes'[n].kids[b]
               PROVE  a = b
    BY DEF Once
  <2>4. CASE n \notin Ids
    BY <2>3, <2>4, NoItems
  <2>5. CASE n \in Ids /\ (n # parent \/ wild)
    BY <2>3, <2>5 DEF Once
  <2>6. CASE n = parent /\ ~wild
    <3> DEFINE k2 == nodes'[n].kids
               k1 == nodes[n].kids
    <3>1. /\ Longer(Nat, k2, k1, new) /\ k1 \in Seq(Nat) /\ new \notin ToSet(k1) /\ a \in 1 .. Len(k2) /\ b \in 1 .. Len(k2)
          /\ k2[a] = k2[b] /\ \A i, j \in 1 .. Len(k1) : k1[i] = k1[j] => i = j
      BY <2>3, <2>6 DEF Once, Kids
    <3> HIDE DEF k1, k2
    <3>2. \A i \in 1 .. Len(k1) : k2[i] = k1[i] /\ k1[i] # new
      <4>1. DOMAIN k1 = 1 .. Len(k1)
        BY <3>1
      <4> QED BY <3>1, <4>1 DEF Longer, ToSet
    <3>3. k2[Len(k1) + 1] = new /\ a \in 1 .. Len(k1) + 1 /\ b \in 1 .. Len(k1) + 1 /\ Len(k1) \in Nat
      BY <3>1 DEF Longer
    <3>4. CASE a \in 1 .. Len(k1) /\ b \in 1 .. Len(k1)
      BY <3>1, <3>2, <3>4
    <3>5. CASE a = Len(k1) + 1 /\ b = Len(k1) + 1
      BY <3>5
    <3> QED BY <3>1, <3>2, <3>3, <3>4, <3>5
  <2> QED BY <2>4, <2>5, <2>6
<1>5. CASE SplitChild
  <2>1. at # 0
    BY <1>5 DEF SplitChild, OnText, Inserting
  <2>2. SplitFacts
    BY <1>1, <1>5, <2>1, SplitIs
  <2>3. PICK new, kid : new = Len(nodes) + 1 /\ kid = Child
    OBVIOUS
  <2>4. /\ kid \in Ids /\ Ids' = Ids \cup {new} /\ nodes'[kid].kids = << new >> /\ nodes'[new].kids = nodes[kid].kids
        /\ \A n \in Ids : n # kid => nodes'[n] = nodes[n]
    BY <2>2, <2>3 DEF SplitFacts
  <2>5. Len(<< new >>) = 1
    OBVIOUS
  <2> SUFFICES ASSUME NEW n \in Ids', NEW a \in 1 .. Len(nodes'[n].kids), NEW b \in 1 .. Len(nodes'[n].kids),
                      nodes'[n].kids[a] = nodes'[n].kids[b]
               PROVE  a = b
    BY DEF Once
  <2>6. CASE n = kid
    <3>1. a \in 1 .. 1 /\ b \in 1 .. 1
      BY <2>4, <2>5, <2>6
    <3> QED BY <3>1
  <2>7. CASE n # kid
    <3>1. PICK m \in Ids : nodes'[n].kids = nodes[m].kids
      BY <2>4, <2>7
    <3> QED BY <3>1 DEF Once
  <2> QED BY <2>6, <2>7
<1>6. CASE InsertWild /\ nodes[at].wild = 0
  <2>1. Leafed(at, TRUE) /\ at \in Ids
    BY <1>1, <1>6, WildLeafs DEF InsertWild, Inserting
  <2> QED BY <2>1, <1>4
<1>7. CASE AddChild
  <2>1. at # 0 /\ Add(at, Own)
    BY <1>7 DEF AddChild, OnText, Inserting
  <2>2. Leafed(at, FALSE) /\ at \in Ids
    BY <1>1, <2>1, TrimCutOwn, AddLeafs
  <2> QED BY <2>2, <1>4
<1>8. CASE AddBelow
  <2>1. at # 0 /\ Add(Child, Left) /\ Shares
    BY <1>8 DEF AddBelow, OnText, Inserting
  <2>2. Child \in Ids /\ Left \in Seq(Characters)
    BY <1>1, <2>1, ChildFacts, KidIsNode, SharedCut DEF SharedCuts
  <2>3. Leafed(Child, FALSE)
    BY <2>1, <2>2, AddLeafs
  <2> QED BY <2>2, <2>3, <1>4
<1> QED BY <1>2, <1>3, <1>5, <1>6, <1>7, <1>8 DEF Build

OrderKept == Shape /\ Once /\ (Orderly => Forks)

\* The root alone has no children to put in order.
LEMMA RootInOrder ==
  ASSUME NEW root, root.kids = <<>>, nodes = << root >>, at = 0
  PROVE  OrderKept
<1>3. DOMAIN nodes = 1 .. 1 /\ nodes[1] = root
  OBVIOUS
<1>4. \A n \in Ids : nodes[n].kids = <<>>
  BY <1>3 DEF Ids
<1>5. Len(<<>>) = 0 /\ DOMAIN <<>> = {}
  OBVIOUS
<1>6. \A n \in Ids : Kids(n) = {}
  BY <1>4, <1>5 DEF Kids, ToSet
<1>7. StemsApart
  BY <1>4, <1>5 DEF StemsApart, Rivals
<1>8. Edged /\ Once
  BY <1>4, <1>5, <1>6 DEF Edged, Once
<1> QED BY <1>6, <1>7, <1>8 DEF OrderKept, Shape, Forks

LEMMA AloneInOrder == nodes = << Node(<<>>, "") >> /\ at = 0 => OrderKept
<1> DEFINE root == Node(<<>>, "")
<1> SUFFICES ASSUME nodes = << root >>, at = 0 PROVE OrderKept
  OBVIOUS
<1>1. root.kids = <<>>
  BY DEF Node
<1> HIDE DEF root
<1> QED BY <1>1, RootInOrder

\* Every step keeps the order of the children.
LEMMA OrderStays ==
  ASSUME TreeSpelled, TreeSpelled', Orderly => RestLeft, OrderKept, [Next]_vars
  PROVE  OrderKept'
<1>1. CASE Build
  <2>1. TypeOK /\ IsTree /\ AfterWalk
    BY DEF TreeSpelled
  <2>2. Shape' /\ Once'
    BY <1>1, <2>1, ShapeStays, OnceStays DEF OrderKept
  <2>3. ASSUME Orderly' PROVE Forks'
    <3>1. routes' = routes
      BY <1>1 DEF Build, Unwalked
    <3>2. Orderly
      BY <3>1, <2>3, OrderlyStays
    <3>3. TextsSpelled /\ TextsSpelled' /\ RestLeft /\ Forks
      BY <2>3, <3>2 DEF TreeSpelled, OrderKept
    <3> QED BY <1>1, <2>1, <3>3, ForksStay
  <2> QED BY <2>2, <2>3 DEF OrderKept
<1>2. CASE AddRoute \/ AddLayout \/ NoFile
  <2>1. walked < Len(Files) /\ nodes' = nodes /\ at' = at
    BY <1>2 DEF AddRoute, AddLayout, NoFile, Found, Pass, tree
  <2>2. nodes = << Node(<<>>, "") >> /\ at = 0
    <3>1. AfterWalk /\ walked \in 0 .. Len(Files)
      BY DEF TreeSpelled, TypeOK
    <3>2. walked # Len(Files)
      <4> DEFINE n == Len(Files)
      <4>1. walked < n /\ walked \in 0 .. n
        BY <2>1, <3>1
      <4> HIDE DEF n
      <4>2. walked # n
        BY <4>1
      <4> QED BY <4>2 DEF n
    <3> QED BY <3>1, <3>2 DEF AfterWalk
  <2>3. (nodes = << Node(<<>>, "") >> /\ at = 0)'
    BY <2>1, <2>2
  <2> QED BY <2>3, AloneInOrder, PTL
<1>3. CASE UNCHANGED vars
  <2>1. routes' = routes /\ nodes' = nodes /\ text' = text /\ begun' = begun /\ at' = at /\ rest' = rest
    BY <1>3 DEF vars
  <2>2. Shape'
    BY <2>1 DEF OrderKept, Shape, Edged, StemsApart, IsStem, Rivals, Own, After, Ids, Kids
  <2>3. Once'
    BY <2>1 DEF OrderKept, Once, Ids
  <2>4. Orderly' => Forks'
    <3> SUFFICES ASSUME Orderly' PROVE Forks'
      OBVIOUS
    <3>1. Forks
      BY <2>1, OrderlyStays DEF OrderKept
    <3> QED BY <2>1, <3>1, SameForks DEF Ids, TreeSpelled, TypeOK
  <2> QED BY <2>2, <2>3, <2>4 DEF OrderKept
<1> QED BY <1>1, <1>2, <1>3 DEF Next

\* The tree holds no node that no route needs, and its children stay apart:
\* none has an empty path or is listed twice, none of the root or of a
\* placeholder begin alike, the path of each is in the pattern of a route as
\* it is, and behind each a route ends or has a placeholder, or two part
\* (radix.go:48-121, what insert's splits and appends leave).
THEOREM TreeIsTight == Spec => [](Shape /\ Once /\ (Orderly => Forks))
<1>1. Init => OrderKept
  BY AloneInOrder DEF Init
<1>2. TreeSpelled /\ TreeSpelled' /\ (Orderly => RestLeft) /\ OrderKept /\ [Next]_vars => OrderKept'
  BY OrderStays
<1>3. Spec => []OrderKept
  BY <1>1, <1>2, TreeIsSpelled, RestAlways, PTL DEF Spec
<1> QED BY <1>3 DEF OrderKept

-----------------------------------------------------------------------------
(* What is below a child                                                   *)

\* S is closed, and only the edge from n to its child k leads into it.
Encloses(S, n, k) ==
  /\ S \subseteq Ids \ {1, n} /\ k \in S
  /\ \A m \in S : Kids(m) \subseteq S /\ (nodes[m].wild # 0 => nodes[m].wild \in S)
  /\ \A m \in Ids \ S : nodes[m].wild \notin S /\ \A j \in Kids(m) : j \in S => m = n /\ j = k

\* Whoever has a node has what is below it.
Closed(T) == \A m \in T : Kids(m) \subseteq T /\ (nodes[m].wild # 0 => nodes[m].wild \in T)

\* The nodes with a text that begins like that of k.
Beneath(k) == {m \in Ids : \E u \in Seq(Alphabet) : text[m] = text[k] \o u}

LEMMA BeneathClosed ==
  ASSUME TypeOK, IsTree, TextsSpelled, NEW k \in Ids
  PROVE  Closed(Beneath(k)) /\ k \in Beneath(k)
<1> DEFINE T == Beneath(k)
<1>1. text[k] \in Seq(Alphabet)
  BY TextType
<1>2. \A m \in Ids : Kids(m) \subseteq Ids \ {1, m} /\ nodes[m].wild \in {0} \cup (Ids \ {1, m})
  BY DEF IsTree
<1>3. k \in T
  <2>1. text[k] = text[k] \o <<>> /\ <<>> \in Seq(Alphabet)
    BY <1>1
  <2> QED BY <2>1 DEF Beneath
<1>4. Closed(T)
  <2> SUFFICES ASSUME NEW m \in T, NEW j, j \in Kids(m) \/ (j # 0 /\ j = nodes[m].wild) PROVE j \in T
    BY DEF Closed
  <2>0. m \in Ids /\ \E u \in Seq(Alphabet) : text[m] = text[k] \o u
    BY DEF Beneath
  <2>1. PICK u \in Seq(Alphabet) : text[m] = text[k] \o u
    BY <2>0
  <2>2. j \in Ids
    BY <2>0, <1>2
  <2>3. PICK v \in Seq(Alphabet) : text[j] = text[m] \o v
    <3>1. CASE j \in Kids(m)
      <4>1. text[j] = text[m] \o Letters(nodes[j].path)
        BY <3>1, <2>0 DEF TextsSpelled
      <4>2. Letters(nodes[j].path) \in Seq(Alphabet)
        BY <3>1, <2>0, KidIsNode, LettersHoleless DEF NodeType
      <4> QED BY <4>1, <4>2
    <3>2. CASE j # 0 /\ j = nodes[m].wild
      <4>1. text[j] = Append(text[m], nodes[j].hole) /\ nodes[j].hole \in Holes
        BY <3>2, <2>0 DEF TextsSpelled, IsTree
      <4>2. << nodes[j].hole >> \in Seq(Alphabet)
        BY <4>1, Letterwise
      <4>3. Append(text[m], nodes[j].hole) = text[m] \o << nodes[j].hole >>
        OBVIOUS
      <4> QED BY <4>1, <4>2, <4>3
    <3> QED BY <3>1, <3>2
  <2>4. (text[k] \o u) \o v = text[k] \o (u \o v) /\ u \o v \in Seq(Alphabet)
    <3>1. text[k] \in Seq(Alphabet) /\ u \in Seq(Alphabet) /\ v \in Seq(Alphabet)
      BY <1>1, <2>1, <2>3
    <3> DEFINE w == text[k]
    <3>2. w \in Seq(Alphabet)
      BY <3>1
    <3> HIDE DEF w
    <3>3. (w \o u) \o v = w \o (u \o v)
      BY ONLY <3>1, <3>2
    <3>4. u \o v \in Seq(Alphabet)
      BY ONLY <3>1
    <3> QED BY <3>3, <3>4 DEF w
  <2> QED BY <2>1, <2>2, <2>3, <2>4 DEF Beneath
<1> QED BY <1>3, <1>4

\* What is below a child with a letter.
LEMMA Enclosed ==
  ASSUME TypeOK, IsTree, TextsSpelled, NEW n \in Ids, NEW k \in Kids(n), Letters(nodes[k].path) # <<>>
  PROVE  \E S : Encloses(S, n, k)
<1> DEFINE IsClosed(T) == \A m \in T : Kids(m) \subseteq T /\ (nodes[m].wild # 0 => nodes[m].wild \in T)
           Family == {T \in SUBSET Ids : k \in T /\ IsClosed(T)}
           S == {m \in Ids : \A T \in Family : m \in T}
<1>1. k \in Ids /\ k # 1 /\ k # n
  BY KidIsNode
<1>2. \A m \in Ids : Kids(m) \subseteq Ids \ {1, m} /\ nodes[m].wild \in {0} \cup (Ids \ {1, m})
  BY DEF IsTree
<1>3. S \subseteq Ids /\ k \in S
  BY <1>1
<1>4. IsClosed(S)
  <2> SUFFICES ASSUME NEW m \in S, NEW j, j \in Kids(m) \/ (j # 0 /\ j = nodes[m].wild) PROVE j \in S
    OBVIOUS
  <2>1. j \in Ids
    BY <1>2, <1>3
  <2>2. ASSUME NEW T \in Family PROVE j \in T
    <3>1. m \in T
      OBVIOUS
    <3> QED BY <3>1
  <2> QED BY <2>1, <2>2
<1>5. n \notin S
  <2> DEFINE T == Beneath(k)
  <2>1. text[k] \in Seq(Alphabet) /\ text[n] \in Seq(Alphabet)
    BY <1>1, TextType
  <2>2. k \in T /\ Closed(T)
    BY <1>1, BeneathClosed
  <2>4. n \notin T
    <3> SUFFICES ASSUME NEW u \in Seq(Alphabet), text[n] = text[k] \o u PROVE FALSE
      BY DEF Beneath
    <3>1. text[k] = text[n] \o Letters(nodes[k].path)
      BY DEF TextsSpelled
    <3> DEFINE l == Letters(nodes[k].path)
    <3>2. l \in Seq(Alphabet) /\ l # <<>> /\ text[k] = text[n] \o l
      BY <3>1, KidIsNode, LettersHoleless DEF NodeType
    <3> HIDE DEF l
    <3>3. Len(text[k]) = Len(text[n]) + Len(l) /\ Len(text[n]) = Len(text[k]) + Len(u)
      BY <2>1, <3>2
    <3>4. Len(l) # 0 /\ Len(l) \in Nat /\ Len(u) \in Nat /\ Len(text[n]) \in Nat /\ Len(text[k]) \in Nat
      BY <2>1, <3>2
    <3> QED BY <3>3, <3>4
  <2>5. T \in Family
    BY <2>2 DEF Closed, Beneath
  <2> QED BY <2>4, <2>5
\* Every node of S but k has its parent in S.
<1>6. ASSUME NEW s \in S, s # k PROVE \E m \in S : s \in Kids(m) \/ (s # 0 /\ s = nodes[m].wild)
  <2> SUFFICES ASSUME \A m \in S : s \notin Kids(m) /\ ~(s # 0 /\ s = nodes[m].wild) PROVE FALSE
    OBVIOUS
  <2> DEFINE R == S \ {s}
  <2>1. R \in SUBSET Ids /\ k \in R
    BY <1>3, <1>6
  <2>2. IsClosed(R)
    <3> SUFFICES ASSUME NEW m \in R, NEW j, j \in Kids(m) \/ (j # 0 /\ j = nodes[m].wild) PROVE j \in R
      OBVIOUS
    <3> HIDE DEF S
    <3>1. j \in S /\ j # s
      BY <1>4
    <3> QED BY <3>1
  <2>3. R \in Family
    BY <2>1, <2>2
  <2> QED BY <2>3
<1> HIDE DEF S
<1>7. 1 \notin S
  <2> SUFFICES ASSUME 1 \in S PROVE FALSE
    OBVIOUS
  <2>1. PICK m \in S : 1 \in Kids(m) \/ 1 = nodes[m].wild
    BY <1>1, <1>6
  <2> QED BY <2>1, <1>2, <1>3
<1>8. ASSUME NEW m \in Ids \ S, NEW j \in S, j \in Kids(m) \/ j = nodes[m].wild PROVE m = n /\ j = k /\ j # nodes[m].wild
  <2>1. j # 0
    <3>1. 0 \notin Ids
      BY DEF TypeOK, Ids
    <3> QED BY <3>1, <1>3
  <2>2. CASE j = k
    <3>1. j # nodes[m].wild
      BY <2>2, <1>8 DEF IsTree
    <3> QED BY <3>1, <2>2, <1>8 DEF IsTree
  <2>3. CASE j # k
    <3>1. PICK o \in S : j \in Kids(o) \/ (j # 0 /\ j = nodes[o].wild)
      BY <2>3, <1>6
    <3>2. o \in Ids /\ m \in Ids
      BY <1>3, <1>8
    <3>3. \A x \in DOMAIN nodes : x # o => j \notin ToSet(nodes[x].kids) /\ (j # 0 => nodes[x].wild # j)
      BY <3>1, <3>2, OnlyParent
    <3> QED BY <3>2, <3>3, <2>1, <1>8 DEF Ids, Kids
  <2> QED BY <2>2, <2>3
<1>9. S \subseteq Ids \ {1, n} /\ \A m \in Ids \ S : nodes[m].wild \notin S
  BY <1>3, <1>5, <1>7, <1>8
<1> QED BY <1>3, <1>4, <1>8, <1>9 DEF Encloses

\* A route that has no placeholder behind the text of a node.
Plainly(f, n) == \E s \in Seq(Characters) : Letters(Pattern(routes[f])) = text[n] \o Letters(s)
\* What a child of n holds that begins like a later one of the route i.
Before(f, i, n) == f < i \/ Plainly(f, n)

\* The routes in S are such, and so is the one at hand when it is in there.
Screens(S, i, n, k) ==
  /\ Encloses(S, n, k)
  /\ \A m \in S : /\ nodes[m].handler # 0 => Before(nodes[m].handler, i, n)
                  /\ m = at => Before(begun, i, n)
Screened(i, n, k) == \E S : Screens(S, i, n, k)

LEMMA BeforeStays ==
  ASSUME routes' = routes, NEW n, NEW m, text'[m] = text[n], NEW f, NEW i, Before(f, i, n)
  PROVE  Before(f, i, m)'
BY DEF Before, Plainly

\* A leaf below n, or below a node of S when the route at hand may be there.
LEMMA LeafScreens ==
  ASSUME TypeOK, IsTree, NEW S, NEW i, NEW n \in Ids, NEW k, Screens(S, i, n, k),
         NEW parent \in Ids, NEW wild \in BOOLEAN, Leafed(parent, wild),
         routes' = routes, begun' = begun, at' = Len(nodes) + 1, parent \in S => Before(begun, i, n)
  PROVE  Screened(i, n, k)'
<1>0. PICK new : new = Len(nodes) + 1
  OBVIOUS
<1>1. /\ new \notin Ids /\ Ids' = Ids \cup {new} /\ nodes'[new].kids = <<>> /\ nodes'[new].wild = 0 /\ nodes'[new].handler = 0
      /\ \A m \in Ids : /\ nodes'[m].handler = nodes[m].handler /\ text'[m] = text[m] /\ nodes[m].kids \in Seq(Nat)
                        /\ nodes[m].wild # new /\ new \notin Kids(m)
      /\ \A m \in Ids : m # parent => nodes'[m].kids = nodes[m].kids /\ nodes'[m].wild = nodes[m].wild
      /\ wild => nodes'[parent].kids = nodes[parent].kids /\ nodes'[parent].wild = new
      /\ ~wild => Longer(Nat, nodes'[parent].kids, nodes[parent].kids, new) /\ nodes'[parent].wild = nodes[parent].wild
      /\ new > 1
  BY <1>0 DEF Leafed
<1>2. /\ S \subseteq Ids \ {1, n} /\ k \in S
      /\ \A m \in S : Kids(m) \subseteq S /\ (nodes[m].wild # 0 => nodes[m].wild \in S)
      /\ \A m \in Ids \ S : nodes[m].wild \notin S /\ \A j \in Kids(m) : j \in S => m = n /\ j = k
      /\ \A m \in S : /\ nodes[m].handler # 0 => Before(nodes[m].handler, i, n)
                      /\ m = at => Before(begun, i, n)
  BY DEF Screens, Encloses
<1>3. \A m \in Ids : m # parent \/ wild => ToSet(nodes'[m].kids) = Kids(m)
  BY <1>1 DEF Kids
<1>4. ~wild => ToSet(nodes'[parent].kids) = Kids(parent) \cup {new}
  <2> SUFFICES ASSUME ~wild PROVE ToSet(nodes'[parent].kids) = Kids(parent) \cup {new}
    OBVIOUS
  <2> DEFINE k2 == nodes'[parent].kids
             k1 == nodes[parent].kids
  <2>1. Longer(Nat, k2, k1, new) /\ k1 \in Seq(Nat)
    BY <1>1
  <2> HIDE DEF k2, k1
  <2>2. ToSet(k2) = ToSet(k1) \cup {new}
    <3>1. DOMAIN k1 = 1 .. Len(k1) /\ DOMAIN k2 = 1 .. Len(k1) + 1 /\ k2[Len(k1) + 1] = new /\ Len(k1) \in Nat
          /\ \A x \in 1 .. Len(k1) : k2[x] = k1[x]
      BY <2>1 DEF Longer
    <3>2. 1 .. Len(k1) + 1 = (1 .. Len(k1)) \cup {Len(k1) + 1}
      BY <3>1
    <3> QED BY <3>1, <3>2 DEF ToSet
  <2> QED BY <2>2 DEF k1, k2, Kids
<1>5. ToSet(nodes'[new].kids) = {}
  BY <1>1, NoItems
<1>6. PICK T : T = IF parent \in S THEN S \cup {new} ELSE S
  OBVIOUS
<1>7. T \subseteq Ids' \ {1, n} /\ k \in T /\ S \subseteq T /\ T \subseteq S \cup {new} /\ (new \in T <=> parent \in S)
  BY <1>1, <1>2, <1>6
<1>8. ASSUME NEW m \in T
      PROVE  ToSet(nodes'[m].kids) \subseteq T /\ (nodes'[m].wild # 0 => nodes'[m].wild \in T)
  <2>1. CASE m = new
    BY <2>1, <1>1, <1>5
  <2>2. CASE m # new /\ m # parent
    BY <2>2, <1>1, <1>2, <1>3, <1>7
  <2>3. CASE m # new /\ m = parent /\ wild
    BY <2>3, <1>1, <1>2, <1>3, <1>7
  <2>4. CASE m # new /\ m = parent /\ ~wild
    BY <2>4, <1>1, <1>2, <1>4, <1>7
  <2> QED BY <2>1, <2>2, <2>3, <2>4
<1>9. ASSUME NEW m \in Ids' \ T
      PROVE  nodes'[m].wild \notin T /\ \A j \in ToSet(nodes'[m].kids) : j \in T => m = n /\ j = k
  <2>1. CASE m = new
    <3>1. 0 \notin T
      <4>1. 0 \notin Ids /\ new # 0
        BY <1>1 DEF TypeOK, Ids
      <4> QED BY <4>1, <1>2, <1>7
    <3> QED BY <2>1, <3>1, <1>1, <1>5
  <2>2. CASE m # new /\ m # parent
    BY <2>2, <1>1, <1>2, <1>3, <1>7
  <2>3. CASE m # new /\ m = parent /\ wild
    BY <2>3, <1>1, <1>2, <1>3, <1>7
  <2>4. CASE m # new /\ m = parent /\ ~wild
    BY <2>4, <1>1, <1>2, <1>4, <1>7
  <2> QED BY <2>1, <2>2, <2>3, <2>4
<1>10. text'[n] = text[n]
  BY <1>1
<1>11. ASSUME NEW m \in T, NEW f, f = nodes'[m].handler, f # 0 PROVE Before(f, i, n)'
  <2>1. m # new
    BY <1>1, <1>11
  <2>2. m \in S /\ m \in Ids
    BY <2>1, <1>2, <1>7
  <2>3. Before(f, i, n)
    BY <2>2, <1>1, <1>2, <1>11
  <2> QED BY <2>3, <1>10, BeforeStays
<1>12. ASSUME NEW m \in T, m = at', NEW f, f = begun' PROVE Before(f, i, n)'
  <2>1. parent \in S
    BY <1>0, <1>7, <1>12
  <2>2. Before(f, i, n)
    BY <2>1, <1>12
  <2> QED BY <2>2, <1>10, BeforeStays
<1>13. Encloses(T, n, k)'
  BY <1>7, <1>8, <1>9 DEF Encloses, Kids
<1>14. Screens(T, i, n, k)'
  BY <1>11, <1>12, <1>13 DEF Screens
<1> QED BY <1>14 DEF Screened

\* A split of a child, which may be n, the child k or in S.
LEMMA SplitScreens ==
  ASSUME TypeOK, IsTree, NEW S, NEW i, NEW n \in Ids, NEW k, Screens(S, i, n, k), at \in Ids,
         SplitFacts, UNCHANGED <<routes, begun, at>>,
         NEW m, m = IF n = Child THEN Len(nodes) + 1 ELSE n
  PROVE  Screened(i, m, k)'
<1>0. PICK new, kid : new = Len(nodes) + 1 /\ kid = Child
  OBVIOUS
<1>1. /\ kid \in Ids /\ new \notin Ids /\ Ids' = Ids \cup {new} /\ new > 1
      /\ ToSet(nodes'[kid].kids) = {new} /\ nodes'[kid].wild = 0 /\ nodes'[kid].handler = 0
      /\ ToSet(nodes'[new].kids) = Kids(kid) /\ nodes'[new].wild = nodes[kid].wild
      /\ nodes'[new].handler = nodes[kid].handler
      /\ \A j \in Ids : j # kid => nodes'[j] = nodes[j] /\ ToSet(nodes'[j].kids) = Kids(j) /\ text'[j] = text[j]
      /\ text'[new] = text[kid]
  <2>1. ToSet(<< new >>) = {new}
    BY DEF ToSet
  <2> QED BY <2>1, <1>0 DEF SplitFacts, Kids
<1>2. /\ S \subseteq Ids \ {1, n} /\ k \in S
      /\ \A j \in S : Kids(j) \subseteq S /\ (nodes[j].wild # 0 => nodes[j].wild \in S)
      /\ \A j \in Ids \ S : nodes[j].wild \notin S /\ \A o \in Kids(j) : o \in S => j = n /\ o = k
      /\ \A j \in S : /\ nodes[j].handler # 0 => Before(nodes[j].handler, i, n)
                      /\ j = at => Before(begun, i, n)
  BY DEF Screens, Encloses
<1>3. 0 \notin Ids /\ new # 0
  BY <1>1 DEF TypeOK, Ids
<1>4. m = (IF n = kid THEN new ELSE n) /\ text'[m] = text[n]
  BY <1>0, <1>1
<1>5. PICK T : T = IF kid \in S THEN S \cup {new} ELSE S
  OBVIOUS
<1>6. T \subseteq Ids' \ {1, m} /\ k \in T /\ S \subseteq T /\ T \subseteq S \cup {new} /\ (new \in T <=> kid \in S)
  BY <1>1, <1>2, <1>4, <1>5
<1>7. ASSUME NEW j \in T
      PROVE  ToSet(nodes'[j].kids) \subseteq T /\ (nodes'[j].wild # 0 => nodes'[j].wild \in T)
  <2>1. CASE j = new
    BY <2>1, <1>1, <1>2, <1>6
  <2>2. CASE j = kid
    BY <2>2, <1>1, <1>2, <1>6
  <2>3. CASE j # new /\ j # kid
    BY <2>3, <1>1, <1>2, <1>6
  <2> QED BY <2>1, <2>2, <2>3
<1>8. ASSUME NEW j \in Ids' \ T
      PROVE  nodes'[j].wild \notin T /\ \A o \in ToSet(nodes'[j].kids) : o \in T => j = m /\ o = k
  <2>0. \A o \in Ids : nodes[o].wild \in {0} \cup Ids /\ Kids(o) \subseteq Ids
    BY DEF IsTree
  <2>1. CASE j = new
    BY <2>0, <2>1, <1>1, <1>2, <1>4, <1>6
  <2>2. CASE j = kid
    BY <2>0, <2>2, <1>1, <1>2, <1>3, <1>4, <1>6
  <2>3. CASE j # new /\ j # kid
    BY <2>0, <2>3, <1>1, <1>2, <1>4, <1>6
  <2> QED BY <2>1, <2>2, <2>3
<1>9. ASSUME NEW j \in T, NEW f, f = nodes'[j].handler, f # 0 PROVE Before(f, i, m)'
  <2>1. PICK o \in S : nodes'[j].handler = nodes[o].handler
    <3>1. CASE j = new
      BY <3>1, <1>1, <1>6
    <3>2. CASE j # new
      <4>1. j # kid
        BY <1>1, <1>9
      <4> QED BY <3>2, <4>1, <1>1, <1>2, <1>6
    <3> QED BY <3>1, <3>2
  <2>2. Before(f, i, n)
    BY <2>1, <1>2, <1>9
  <2> QED BY <2>2, <1>4, BeforeStays
<1>10. ASSUME NEW j \in T, j = at', NEW f, f = begun' PROVE Before(f, i, m)'
  <2>1. j \in S /\ j = at
    BY <1>1, <1>6, <1>10
  <2>2. Before(f, i, n)
    BY <2>1, <1>2, <1>10
  <2> QED BY <2>2, <1>4, BeforeStays
<1>11. Encloses(T, m, k)'
  BY <1>6, <1>7, <1>8 DEF Encloses, Kids
<1>12. Screens(T, i, m, k)'
  BY <1>9, <1>10, <1>11 DEF Screens
<1> QED BY <1>12 DEF Screened

\* The tree stays, but for the handler where insert is.
LEMMA SameScreens ==
  ASSUME TypeOK, IsTree, NEW S, NEW i, NEW n \in Ids, NEW k, Screens(S, i, n, k), routes' = routes,
         Ids' = Ids, text' = text,
         \A m \in Ids : nodes'[m].kids = nodes[m].kids /\ nodes'[m].wild = nodes[m].wild,
         \A m \in Ids : nodes'[m].handler = nodes[m].handler \/ (m = at /\ nodes'[m].handler = begun),
         at' \in S => Before(begun', i, n)
  PROVE  Screened(i, n, k)'
<1>1. /\ S \subseteq Ids \ {1, n} /\ k \in S
      /\ \A j \in S : Kids(j) \subseteq S /\ (nodes[j].wild # 0 => nodes[j].wild \in S)
      /\ \A j \in Ids \ S : nodes[j].wild \notin S /\ \A o \in Kids(j) : o \in S => j = n /\ o = k
      /\ \A j \in S : /\ nodes[j].handler # 0 => Before(nodes[j].handler, i, n)
                      /\ j = at => Before(begun, i, n)
  BY DEF Screens, Encloses
<1>2. Encloses(S, n, k)'
  BY <1>1 DEF Encloses, Kids
<1>3. ASSUME NEW j \in S, NEW f, f = nodes'[j].handler, f # 0 PROVE Before(f, i, n)'
  <2>1. Before(f, i, n)
    BY <1>1, <1>3
  <2> QED BY <2>1, BeforeStays
<1>4. ASSUME NEW j \in S, j = at', NEW f, f = begun' PROVE Before(f, i, n)'
  <2>1. Before(f, i, n)
    BY <1>4
  <2> QED BY <2>1, BeforeStays
<1>5. Screens(S, i, n, k)'
  BY <1>2, <1>3, <1>4 DEF Screens
<1> QED BY <1>5 DEF Screened

-----------------------------------------------------------------------------
(* Where a route parts from those before it                                *)

\* Behind a placeholder of a pattern comes a slash, or it is the last.
LEMMA HoleIsWhole ==
  ASSUME NEW file \in ToSet(Files), NEW w \in Seq(Signs), NEW h \in Holes, NEW b \in Seq(Signs),
         Pattern(file) = w \o (<< h >> \o b)
  PROVE  b = <<>> \/ Head(b) = Slash
<1> DEFINE p == Pattern(file)
           d == Pieces(file)
           o == << h >>
<1>1. h \in Alphabet /\ Slash \in Signs /\ h # Slash /\ o \in Seq(Signs) /\ Len(o) = 1 /\ o[1] = h
      /\ o \in Seq(Alphabet)
  BY SlashIsNoHole DEF Alphabet, Signs
<1>2. HasPieces(Signs, d, p) /\ w # <<>>
  BY <1>1, LetteredPattern
<1>3. IsPieces(d)
  BY PlacePieces
<1>4. p = w \o (o \o b)
  OBVIOUS
<1> HIDE DEF o, d, p
<1>5. d \in Seq(Seq(Signs \ {Slash})) /\ Alphabet = Signs \ {Slash}
  BY <1>3 DEF IsPieces, Alphabet
<1>6. PICK P, A : Pieced(Signs, d, P, A) /\ A[0] = p
  BY <1>2 DEF HasPieces
<1>7. Head(w) = Slash
  <2> DEFINE x == o \o b
  <2>1. x \in Seq(Signs)
    BY <1>1
  <2>2. p = w \o x
    BY <1>4
  <2> HIDE DEF x
  <2>3. p # <<>> /\ Head(p) = Head(w)
    BY <2>1, <2>2, <1>2
  <2>4. 0 \in 0 .. Len(d)
    BY <1>5
  <2>5. A[0] = <<>> \/ Head(A[0]) = Slash
    BY <2>4, <1>1, <1>5, <1>6, BehindPiece
  <2> QED BY <2>3, <2>5, <1>6
<1>8. PICK a \in Seq(Signs), e \in Seq(Alphabet) : w = a \o (<<Slash>> \o e)
  <2>1. LastSlash(Signs, w)
    BY <1>2, <1>7, LastSlashCut
  <2> QED BY <2>1, <1>5 DEF LastSlash
<1>9. PICK b1 \in Seq(Alphabet), b2 \in Seq(Signs) : b = b1 \o b2 /\ (b2 = <<>> \/ Head(b2) = Slash)
  BY <1>5, SlashCut DEF SlashAt
<1> DEFINE s == <<Slash>>
           y == o \o b1
           z == e \o y
<1>10. s \in Seq(Signs) /\ y \in Seq(Alphabet) /\ z \in Seq(Alphabet) /\ e \in Seq(Signs) /\ b1 \in Seq(Signs)
       /\ y \in Seq(Signs) /\ z \in Seq(Signs) /\ Len(y) = 1 + Len(b1) /\ y[1] = h
       /\ Len(z) = Len(e) + Len(y) /\ z[Len(e) + 1] = h
  <2>1. s \in Seq(Signs) /\ e \in Seq(Signs) /\ b1 \in Seq(Signs)
    BY <1>1 DEF Alphabet
  <2>2. Joins(Alphabet, y, o, b1)
    BY <1>1, ConcatItems
  <2> HIDE DEF y
  <2>3. y \in Seq(Alphabet) /\ Len(y) = 1 + Len(b1) /\ y[1] = h
    <3>1. 1 \in 1 .. Len(o)
      BY <1>1
    <3> QED BY <2>2, <3>1, <1>1 DEF Joins
  <2>4. Joins(Alphabet, z, e, y)
    BY <2>3, ConcatItems
  <2> HIDE DEF z
  <2>5. z \in Seq(Alphabet) /\ Len(z) = Len(e) + Len(y) /\ z[Len(e) + 1] = h
    <3>1. 1 \in 1 .. Len(y)
      BY <2>3
    <3> QED BY <2>3, <2>4, <3>1 DEF Joins
  <2>6. y \in Seq(Signs) /\ z \in Seq(Signs)
    BY <2>3, <2>5 DEF Alphabet
  <2> QED BY <2>1, <2>3, <2>5, <2>6
<1>11. p = a \o (s \o (z \o b2))
  <2>0. w = a \o (s \o e)
    BY <1>8
  <2> HIDE DEF s
  <2>1. o \o (b1 \o b2) = y \o b2
    <3>1. o \in Seq(Signs) /\ b1 \in Seq(Signs) /\ b2 \in Seq(Signs)
      BY <1>1, <1>10
    <3>2. o \o (b1 \o b2) = (o \o b1) \o b2
      BY ONLY <3>1, ConcatAssoc
    <3> QED BY <3>2 DEF y
  <2> DEFINE yb == y \o b2
             se == s \o e
  <2>2. yb \in Seq(Signs) /\ se \in Seq(Signs)
    BY <1>10
  <2>3. p = (a \o se) \o yb
    BY <2>0, <2>1, <1>4, <1>9
  <2> HIDE DEF y
  <2>4. e \o yb = z \o b2
    <3>1. e \in Seq(Signs) /\ y \in Seq(Signs) /\ b2 \in Seq(Signs)
      BY <1>10
    <3>2. e \o (y \o b2) = (e \o y) \o b2
      BY ONLY <3>1, ConcatAssoc
    <3> QED BY <3>2 DEF z, yb
  <2> HIDE DEF yb, z
  <2>5. se \o yb = s \o (z \o b2)
    <3>1. s \in Seq(Signs) /\ e \in Seq(Signs) /\ yb \in Seq(Signs)
      BY <2>2, <1>10
    <3>2. Assoc(Signs, s, e, yb)
      BY ONLY <3>1, Associates
    <3> QED BY <3>2, <2>4 DEF Assoc
  <2> HIDE DEF se
  <2>6. (a \o se) \o yb = a \o (se \o yb)
    <3>1. a \in Seq(Signs) /\ se \in Seq(Signs) /\ yb \in Seq(Signs)
      BY <2>2
    <3>2. Assoc(Signs, a, se, yb)
      BY ONLY <3>1, Associates
    <3> QED BY <3>2 DEF Assoc
  <2> QED BY <2>3, <2>5, <2>6
<1> HIDE DEF s, y, z
<1>12. IsPiece(d, z)
  <2>1. A[0] = a \o (<<Slash>> \o (z \o b2))
    BY <1>6, <1>11 DEF s
  <2> QED BY <2>1, <1>1, <1>5, <1>6, <1>9, <1>10, PieceAt
<1>13. IsPlain(z) \/ IsSign(z)
  BY <1>12, <1>3 DEF IsPiece, IsPieces
<1>14. ~IsPlain(z)
  <2> SUFFICES ASSUME z \in Seq(Letter) PROVE FALSE
    BY DEF IsPlain
  <2>1. Len(e) + 1 \in 1 .. Len(z)
    BY <1>10
  <2>2. h \in Letter
    BY <2>1, <1>10
  <2> QED BY <2>2, SlashIsNoHole DEF Letter
<1>15. Len(z) = 1
  BY <1>13, <1>14 DEF IsSign
<1>16. b1 = <<>>
  BY <1>10, <1>15
<1>17. b = b2
  BY <1>9, <1>16
<1> QED BY <1>9, <1>17

\* In front of one letter, two patterns with the same letters are the same.
LEMMA SameFront ==
  ASSUME NEW i \in DOMAIN routes, NEW c \in DOMAIN routes, TypeOK, Apart(i),
         NEW q, NEW r, NEW x, NEW b, NEW v,
         AtLetter(Pattern(routes[i]), q, x, b), AtLetter(Pattern(routes[c]), r, x, v), Letters(q) = Letters(r)
  PROVE  q = r
<1> DEFINE s == Pattern(routes[i])
           t == Pattern(routes[c])
           d == Pieces(routes[i])
           d2 == Pieces(routes[c])
<1>1. routes[i] \in ToSet(Files) /\ routes[c] \in ToSet(Files)
  BY RouteFile
<1>2. HasPieces(Signs, d, s) /\ HasPieces(Signs, d2, t)
  <2>1. q \in Seq(Signs) /\ r \in Seq(Signs) /\ x \in Alphabet /\ b \in Seq(Signs) /\ v \in Seq(Signs)
        /\ s = q \o (<< x >> \o b) /\ t = r \o (<< x >> \o v)
    BY DEF AtLetter
  <2> QED BY <1>1, <2>1, LetteredPattern
<1>3. IsPieces(d) /\ IsPieces(d2)
  BY <1>1, PlacePieces
<1>4. Discernible(d, d2) /\ Discernible(d2, d)
  BY DEF Apart
<1> HIDE DEF s, t, d, d2
<1>5. SlashTogether(s, t) /\ SlashTogether(t, s)
  BY <1>2, <1>3, <1>4, NotBySlash
<1>6. AtLetter(s, q, x, b) /\ AtLetter(t, r, x, v) /\ Letters(q) = Letters(r)
  BY DEF s, t
<1> QED BY ONLY <1>5, <1>6, SamePlace

\* A sequence with one more item.
Ends(d, e, z) == d = e \o << z >>

LEMMA SameEnds ==
  ASSUME NEW E, NEW s \in Seq(E), NEW t \in Seq(E), NEW x \in E, NEW y \in E, NEW u, Ends(u, s, x), Ends(u, t, y)
  PROVE  s = t /\ x = y
<1> DEFINE a == s \o << x >>
           b == t \o << y >>
<1>1. /\ Len(a) = Len(s) + 1 /\ a[Len(s) + 1] = x /\ (\A k \in 1 .. Len(s) : a[k] = s[k])
      /\ Len(b) = Len(t) + 1 /\ b[Len(t) + 1] = y /\ (\A k \in 1 .. Len(t) : b[k] = t[k])
      /\ Len(s) \in Nat /\ Len(t) \in Nat
  OBVIOUS
<1>2. a = b
  BY DEF Ends
<1> HIDE DEF a, b
<1>3. Len(s) = Len(t) /\ x = y /\ \A k \in 1 .. Len(s) : s[k] = t[k]
  BY <1>1, <1>2
<1> QED BY <1>3

\* A route has the sign c behind the text g, or parts there from those that do.
HasSign(g, c, f) == IsPrefix(g \o << c >>, Pattern(routes[f]))
PartsAt(g, c, j) == IsPrefix(g, Pattern(routes[j])) /\ ~HasSign(g, c, j)

\* A text of a pattern in front of a placeholder, where a route parts from it.
LEMMA PartsDouble ==
  ASSUME NEW f, NEW i, NEW g \in Seq(Signs), NEW m \in Seq(Characters), NEW a \in Seq(Signs),
         Pattern(routes[i]) = g \o (m \o a), a # <<>>, Head(a) \in Holes, Trim(m) # <<>>,
         Len(g) >= 2, g[Len(g)] \in Characters, g[Len(g) - 1] \in Characters,
         HasSign(g, Head(m), f), NEW j \in 1 .. i - 1, PartsAt(g, Head(m), j)
  PROVE  Doubled(f, i)
<1> DEFINE p == Pattern(routes[i])
           n == Len(g)
           l == Len(m)
           ma == m \o a
           hd == << Head(m) >>
           gh == g \o hd
<1>1. m # <<>>
  <2>1. Trim(<<>>) = <<>>
    BY DEF Trim
  <2> QED BY <2>1
<1>2. m \in Seq(Signs) /\ n \in Nat /\ n >= 2 /\ n = Len(g) /\ l = Len(m) /\ l \in Nat /\ l > 0 /\ \A y \in 1 .. l : m[y] \in Characters
      /\ hd \in Seq(Signs) /\ Len(hd) = 1 /\ hd[1] = m[1]
  BY <1>1 DEF Signs
<1>3. ma \in Seq(Signs) /\ Joins(Signs, ma, m, a) /\ Len(a) > 0 /\ a[1] \in Holes /\ Len(a) \in Nat
  BY <1>2, ConcatItems DEF Joins
<1>4. p = g \o ma
  OBVIOUS
<1> HIDE DEF ma, p, hd
<1>5. Joins(Signs, p, g, ma)
  BY <1>3, <1>4, ConcatItems
<1>6. p \in Seq(Signs) /\ Len(p) = n + l + Len(a) /\ (\A y \in 1 .. n : p[y] = g[y])
      /\ (\A y \in 1 .. l : p[n + y] = m[y]) /\ p[n + l + 1] = a[1]
  <2>1. Len(ma) = l + Len(a) /\ (\A y \in 1 .. l : ma[y] = m[y]) /\ ma[l + 1] = a[1]
    <3>1. 1 \in 1 .. Len(a)
      BY <1>3
    <3> QED BY <3>1, <1>3 DEF Joins
  <2>2. p \in Seq(Signs) /\ Len(p) = n + Len(ma) /\ (\A y \in 1 .. n : p[y] = g[y])
        /\ \A y \in 1 .. Len(ma) : p[n + y] = ma[y]
    BY <1>5 DEF Joins
  <2> HIDE DEF n, l
  <2>3. Len(p) = n + l + Len(a)
    BY <2>1, <2>2, <1>2, <1>3
  <2>4. \A y \in 1 .. l : p[n + y] = m[y]
    BY <2>1, <2>2, <1>2, <1>3
  <2>5. p[n + (l + 1)] = a[1] /\ n + (l + 1) = n + l + 1
    BY <2>1, <2>2, <1>2, <1>3
  <2> QED BY <2>2, <2>3, <2>4, <2>5
<1> PICK h : h = n + l + 1
  OBVIOUS
<1>7. h \in DOMAIN p /\ p[h] \in Holes /\ n \in 2 .. h - 2
  <2> HIDE DEF n, l
  <2> QED BY <1>2, <1>3, <1>6
<1>8. SubSeq(p, 1, n) = g
  BY <1>3, <1>4, FrontOf
<1>9. SubSeq(p, 1, n + 1) = gh
  <2> DEFINE ss == SubSeq(p, 1, n + 1)
  <2>1. ss \in Seq(Signs) /\ Len(ss) = n + 1 /\ \A y \in 1 .. n + 1 : ss[y] = p[y]
    <3>1. n + 1 \in 0 .. Len(p)
      <4> HIDE DEF n, l
      <4> QED BY <1>2, <1>3, <1>6
    <3> HIDE DEF n
    <3> QED BY <3>1, <1>6
  <2>2. Joins(Signs, gh, g, hd)
    <3>1. hd \in Seq(Signs)
      BY <1>2
    <3> QED BY <3>1, ConcatItems
  <2> HIDE DEF ss, gh
  <2>3. Len(gh) = n + 1 /\ gh \in Seq(Signs) /\ (\A y \in 1 .. n : gh[y] = g[y]) /\ gh[n + 1] = m[1]
    <3> HIDE DEF n
    <3>0. n = Len(g) /\ n \in Nat /\ Len(hd) = 1 /\ 1 \in 1 .. Len(hd) /\ hd[1] = m[1]
      BY <1>2
    <3>1. /\ gh \in Seq(Signs) /\ Len(gh) = Len(g) + Len(hd) /\ \A y \in 1 .. Len(g) : gh[y] = g[y]
          /\ \A y \in 1 .. Len(hd) : gh[Len(g) + y] = hd[y]
      BY ONLY <2>2 DEF Joins
    <3>2. gh[Len(g) + 1] = hd[1]
      BY ONLY <3>0, <3>1
    <3> QED BY ONLY <3>0, <3>1, <3>2
  <2>4. p[n + 1] = m[1]
    <3>1. 1 \in 1 .. l
      BY <1>2
    <3> QED BY <3>1, <1>6
  <2> HIDE DEF n
  <2>5. \A y \in 1 .. n + 1 : ss[y] = gh[y]
    <3>0. n \in Nat
      BY <1>2
    <3> SUFFICES ASSUME NEW y \in 1 .. n + 1 PROVE ss[y] = gh[y]
      OBVIOUS
    <3>1. CASE y = n + 1
      BY <3>1, <2>1, <2>3, <2>4
    <3>2. CASE y # n + 1
      <4>1. y \in 1 .. n
        BY <3>0, <3>2
      <4> QED BY <4>1, <2>1, <2>3, <1>6
    <3> QED BY <3>1, <3>2
  <2> QED BY <2>1, <2>3, <2>5 DEF ss
<1>10. SubSeq(p, n + 1, h - 1) = m
  <2> DEFINE ss == SubSeq(p, n + 1, h - 1)
  <2>1. ss \in Seq(Signs) /\ Len(ss) = l /\ \A y \in 1 .. l : ss[y] = p[n + y]
    <3> HIDE DEF n, l
    <3>1. h - 1 = n + l /\ n + 1 \in Nat /\ h - 1 \in Nat /\ n + 1 >= 1 /\ h - 1 <= Len(p)
      BY <1>2, <1>3, <1>6
    <3> QED BY <3>1, <1>2, <1>6
  <2> HIDE DEF ss
  <2>2. \A y \in 1 .. l : ss[y] = m[y]
    BY <2>1, <1>6
  <2>3. m \in Seq(Signs) /\ Len(m) = l
    BY <1>2
  <2>4. ss = m
    BY ONLY <2>1, <2>2, <2>3
  <2> QED BY <2>4 DEF ss
<1>11. \A y \in n - 1 .. h - 1 : p[y] \notin Holes
  <2> SUFFICES ASSUME NEW y \in n - 1 .. h - 1 PROVE p[y] \in Characters
    BY SlashIsNoHole
  <2>1. CASE y <= n
    <3>1. y = n \/ y = n - 1
      BY <2>1, <1>2
    <3>2. p[n] \in Characters /\ p[n - 1] \in Characters
      <4>1. n \in 1 .. n /\ n - 1 \in 1 .. n
        BY <1>2
      <4>2. p[n] = g[n] /\ p[n - 1] = g[n - 1] /\ n = Len(g)
        BY <4>1, <1>6
      <4>3. g[Len(g)] \in Characters /\ g[Len(g) - 1] \in Characters
        OBVIOUS
      <4> QED BY ONLY <4>2, <4>3
    <3> QED BY ONLY <3>1, <3>2
  <2>2. CASE y > n
    <3> HIDE DEF n, l
    <3>1. y - n \in 1 .. l /\ n + (y - n) = y
      BY <2>2, <1>2
    <3> QED BY <3>1, <1>2, <1>6
  <2> QED BY <2>1, <2>2, <1>2
<1>12. PICK k : k = n
  OBVIOUS
<1>13. /\ k \in 2 .. h - 2 /\ (\A y \in k - 1 .. h - 1 : p[y] \notin Holes)
       /\ Trim(SubSeq(p, k + 1, h - 1)) # <<>> /\ IsPrefix(SubSeq(p, 1, k + 1), Pattern(routes[f]))
       /\ IsPrefix(SubSeq(p, 1, k), Pattern(routes[j])) /\ ~IsPrefix(SubSeq(p, 1, k + 1), Pattern(routes[j]))
  BY <1>7, <1>8, <1>9, <1>10, <1>11, <1>12 DEF hd, HasSign, PartsAt
<1> HIDE DEF n, l
<1> QED BY <1>7, <1>13 DEF Doubled, p

\* In front of a text of the root or of a placeholder, a pattern has a slash.
LEMMA StemSlash ==
  ASSUME TypeOK, IsTree, TextsSpelled, NEW n \in Ids, IsStem(n), NEW c \in DOMAIN routes,
         NEW q \in Seq(Signs), NEW x \in Letter, NEW b \in Seq(Signs),
         Pattern(routes[c]) = q \o (<< x >> \o b), Letters(q) = text[n]
  PROVE  q # <<>> /\ q[Len(q)] = Slash
<1>1. x \in Alphabet /\ routes[c] \in ToSet(Files)
  BY Letterwise, RouteFile
<1>2. q # <<>>
  BY <1>1, LetteredPattern
<1> DEFINE r == Front(q)
           y == q[Len(q)]
           o == << y >>
           xb == << x >> \o b
<1>3. r \in Seq(Signs) /\ y \in Signs /\ q = r \o o /\ o \in Seq(Signs)
  BY <1>2 DEF Front
<1>4. xb \in Seq(Signs) /\ xb # <<>> /\ Head(xb) # Slash /\ Pattern(routes[c]) = q \o xb
  BY <1>1 DEF Alphabet
<1> HIDE DEF r, o, xb, y
<1> SUFFICES ASSUME y # Slash PROVE FALSE
  BY <1>2 DEF y
<1>5. Letters(q) = Append(Letters(r), y) /\ Letters(r) \in Seq(Alphabet)
  <2>1. Letters(q) = Letters(r) \o Letters(o)
    BY <1>3, LettersConcat
  <2>2. Letters(o) = o
    BY LettersFew DEF o
  <2>3. Letters(r) \in Seq(Alphabet)
    BY <1>3, LettersOfText
  <2>4. Letters(r) \o << y >> = Append(Letters(r), y)
    BY <2>3
  <2> QED BY <2>1, <2>2, <2>3, <2>4 DEF o
<1>6. n # 1
  <2>1. Append(Letters(r), y) # <<>>
    <3> DEFINE s == Letters(r)
    <3>1. s \in Seq(Alphabet)
      BY <1>5
    <3> HIDE DEF s
    <3>2. Len(Append(s, y)) = Len(s) + 1 /\ Len(s) \in Nat
      BY <3>1
    <3>3. Len(<<>>) = 0
      OBVIOUS
    <3>4. Append(s, y) # <<>>
      BY ONLY <3>2, <3>3
    <3> QED BY <3>4 DEF s
  <2> QED BY <2>1, <1>5 DEF TextsSpelled
<1>7. PICK m \in Ids : nodes[m].wild = n
  BY <1>6 DEF IsStem
<1>8. text[n] = Append(text[m], nodes[n].hole) /\ nodes[n].hole \in Holes /\ text[m] \in Seq(Alphabet)
  <2>1. n # 0
    BY DEF TypeOK, Ids
  <2>2. text[m] \in Seq(Alphabet)
    BY <1>7 DEF TypeOK, Ids, Alphabet
  <2> QED BY <2>1, <2>2, <1>7 DEF TextsSpelled, IsTree
<1>9. y \in Holes
  <2> DEFINE s == Letters(r)
             t == text[m]
             z == nodes[n].hole
  <2>1. Append(s, y) = Append(t, z) /\ s \in Seq(Alphabet) /\ t \in Seq(Alphabet)
    BY <1>5, <1>8
  <2> HIDE DEF s, t, z
  <2>2. Len(s) = Len(t) /\ Append(s, y)[Len(s) + 1] = y /\ Append(t, z)[Len(t) + 1] = z
    <3>1. Len(Append(s, y)) = Len(s) + 1 /\ Len(Append(t, z)) = Len(t) + 1 /\ Len(s) \in Nat /\ Len(t) \in Nat
      BY <2>1
    <3> QED BY <3>1, <2>1
  <2> QED BY <2>1, <2>2, <1>8 DEF z
<1>10. Pattern(routes[c]) = r \o (<< y >> \o xb)
  <2>1. r \in Seq(Signs) /\ o \in Seq(Signs) /\ xb \in Seq(Signs)
    BY <1>3, <1>4
  <2>2. Assoc(Signs, r, o, xb)
    BY ONLY <2>1, Associates
  <2> QED BY <2>2, <1>3, <1>4 DEF Assoc, o
<1> QED BY <1>1, <1>3, <1>4, <1>9, <1>10, HoleIsWhole

\* What comes behind a text.
LEMMA GoesHead ==
  ASSUME NEW j, NEW g \in Seq(Signs), NEW w \in Seq(Signs), NEW c \in Signs, Pattern(routes[j]) = g \o w
  PROVE  HasSign(g, c, j) <=> w # <<>> /\ Head(w) = c
<1> DEFINE o == << c >>
           gc == g \o o
           p == Pattern(routes[j])
<1>1. o \in Seq(Signs) /\ gc \in Seq(Signs) /\ p \in Seq(Signs) /\ p = g \o w
  OBVIOUS
<1> HIDE DEF p
<1>2. ASSUME IsPrefix(gc, p) PROVE w # <<>> /\ Head(w) = c
  <2> DEFINE r == Drop(p, Len(gc))
             t == o \o r
  <2>1. p = gc \o r /\ r \in Seq(Signs)
    BY <1>1, <1>2, PrefixFacts
  <2> HIDE DEF r, gc
  <2>2. t \in Seq(Signs) /\ t # <<>> /\ Head(t) = c
    BY <2>1, <1>1
  <2>3. g \o w = g \o t
    <3>1. g \in Seq(Signs) /\ o \in Seq(Signs) /\ r \in Seq(Signs)
      BY <2>1, <1>1
    <3>2. Assoc(Signs, g, o, r)
      BY ONLY <3>1, Associates
    <3> QED BY <3>2, <2>1, <1>1 DEF Assoc, gc
  <2> HIDE DEF t
  <2>4. w = t
    BY <2>2, <2>3, CancelLeft
  <2> QED BY <2>2, <2>4
<1>3. ASSUME w # <<>>, Head(w) = c PROVE IsPrefix(gc, p)
  <2> DEFINE t == Tail(w)
  <2>1. t \in Seq(Signs) /\ w = o \o t
    BY <1>3
  <2> HIDE DEF t, o
  <2>2. Assoc(Signs, g, o, t)
    BY <1>1, <2>1, Associates
  <2>3. p = gc \o t
    BY <2>1, <2>2, <1>1 DEF Assoc
  <2> HIDE DEF gc
  <2> QED BY <2>1, <2>3, <1>1, PrefixOf
<1> QED BY <1>2, <1>3 DEF HasSign, p

\* Of two patterns that part behind a text one does not go on with its next sign.
LEMMA OneParts ==
  ASSUME NEW i, NEW j, NEW g \in Seq(Signs), NEW u \in Seq(Signs), NEW v \in Seq(Signs), NEW c \in Characters,
         Pattern(routes[i]) = g \o u, Pattern(routes[j]) = g \o v,
         u = <<>> \/ Head(u) \in Holes \/ (v # <<>> /\ Head(u) # Head(v))
  PROVE  PartsAt(g, c, i) \/ PartsAt(g, c, j)
<1>1. c \in Signs /\ c \notin Holes
  BY SlashIsNoHole DEF Signs
<1>2. IsPrefix(g, Pattern(routes[i])) /\ IsPrefix(g, Pattern(routes[j]))
  BY PrefixOf
<1>3. (HasSign(g, c, i) <=> u # <<>> /\ Head(u) = c) /\ (HasSign(g, c, j) <=> v # <<>> /\ Head(v) = c)
  BY <1>1, GoesHead
<1> QED BY <1>1, <1>2, <1>3 DEF PartsAt

\* What ends in a letter, and its front.
Lettered(g) == \E r \in Seq(Signs), y \in Letter : g = r \o << y >> /\ Letters(g) = Letters(r) \o << y >>

\* A route that begins with g.
OpensAs(i, g) == \E t \in Seq(Signs) : Pattern(routes[i]) = g \o t

\* Two patterns that have the letters of g up to a letter have g.
LEMMA SameLettered ==
  ASSUME TypeOK, NEW i \in DOMAIN routes, NEW c \in DOMAIN routes, Apart(i), NEW g \in Seq(Signs), Lettered(g), OpensAs(i, g),
         NEW e, NEW z, NEW w, AtLetter(Pattern(routes[c]), e, z, w), NEW d, Ends(d, e, z), Letters(d) = Letters(g)
  PROVE  d = g
<1> DEFINE o == << z >>
<1>1. o \in Seq(Signs) /\ Letters(o) = o /\ z \in Alphabet /\ e \in Seq(Signs)
  BY LettersFew DEF AtLetter, Alphabet
<1>2. PICK r \in Seq(Signs), y \in Letter : g = r \o << y >> /\ Letters(g) = Letters(r) \o << y >>
  BY DEF Lettered
<1>3. PICK t \in Seq(Signs) : Pattern(routes[i]) = g \o t
  BY DEF OpensAs
<1> DEFINE x == << y >>
<1>4. x \in Seq(Signs) /\ y \in Alphabet
  BY Letterwise DEF Alphabet
<1>5. Letters(e) = Letters(r) /\ z = y
  <2> DEFINE a == Letters(e)
             b == Letters(r)
  <2>1. Letters(e \o o) = a \o Letters(o)
    BY <1>1, LettersConcat
  <2>2. Ends(Letters(g), a, z) /\ Ends(Letters(g), b, y)
    BY <2>1, <1>1, <1>2 DEF Ends
  <2>3. a \in Seq(Alphabet) /\ b \in Seq(Alphabet)
    BY <1>1, LettersOfText
  <2> HIDE DEF a, b
  <2>4. a = b /\ z = y
    <3>1. z \in Alphabet /\ y \in Alphabet
      BY <1>1, <1>4
    <3> QED BY ONLY <2>2, <2>3, <3>1, SameEnds
  <2> QED BY <2>4 DEF a, b
<1> HIDE DEF o, x
<1>6. Pattern(routes[i]) = r \o (x \o t)
  <2>1. Assoc(Signs, r, x, t)
    BY <1>4, Associates
  <2> QED BY <2>1, <1>2, <1>3 DEF Assoc, x
<1>7. AtLetter(Pattern(routes[i]), r, y, t) /\ AtLetter(Pattern(routes[c]), e, y, w)
  BY <1>4, <1>5, <1>6 DEF AtLetter, x
<1>8. r = e
  BY <1>5, <1>7, SameFront
<1> QED BY <1>2, <1>5, <1>8 DEF Ends

\* The same, when the text may end in a slash more.
MayEnd(d, g, z) == d = IF z = Slash THEN g \o <<Slash>> ELSE g

LEMMA SameText ==
  ASSUME TypeOK, NEW i \in DOMAIN routes, NEW c \in DOMAIN routes, Apart(i), NEW g \in Seq(Signs), Lettered(g), OpensAs(i, g),
         NEW d \in Seq(Signs), NEW z \in Signs, EndsIn(d, z), NEW w \in Seq(Signs),
         Pattern(routes[c]) = d \o w, Letters(d) = Letters(g)
  PROVE  MayEnd(d, g, z)
<1>1. PICK e \in Seq(Signs) : d = e \o << z >>
  BY DEF EndsIn
<1>2. CASE z # Slash
  <2> DEFINE o == << z >>
  <2>0. o \in Seq(Signs)
    OBVIOUS
  <2> HIDE DEF o
  <2>1. Assoc(Signs, e, o, w)
    BY <2>0, Associates
  <2>2. AtLetter(Pattern(routes[c]), e, z, w)
    BY <2>1, <1>1, <1>2 DEF AtLetter, Assoc, o, Alphabet
  <2>3. d = g
    <3>1. Ends(d, e, z)
      BY <1>1 DEF Ends
    <3> QED BY <2>2, <3>1, SameLettered
  <2> QED BY <2>3, <1>2 DEF MayEnd
<1>3. CASE z = Slash
  <2> DEFINE o == <<Slash>>
             ow == o \o w
  <2>1. o \in Seq(Signs) /\ Letters(o) = <<>> /\ ow \in Seq(Signs) /\ ow # <<>> /\ Head(ow) = Slash
    BY LettersFew, SlashIsNoHole DEF Signs
  <2>2. Letters(e) = Letters(g)
    <3>1. Letters(d) = Letters(e) \o Letters(o)
      BY <1>1, <1>3, <2>1, LettersConcat
    <3>2. Letters(e) \in Seq(Alphabet)
      BY LettersOfText
    <3>3. Letters(e) \o <<>> = Letters(e)
      BY <3>2
    <3> QED BY <3>1, <3>3, <2>1
  <2>3. Letters(g) # <<>>
    <3>1. PICK r \in Seq(Signs), y \in Letter : Letters(g) = Letters(r) \o << y >>
      BY DEF Lettered
    <3> DEFINE s == Letters(r)
    <3>2. s \in Seq(Alphabet)
      BY LettersOfText
    <3> HIDE DEF s
    <3>3. s \o << y >> # <<>>
      BY <3>2
    <3> QED BY <3>1, <3>3 DEF s
  <2>4. e # <<>>
    BY <2>2, <2>3, LettersFew
  <2> DEFINE f == Front(e)
             y == e[Len(e)]
             x == << y >>
  <2>5. f \in Seq(Signs) /\ y \in Signs /\ e = f \o x /\ x \in Seq(Signs)
    BY <2>4 DEF Front
  <2> HIDE DEF o, ow, f, y
  <2>6. Pattern(routes[c]) = e \o ow
    <3>1. Assoc(Signs, e, o, w)
      BY <2>1, Associates
    <3> QED BY <3>1, <1>1, <1>3 DEF Assoc, o, ow
  <2>7. y # Slash
    <3> SUFFICES ASSUME y = Slash PROVE FALSE
      OBVIOUS
    <3>1. Pattern(routes[c]) = f \o (<<Slash>> \o ow)
      <4>1. Assoc(Signs, f, x, ow)
        BY <2>1, <2>5, Associates
      <4> QED BY <4>1, <2>5, <2>6 DEF Assoc
    <3>2. Pattern(routes[c]) # <<Slash>>
      <4> DEFINE p == Pattern(routes[c])
      <4>1. Len(e \o ow) = Len(e) + Len(ow) /\ Len(e) > 0 /\ Len(ow) > 0 /\ Len(e) \in Nat /\ Len(ow) \in Nat
        BY <2>1, <2>4
      <4>2. p = e \o ow
        BY <2>6
      <4> HIDE DEF p
      <4>3. Len(<<Slash>>) = 1
        OBVIOUS
      <4>4. Len(p) = Len(e) + Len(ow)
        BY <4>1, <4>2
      <4>5. Len(p) # 1
        <5> DEFINE j == Len(e)
                   k == Len(ow)
        <5>1. Len(p) = j + k /\ j > 0 /\ k > 0 /\ j \in Nat /\ k \in Nat
          BY <4>1, <4>4
        <5> HIDE DEF j, k
        <5> QED BY ONLY <5>1
      <4> QED BY <4>3, <4>5 DEF p
    <3> QED BY <3>1, <3>2, <2>1, <2>5, RouteFile, NoSlashPair
  <2>8. e = g
    <3> HIDE DEF x
    <3>0. Assoc(Signs, f, x, ow)
      BY <2>1, <2>5, Associates
    <3>1. AtLetter(Pattern(routes[c]), f, y, ow)
      BY <3>0, <2>1, <2>5, <2>6, <2>7 DEF AtLetter, Assoc, x, Alphabet
    <3>2. Ends(e, f, y)
      BY <2>5 DEF x, Ends
    <3> QED BY <3>1, <3>2, <2>2, SameLettered
  <2> QED BY <2>8, <1>1, <1>3 DEF MayEnd
<1> QED BY <1>2, <1>3 DEF MayEnd

\* The routes that have the letter of i behind the text of n are doubled by i.
Parted(i, n) == \E q, c, b : /\ AtLetter(Pattern(routes[i]), q, c, b) /\ Letters(q) = text[n]
                             /\ \A f \in DOMAIN routes : HasSign(q, c, f) => Doubled(f, i)

\* One that insert enters below a child, where two others part, is such a route.
LEMMA ForkParts ==
  ASSUME TypeOK, NEW n, Fork(n), begun \in DOMAIN routes, Apart(begun),
         NEW g \in Seq(Signs), Lettered(g), Len(g) >= 2, g[Len(g) - 1] \in Characters, Letters(g) = text[n],
         NEW q \in Seq(Signs), q = g \/ Ends(q, g, Slash),
         NEW m \in Seq(Characters), m # <<>>, Head(m) # Slash, NEW a \in Seq(Signs), a # <<>>, Head(a) \in Holes,
         Pattern(routes[begun]) = q \o (m \o a)
  PROVE  Parted(begun, n)
<1> DEFINE c == Head(m)
           o == <<Slash>>
           ma == m \o a
           p == Pattern(routes[begun])
<1>00. Trim(m) # <<>> /\ g[Len(g)] \in Characters /\ Len(g) \in Nat
  <2>1. Trim(m) = m
    BY DEF Trim
  <2>2. PICK r \in Seq(Signs), y \in Letter : g = r \o << y >>
    BY DEF Lettered
  <2>3. Len(g) = Len(r) + 1 /\ g[Len(r) + 1] = y /\ Len(r) \in Nat
    BY <2>2 DEF Letter, Signs
  <2> QED BY <2>1, <2>2, <2>3 DEF Letter
<1>1. /\ c \in Characters /\ c \in Alphabet /\ c \in Signs /\ m \in Seq(Signs) /\ ma \in Seq(Signs) /\ ma # <<>>
      /\ Head(ma) = c /\ o \in Seq(Signs) /\ Slash \in Signs /\ Slash \in Characters
  BY SlashIsNoHole DEF Alphabet, Signs
<1>2. p = q \o ma
  OBVIOUS
<1> HIDE DEF ma, o, p, c
<1>3. Ends(q, g, Slash) => q = g \o o /\ p = g \o (o \o ma)
  <2>1. Assoc(Signs, g, o, ma)
    BY <1>1, Associates
  <2> QED BY <2>1, <1>2 DEF Ends, o, Assoc
<1>4. OpensAs(begun, g)
  <2>1. o \o ma \in Seq(Signs)
    BY <1>1
  <2> QED BY <2>1, <1>1, <1>2, <1>3 DEF OpensAs, p
<1>5. PICK i, j, z, d, e, u, v :
        /\ z \in Signs /\ EndsIn(d, z) /\ EndsIn(e, z)
        /\ GoesBy(i, n, d, u) /\ GoesBy(j, n, e, v)
        /\ u = <<>> \/ Head(u) \in Holes \/ (v # <<>> /\ Head(u) # Head(v))
  BY DEF Fork
<1>6. /\ i \in 1 .. begun /\ j \in 1 .. begun /\ i \in DOMAIN routes /\ j \in DOMAIN routes
      /\ d \in Seq(Signs) /\ e \in Seq(Signs) /\ u \in Seq(Signs) /\ v \in Seq(Signs)
      /\ Pattern(routes[i]) = d \o u /\ Pattern(routes[j]) = e \o v /\ Letters(d) = Letters(g) /\ Letters(e) = Letters(g)
  <2>1. 1 .. begun \subseteq DOMAIN routes
    BY DEF TypeOK
  <2> QED BY <2>1, <1>5 DEF GoesBy
<1> DEFINE h == IF z = Slash THEN g \o o ELSE g
<1>7. d = h /\ e = h
  <2>1. MayEnd(d, g, z)
    BY <1>4, <1>5, <1>6, SameText DEF p
  <2>2. MayEnd(e, g, z)
    BY <1>4, <1>5, <1>6, SameText DEF p
  <2> QED BY <2>1, <2>2 DEF o, MayEnd
<1>8. \E b : AtLetter(p, q, c, b)
  <2> DEFINE b == Tail(ma)
  <2>1. b \in Seq(Signs) /\ ma = << c >> \o b
    BY <1>1
  <2> HIDE DEF b
  <2> QED BY <2>1, <1>1, <1>2 DEF AtLetter
<1>09. Letters(q) = text[n]
  <2> SUFFICES ASSUME q = g \o o PROVE Letters(q) = Letters(g)
    BY <1>3
  <2>1. Letters(q) = Letters(g) \o Letters(o) /\ Letters(g) \in Seq(Alphabet)
    BY <1>1, LettersConcat, LettersOfText
  <2>2. Letters(o) = <<>>
    BY LettersFew DEF o
  <2>3. Letters(g) \o <<>> = Letters(g)
    BY <2>1
  <2> QED BY <2>1, <2>2, <2>3
<1> SUFFICES ASSUME NEW f \in DOMAIN routes, HasSign(q, c, f) PROVE Doubled(f, begun)
  <2> QED BY <1>8, <1>09 DEF Parted, p
<1>9. begun \in Nat /\ 1 .. begun = (1 .. begun - 1) \cup {begun}
  BY DEF TypeOK
<1>10. CASE q = g /\ z # Slash
  <2>1. PartsAt(g, c, i) \/ PartsAt(g, c, j)
    BY <1>1, <1>5, <1>6, <1>7, <1>10, OneParts
  <2>2. HasSign(g, c, begun)
    BY <1>1, <1>2, <1>10, GoesHead DEF p
  <2>3. \E k \in 1 .. begun - 1 : PartsAt(g, c, k)
    BY <2>1, <2>2, <1>6, <1>9 DEF PartsAt
  <2>4. HasSign(g, c, f) /\ p = g \o (m \o a)
    BY <1>10, <1>2 DEF ma
  <2> QED BY <2>3, <2>4, <1>00, <1>1, PartsDouble DEF c, p
<1>11. CASE q = g /\ z = Slash
  <2> DEFINE w == o \o u
  <2>1. w \in Seq(Signs) /\ w # <<>> /\ Head(w) = Slash
    BY <1>1, <1>6 DEF o
  <2>2. Pattern(routes[i]) = g \o w
    <3>1. Assoc(Signs, g, o, u)
      BY <1>1, <1>6, Associates
    <3> QED BY <3>1, <1>6, <1>7, <1>11 DEF Assoc
  <2> HIDE DEF w
  <2>3. PartsAt(g, c, i)
    <3>1. IsPrefix(g, Pattern(routes[i]))
      BY <2>1, <2>2, PrefixOf
    <3>2. ~HasSign(g, c, i)
      BY <2>1, <2>2, <1>1, GoesHead DEF c
    <3> QED BY <3>1, <3>2 DEF PartsAt
  <2>4. HasSign(g, c, begun) /\ HasSign(g, c, f) /\ p = g \o (m \o a)
    BY <1>1, <1>2, <1>11, GoesHead DEF p, ma
  <2>5. i \in 1 .. begun - 1
    BY <2>3, <2>4, <1>6, <1>9 DEF PartsAt
  <2> QED BY <2>3, <2>4, <2>5, <1>00, <1>1, PartsDouble DEF c, p
<1>12. CASE Ends(q, g, Slash) /\ z # Slash
  <2> DEFINE om == o \o m
             w == o \o ma
  <2>1. om \in Seq(Characters) /\ om # <<>> /\ Head(om) = Slash /\ Tail(om) = m /\ om \in Seq(Signs)
        /\ w \in Seq(Signs) /\ w # <<>> /\ Head(w) = Slash
    BY <1>1 DEF o
  <2>2. w = om \o a /\ p = g \o w
    <3>1. Assoc(Signs, o, m, a)
      BY <1>1, Associates
    <3> QED BY <3>1, <1>3, <1>12 DEF Assoc, ma
  <2>3. Trim(om) # <<>>
    BY <2>1 DEF Trim
  <2> HIDE DEF om, w
  <2>4. PartsAt(g, Slash, i) \/ PartsAt(g, Slash, j)
    BY <1>1, <1>5, <1>6, <1>7, <1>12, OneParts
  <2>5. HasSign(g, Slash, begun)
    BY <2>1, <2>2, <1>1, GoesHead DEF p
  <2>6. \E k \in 1 .. begun - 1 : PartsAt(g, Slash, k)
    BY <2>4, <2>5, <1>6, <1>9 DEF PartsAt
  <2>7. HasSign(g, Slash, f)
    <3> DEFINE x == << c >>
               pf == Pattern(routes[f])
               r == Drop(pf, Len(q \o x))
               y == x \o r
               oy == o \o y
    <3>1. x \in Seq(Signs) /\ q \o x \in Seq(Signs) /\ pf \in Seq(Signs)
      BY <1>1, RouteLetters
    <3>2. IsPrefix(q \o x, pf)
      BY DEF HasSign
    <3>3. pf = (q \o x) \o r /\ r \in Seq(Signs)
      BY <3>1, <3>2, PrefixFacts
    <3> HIDE DEF x, r, pf
    <3>4. y \in Seq(Signs)
      BY <3>1, <3>3
    <3>5. pf = q \o y
      <4>1. Assoc(Signs, q, x, r)
        BY <3>1, <3>3, Associates
      <4> QED BY <4>1, <3>3 DEF Assoc
    <3> HIDE DEF y
    <3>6. pf = g \o oy
      <4>1. Assoc(Signs, g, o, y)
        BY <3>4, <1>1, Associates
      <4> QED BY <4>1, <3>5, <1>3, <1>12 DEF Assoc
    <3>7. oy \in Seq(Signs) /\ oy # <<>> /\ Head(oy) = Slash
      BY <3>4, <1>1 DEF o
    <3> HIDE DEF oy
    <3> QED BY <3>6, <3>7, <1>1, GoesHead DEF pf
  <2> QED BY <2>1, <2>2, <2>3, <2>6, <2>7, <1>00, PartsDouble DEF p
<1>13. CASE Ends(q, g, Slash) /\ z = Slash
  <2>1. d = q /\ e = q
    BY <1>3, <1>7, <1>13
  <2>2. PartsAt(q, c, i) \/ PartsAt(q, c, j)
    BY <2>1, <1>1, <1>5, <1>6, OneParts
  <2>3. HasSign(q, c, begun)
    BY <1>1, <1>2, GoesHead DEF p
  <2>4. \E k \in 1 .. begun - 1 : PartsAt(q, c, k)
    BY <2>2, <2>3, <1>6, <1>9 DEF PartsAt
  <2>5. Len(q) >= 2 /\ q[Len(q)] \in Characters /\ q[Len(q) - 1] \in Characters
    <3>1. Len(q) = Len(g) + 1 /\ q[Len(g) + 1] = Slash /\ q[Len(g)] = g[Len(g)] /\ Len(g) \in Nat
      <4>1. q = g \o <<Slash>>
        BY <1>13 DEF Ends
      <4> QED BY <4>1, <1>00
    <3> DEFINE n1 == Len(g)
    <3>2. Len(q) = n1 + 1 /\ n1 \in Nat /\ n1 >= 2
      BY <3>1
    <3> HIDE DEF n1
    <3>3. Len(q) >= 2 /\ Len(q) - 1 = n1
      BY <3>2
    <3> QED BY <3>1, <3>3, <1>00, <1>1 DEF n1
  <2>6. p = q \o (m \o a)
    BY <1>2 DEF ma
  <2> QED BY <2>4, <2>5, <2>6, <1>00, <1>1, PartsDouble DEF c, p
<1> QED BY <1>10, <1>11, <1>12, <1>13

\* What stands behind a slash in a pattern, and ends in no slash itself.
Grounded(g) == Lettered(g) /\ Len(g) >= 2 /\ g[Len(g) - 1] \in Characters /\ g \in Seq(Signs)

LEMMA BehindSlash ==
  ASSUME NEW pre \in Seq(Signs), pre # <<>>, pre[Len(pre)] = Slash,
         NEW a \in Seq(Characters), a # <<>>, a[Len(a)] # Slash
  PROVE  Grounded(pre \o a)
<1> DEFINE f == Front(a)
           y == a[Len(a)]
           o == << y >>
           r == pre \o f
           g == pre \o a
<1>1. f \in Seq(Characters) /\ f \in Seq(Signs) /\ y \in Letter /\ a = f \o o /\ o \in Seq(Signs) /\ a \in Seq(Signs)
      /\ Len(f) \in Nat /\ Len(a) = Len(f) + 1
  BY DEF Front, Letter, Signs
<1> HIDE DEF f, y, o
<1>2. r \in Seq(Signs) /\ g = r \o o /\ g \in Seq(Signs)
  <2>1. Assoc(Signs, pre, f, o)
    BY <1>1, Associates
  <2> QED BY <2>1, <1>1 DEF Assoc
<1>3. Letters(g) = Letters(r) \o o
  <2>1. Letters(o) = o
    BY <1>1, LettersFew DEF o, Letter
  <2> HIDE DEF r, g
  <2> QED BY <2>1, <1>1, <1>2, LettersConcat
<1>4. Lettered(g)
  <2> HIDE DEF r, g
  <2> QED BY <1>1, <1>2, <1>3 DEF Lettered, o
<1> DEFINE n == Len(pre)
           l == Len(a)
<1>5. Joins(Signs, g, pre, a)
  BY <1>1, ConcatItems
<1> HIDE DEF g
<1>6. n \in Nat /\ n >= 1 /\ l \in Nat /\ l >= 1 /\ Len(g) = n + l /\ (\A k \in 1 .. n : g[k] = pre[k])
      /\ (\A k \in 1 .. l : g[n + k] = a[k]) /\ pre[n] = Slash /\ \A k \in 1 .. l : a[k] \in Characters
  BY <1>5 DEF Joins
<1> HIDE DEF n, l
<1>7. Len(g) >= 2 /\ g[Len(g) - 1] \in Characters
  <2>1. CASE l = 1
    <3>1. Len(g) - 1 = n /\ n \in 1 .. n
      BY <2>1, <1>6
    <3> QED BY <3>1, <2>1, <1>6, SlashIsNoHole
  <2>2. CASE l # 1
    <3>1. Len(g) - 1 = n + (l - 1) /\ l - 1 \in 1 .. l
      BY <2>2, <1>6
    <3> QED BY <3>1, <1>6
  <2> QED BY <2>1, <2>2, <1>6
<1> QED BY <1>2, <1>4, <1>7 DEF Grounded, g

\* What insert makes below a child is of a route that others part from there.
LEMMA BelowParts ==
  ASSUME TypeOK, IsTree, AfterWalk, TextsSpelled, RestLeft, at # 0, IsStem(at), Apart(begun),
         Shares, Shared = Len(nodes[Child].path), Fork(Child), Left # <<>>, After # <<>>
  PROVE  Parted(begun, Child)
<1> DEFINE p == Pattern(routes[begun])
           above == SubSeq(Own, 1, Shared)
           more == Drop(Own, Shared)
           m == Left
           a == After
           ma == m \o a
           o == <<Slash>>
<1>1. at \in Ids /\ begun \in DOMAIN routes /\ rest \in Seq(Signs) /\ p \in Seq(Signs) /\ routes[begun] \in ToSet(Files)
  BY Busy, RouteLetters, RouteFile
<1>2. SharedCuts(above, more) /\ nodes[Child].path = above
  BY <1>1, SharedCut DEF SharedCuts
<1>3. /\ above \in Seq(Characters) /\ above \in Seq(Signs) /\ above # <<>>
      /\ more \in Seq(Characters) /\ more \in Seq(Signs) /\ m = Trim(more) /\ m \in Seq(Signs) /\ m \in Seq(Characters)
      /\ Trim(rest) = above \o (more \o a)
  BY <1>2 DEF SharedCuts
<1>4. a \in Seq(Signs) /\ Head(a) \in Holes /\ Head(m) # Slash
  BY <1>1, TrimCutOwn, LeftIsText
<1>5. PICK pre \in Seq(Signs) : p = pre \o Trim(rest) /\ Letters(pre) = text[at]
  BY AtCall DEF Leaves
<1>6. text[Child] = text[at] \o Letters(above)
  BY <1>1, <1>2, ChildFacts DEF TextsSpelled
<1> HIDE DEF p, above, more, m, a, ma, o
<1> DEFINE x == more \o a
           pa == pre \o above
<1>7. x \in Seq(Signs) /\ pa \in Seq(Signs) /\ p = pa \o x /\ Letters(pa) = text[Child]
  <2>0. x \in Seq(Signs)
    BY <1>3, <1>4
  <2> HIDE DEF x
  <2>1. Assoc(Signs, pre, above, x)
    BY <2>0, <1>3, Associates
  <2>2. Letters(pa) = Letters(pre) \o Letters(above)
    BY <1>3, LettersConcat
  <2> QED BY <2>0, <2>1, <2>2, <1>3, <1>4, <1>5, <1>6 DEF Assoc, x
<1>8. Head(above) \in Letter
  <2> DEFINE ax == above \o x
  <2>1. ax # <<>> /\ Head(ax) = Head(above)
    BY <1>3, <1>7
  <2>2. Head(Trim(rest)) # Slash
    BY <2>1, <1>3, OwnIsText
  <2> QED BY <2>1, <2>2, <1>3 DEF Letter
<1>9. pre # <<>> /\ pre[Len(pre)] = Slash
  <2> DEFINE y == Head(above)
             t == Tail(above)
             b == t \o x
             oy == << y >>
  <2>1. t \in Seq(Signs) /\ above = oy \o t /\ oy \in Seq(Signs) /\ y \in Letter
    BY <1>3, <1>8
  <2> HIDE DEF y, t, x, oy
  <2>2. b \in Seq(Signs)
    BY <2>1, <1>7
  <2>3. above \o x = oy \o b
    <3>1. Assoc(Signs, oy, t, x)
      BY <2>1, <1>7, Associates
    <3> QED BY <3>1, <2>1 DEF Assoc
  <2>4. p = pre \o (oy \o b)
    BY <2>3, <1>3, <1>5 DEF x
  <2> HIDE DEF b
  <2>5. at \in Ids /\ begun \in DOMAIN routes /\ Pattern(routes[begun]) = pre \o (<< y >> \o b) /\ Letters(pre) = text[at]
    BY <2>4, <1>1, <1>5 DEF p, oy
  <2> QED BY <2>1, <2>2, <2>5, StemSlash
<1> DEFINE z == above[Len(above)]
<1>10. o \in Seq(Signs) /\ Letters(o) = <<>> /\ p # o
  <2>1. o \in Seq(Signs) /\ Letters(o) = <<>> /\ Len(o) = 1
    BY LettersFew, SlashIsNoHole DEF Signs, o
  <2>2. Len(pa) > 0 /\ Len(x) > 0 /\ Len(pa) \in Nat /\ Len(x) \in Nat /\ Len(pa \o x) = Len(pa) + Len(x)
    <3>1. Len(pa) = Len(pre) + Len(above) /\ Len(above) > 0 /\ Len(pre) \in Nat /\ Len(above) \in Nat
      BY <1>3
    <3>2. Len(x) = Len(more) + Len(a) /\ Len(a) > 0 /\ Len(more) \in Nat /\ Len(a) \in Nat
      BY <1>3, <1>4 DEF a
    <3>3. Len(pa) > 0 /\ Len(pa) \in Nat
      <4> DEFINE j == Len(pre)
                 k == Len(above)
      <4>1. Len(pa) = j + k /\ j \in Nat /\ k \in Nat /\ k > 0
        BY <3>1
      <4> HIDE DEF j, k, pa
      <4> QED BY ONLY <4>1
    <3>4. Len(x) > 0 /\ Len(x) \in Nat
      <4> DEFINE j == Len(more)
                 k == Len(a)
      <4>1. Len(x) = j + k /\ j \in Nat /\ k \in Nat /\ k > 0
        BY <3>2
      <4> HIDE DEF j, k, x
      <4> QED BY ONLY <4>1
    <3>5. Len(pa \o x) = Len(pa) + Len(x)
      <4> HIDE DEF pa, x
      <4> QED BY <1>7
    <3> QED BY <3>3, <3>4, <3>5
  <2> DEFINE j == Len(pa)
             k == Len(x)
  <2>3. Len(p) = j + k /\ j > 0 /\ k > 0 /\ j \in Nat /\ k \in Nat
    BY <2>2, <1>7
  <2> HIDE DEF j, k
  <2>4. Len(p) # 1
    BY ONLY <2>3
  <2> QED BY <2>1, <2>4
<1>11. CASE z # Slash
  <2> DEFINE g == pa
  <2>1. Grounded(g)
    BY <1>3, <1>9, <1>11, BehindSlash
  <2>2. CASE more = <<>> \/ Head(more) # Slash
    <3>1. m = more
      BY <2>2, <1>3 DEF Trim
    <3>2. p = g \o (m \o a)
      BY <3>1, <1>7
    <3> HIDE DEF g, pa
    <3> QED BY <3>2, <2>1, <1>1, <1>3, <1>4, <1>7, ForkParts DEF Grounded, p, g, m, a
  <2>3. CASE more # <<>> /\ Head(more) = Slash
    <3> DEFINE q == g \o o
    <3>1. m = Tail(more) /\ more = o \o m
      BY <2>3, <1>3 DEF Trim, o
    <3>2. q \in Seq(Signs) /\ Ends(q, g, Slash)
      BY <1>7, <1>10 DEF Ends, o
    <3>3. p = q \o (m \o a)
      <4>1. Assoc(Signs, o, m, a)
        BY <1>3, <1>4, <1>10, Associates
      <4>2. ma \in Seq(Signs) /\ x = o \o ma
        <5>1. ma \in Seq(Signs)
          BY <1>3, <1>4 DEF ma
        <5>2. x = (o \o m) \o a
          BY <3>1
        <5> QED BY <5>1, <5>2, <4>1 DEF Assoc, ma
      <4> HIDE DEF x, pa, ma
      <4>3. Assoc(Signs, pa, o, ma)
        BY <4>2, <1>7, <1>10, Associates
      <4> QED BY <4>2, <4>3, <1>7 DEF Assoc, ma
    <3> HIDE DEF g, pa, q
    <3> QED BY <3>2, <3>3, <2>1, <1>1, <1>3, <1>4, <1>7, ForkParts DEF Grounded, p, g, m, a
  <2> QED BY <2>2, <2>3
<1>12. CASE z = Slash
  <2> DEFINE ab == Front(above)
             g == pre \o ab
             y == ab[Len(ab)]
  <2>1. ab \in Seq(Characters) /\ ab \in Seq(Signs) /\ above = ab \o o
    BY <1>3, <1>12 DEF Front, o
  <2>2. ab # <<>>
    <3> SUFFICES ASSUME ab = <<>> PROVE FALSE
      OBVIOUS
    <3>1. above = o
      BY <2>1, <1>10
    <3>2. Head(above) = Slash
      BY <3>1 DEF o
    <3> QED BY <3>2, <1>8 DEF Letter
  <2> HIDE DEF ab
  <2>3. pa = g \o o /\ g \in Seq(Signs)
    <3>1. Assoc(Signs, pre, ab, o)
      BY <2>1, <1>10, Associates
    <3> QED BY <3>1, <2>1 DEF Assoc
  <2>4. Ends(pa, g, Slash) /\ Letters(g) = text[Child]
    <3>1. Letters(pa) = Letters(g) \o Letters(o)
      BY <2>3, <1>10, LettersConcat
    <3>2. Letters(g) \in Seq(Alphabet)
      BY <2>3, LettersOfText
    <3>3. Letters(g) \o <<>> = Letters(g)
      BY <3>2
    <3> QED BY <3>1, <3>3, <2>3, <1>7, <1>10 DEF Ends, o
  <2>5. p = g \o (o \o x)
    <3>1. Assoc(Signs, g, o, x)
      BY <2>3, <1>7, <1>10, Associates
    <3> QED BY <3>1, <2>3, <1>7 DEF Assoc
  <2>6. m = more
    <3>1. x # <<>> /\ Head(x) # Slash
      <4> HIDE DEF x, g
      <4> QED BY <2>3, <2>5, <1>1, <1>7, <1>10, NoSlashPair DEF p, o
    <3>2. more # <<>> => Head(x) = Head(more)
      BY <1>3, <1>4
    <3> QED BY <3>1, <3>2, <1>3 DEF Trim
  <2>7. y # Slash
    <3> SUFFICES ASSUME y = Slash PROVE FALSE
      OBVIOUS
    <3> DEFINE f == Front(ab)
               ox == o \o x
               pf == pre \o f
    <3>1. f \in Seq(Signs) /\ ab = f \o o
      BY <2>1, <2>2 DEF Front, o
    <3>2. ox \in Seq(Signs) /\ ox # <<>> /\ Head(ox) = Slash
      BY <1>7, <1>10 DEF o
    <3> HIDE DEF f, ox, x
    <3>3. pf \in Seq(Signs) /\ g = pf \o o
      <4>1. Assoc(Signs, pre, f, o)
        BY <3>1, <1>10, Associates
      <4> QED BY <4>1, <3>1 DEF Assoc
    <3>4. p = pf \o (o \o ox)
      <4>1. Assoc(Signs, pf, o, ox)
        BY <3>2, <3>3, <1>10, Associates
      <4> QED BY <4>1, <3>3, <2>5 DEF Assoc, ox
    <3> HIDE DEF pf
    <3> QED BY <3>2, <3>3, <3>4, <1>1, <1>10, NoSlashPair DEF p, o
  <2>8. Grounded(g)
    BY <2>1, <2>2, <2>7, <1>9, BehindSlash
  <2>9. p = pa \o (m \o a)
    BY <2>6, <1>7
  <2> HIDE DEF g, pa
  <2> QED BY <2>4, <2>8, <2>9, <1>1, <1>3, <1>4, <1>7, ForkParts DEF Grounded, p, m, a
<1> QED BY <1>11, <1>12

-----------------------------------------------------------------------------
(* The children in front of one that a route goes through                  *)

\* No route behind i but a plain one is in a child that begins like k and is in
\* front of it, and those before i that go there are doubled by i.
Clean(i) == {k \in Ids : \A n \in Ids, x, y \in Nat :
  Rivals(n, x, y) /\ nodes[n].kids[x] = k => Screened(i, n, nodes[n].kids[y]) /\ Parted(i, n)}

\* Where the route i may be.
Holders(i) == {k \in Ids : nodes[k].handler >= i}

LEMMA PartedStays ==
  ASSUME routes' = routes, NEW n, NEW m, text'[m] = text[n], NEW i, Parted(i, n)
  PROVE  Parted(i, m)'
BY DEF Parted, Doubled, HasSign

\* The route at hand may enter a node in front of a later one of i.
Shields(m, i) == \A S, n, x, y : /\ n \in Ids /\ Rivals(n, x, y)
                                 /\ Screens(S, i, n, nodes[n].kids[y]) /\ m \in S
                                 => Before(begun, i, n)

LEMMA AtShields == ASSUME NEW i PROVE Shields(at, i)
BY DEF Shields, Screens

\* So it may, when insert goes from a node to its child.
LEMMA ChildShields ==
  ASSUME TypeOK, IsTree, AfterWalk, TextsSpelled, Shape, at # 0, Own # <<>>, Shares, NEW i
  PROVE  Shields(Child, i)
<1>1. at \in Ids /\ rest \in Seq(Signs) /\ begun \in DOMAIN routes
  BY Busy
<1>2. Child \in Kids(at)
  BY <1>1, ChildFacts
<1> SUFFICES ASSUME NEW S, NEW n, NEW x, NEW y, n \in Ids, Rivals(n, x, y), Screens(S, i, n, nodes[n].kids[y]),
                    Child \in S
             PROVE  Before(begun, i, n)
  BY DEF Shields
<1>3. at \in S \/ at = n
  BY <1>1, <1>2 DEF Screens, Encloses
<1>4. CASE at \in S
  BY <1>4 DEF Screens
<1>5. CASE at = n
  <2>1. ~IsStem(at)
    <3>1. x \in Nat /\ y \in Nat
      <4> DEFINE l == Len(nodes[n].kids)
      <4>1. nodes[n].kids \in Seq(Nat)
        BY NodeFacts
      <4>2. l \in Nat /\ x \in 1 .. l /\ y \in 1 .. x - 1
        BY <4>1 DEF Rivals
      <4> HIDE DEF l
      <4> QED BY <4>2
    <3> QED BY <3>1, <1>5 DEF Shape, StemsApart
  <2>2. After = <<>>
    BY <2>1 DEF Shape
  <2>3. Own \in Seq(Characters) /\ Trim(rest) = Own \o After
    BY <1>1, TrimCutOwn
  <2>4. Trim(rest) = Own
    BY <2>2, <2>3
  <2>5. Letters(rest) = Letters(Own)
    BY <2>4, <1>1, TrimLetters
  <2>6. text[at] \o Letters(rest) = Letters(Pattern(routes[begun]))
    BY DEF TextsSpelled
  <2>7. Letters(Pattern(routes[begun])) = text[n] \o Letters(Own)
    BY <2>5, <2>6, <1>5
  <2> QED BY <2>3, <2>7 DEF Before, Plainly
<1> QED BY <1>3, <1>4, <1>5

\* A leaf takes no node from the clean ones.
LEMMA LeafClean ==
  ASSUME TypeOK, IsTree, NEW i, NEW parent \in Ids, NEW wild \in BOOLEAN, Leafed(parent, wild), Shields(parent, i),
         routes' = routes, begun' = begun, at' = Len(nodes) + 1
  PROVE  Clean(i) \subseteq Clean(i)' /\ Holders(i) \subseteq Holders(i)'
<1> PICK new : new = Len(nodes) + 1
  OBVIOUS
<1>1. /\ new \notin Ids /\ Ids' = Ids \cup {new} /\ nodes'[new].kids = <<>> /\ new > 1
      /\ \A n \in Ids : /\ nodes'[n].path = nodes[n].path /\ nodes'[n].handler = nodes[n].handler
                        /\ text'[n] = text[n] /\ nodes[n].kids \in Seq(Nat)
      /\ \A n \in Ids : \/ nodes'[n].kids = nodes[n].kids
                        \/ n = parent /\ Longer(Nat, nodes'[n].kids, nodes[n].kids, new)
  BY DEF Leafed
<1>2. Holders(i) \subseteq Holders(i)'
  BY <1>1 DEF Holders
<1>3. ASSUME NEW k \in Clean(i) PROVE k \in Clean(i)'
  <2>1. k \in Ids
    BY DEF Clean
  <2> SUFFICES ASSUME NEW n \in Ids', NEW x \in Nat, NEW y \in Nat, Rivals(n, x, y)', nodes'[n].kids[x] = k
               PROVE  (Screened(i, n, nodes[n].kids[y]) /\ Parted(i, n))'
    BY <2>1, <1>1 DEF Clean
  <2>2. n \in Ids
    <3> SUFFICES ASSUME n = new PROVE FALSE
      BY <1>1
    <3>1. x \in 1 .. Len(nodes'[n].kids)
      BY DEF Rivals
    <3> QED BY <3>1, <1>1
  <2> DEFINE old == nodes[n].kids
             cur == nodes'[n].kids
             l == Len(old)
  <2>3. l \in Nat /\ \A z \in 1 .. l : cur[z] = old[z] /\ old[z] \in Kids(n)
    <3>1. old \in Seq(Nat)
      BY <2>2, <1>1
    <3>2. \A z \in 1 .. l : old[z] \in Kids(n)
      BY <3>1 DEF Kids, ToSet
    <3>3. \A z \in 1 .. l : cur[z] = old[z]
      BY <2>2, <1>1 DEF Longer
    <3> QED BY <3>1, <3>2, <3>3
  <2>4. x \in 1 .. Len(cur) /\ y \in 1 .. x - 1 /\ Head(nodes'[cur[y]].path) = Head(nodes'[cur[x]].path)
    BY DEF Rivals
  <2>5. x \in 1 .. l
    <3>1. cur = old \/ (Len(cur) = l + 1 /\ cur[l + 1] = new)
      BY <2>2, <1>1 DEF Longer
    <3> HIDE DEF l
    <3>2. cur[x] = k /\ k # new
      BY <2>1, <1>1
    <3> HIDE DEF cur
    <3> QED BY <3>1, <3>2, <2>3, <2>4 DEF l
  <2>6. y \in 1 .. l
    <3> HIDE DEF l
    <3> QED BY <2>3, <2>4, <2>5
  <2> HIDE DEF l
  <2>7. cur[x] = old[x] /\ cur[y] = old[y] /\ old[x] \in Ids /\ old[y] \in Ids
    BY <2>2, <2>3, <2>5, <2>6 DEF IsTree
  <2> HIDE DEF old, cur
  <2>8. Rivals(n, x, y) /\ nodes[n].kids[x] = k
    <3>1. nodes'[cur[y]].path = nodes[old[y]].path /\ nodes'[cur[x]].path = nodes[old[x]].path
      BY <2>7, <1>1
    <3> QED BY <3>1, <2>4, <2>5, <2>7 DEF Rivals, old, cur, l
  <2>9. Screened(i, n, nodes[n].kids[y]) /\ Parted(i, n)
    BY <2>2, <2>8 DEF Clean
  <2>10. PICK S : Screens(S, i, n, nodes[n].kids[y])
    BY <2>9 DEF Screened
  <2>11. PICK z : z = nodes[n].kids[y]
    OBVIOUS
  <2>12. Screened(i, n, z)'
    <3>1. parent \in S => Before(begun, i, n)
      BY <2>2, <2>8, <2>10 DEF Shields
    <3>2. Screens(S, i, n, z)
      BY <2>10, <2>11
    <3> QED BY <3>1, <3>2, <2>2, LeafScreens
  <2>13. nodes'[n].kids[y] = z
    BY <2>7, <2>11 DEF old, cur
  <2>14. Parted(i, n)'
    BY <2>2, <2>9, <1>1, PartedStays
  <2> QED BY <2>12, <2>13, <2>14
<1> QED BY <1>2, <1>3

\* Nor does a step that changes no edges.
LEMMA SameClean ==
  ASSUME TypeOK, IsTree, NEW i, routes' = routes, Ids' = Ids, text' = text, begun \in Nat, i \in 1 .. begun,
         \A m \in Ids : nodes'[m].kids = nodes[m].kids /\ nodes'[m].wild = nodes[m].wild /\ nodes'[m].path = nodes[m].path,
         \A m \in Ids : nodes'[m].handler = nodes[m].handler \/ (m = at /\ nodes'[m].handler = begun),
         (at' \in Ids \ {1} => Shields(at', i) /\ begun' = begun)
  PROVE  Clean(i) \subseteq Clean(i)' /\ Holders(i) \subseteq Holders(i)'
<1>1. Holders(i) \subseteq Holders(i)'
  <2>1. i <= begun
    OBVIOUS
  <2> QED BY <2>1 DEF Holders
<1>2. ASSUME NEW k \in Clean(i) PROVE k \in Clean(i)'
  <2> SUFFICES ASSUME NEW n \in Ids, NEW x \in Nat, NEW y \in Nat, Rivals(n, x, y)', nodes'[n].kids[x] = k
               PROVE  (Screened(i, n, nodes[n].kids[y]) /\ Parted(i, n))'
    BY DEF Clean
  <2>1. nodes'[n].kids = nodes[n].kids /\ nodes[n].kids \in Seq(Nat)
    BY NodeFacts
  <2>2. PICK z : z = nodes[n].kids[y]
    OBVIOUS
  <2>3. Rivals(n, x, y)
    <3> DEFINE l == Len(nodes[n].kids)
               a == nodes[n].kids[x]
               b == nodes[n].kids[y]
    <3>1. l \in Nat /\ x \in 1 .. l /\ y \in 1 .. x - 1 /\ Head(nodes'[b].path) = Head(nodes'[a].path)
      BY <2>1 DEF Rivals
    <3> HIDE DEF l, a, b
    <3>2. y \in 1 .. l
      BY <3>1
    <3>3. a \in Ids /\ b \in Ids
      <4>1. a \in Kids(n) /\ b \in Kids(n)
        BY <3>1, <3>2, <2>1 DEF Kids, ToSet, a, b, l
      <4> QED BY <4>1, KidIsNode
    <3> QED BY <3>1, <3>3 DEF Rivals, l, a, b
  <2>4. PICK S : Screens(S, i, n, z) /\ Parted(i, n)
    BY <2>1, <2>2, <2>3 DEF Clean, Screened
  <2>5. at' \in S => Before(begun', i, n)
    <3> SUFFICES ASSUME at' \in S PROVE Before(begun', i, n)
      OBVIOUS
    <3>1. at' \in Ids \ {1}
      BY <2>4 DEF Screens, Encloses
    <3> QED BY <3>1, <2>2, <2>3, <2>4 DEF Shields
  <2>6. Screened(i, n, z)'
    BY <2>4, <2>5, SameScreens
  <2>7. Parted(i, n)'
    BY <2>4, PartedStays
  <2> QED BY <2>1, <2>2, <2>6, <2>7
<1> QED BY <1>1, <1>2

\* Nor a split, of which the lower half is clean, too.
LEMMA SplitClean ==
  ASSUME TypeOK, IsTree, NEW i, at \in Ids, SplitFacts, UNCHANGED <<routes, begun, at>>, i \in Nat, i > 0
  PROVE  /\ Clean(i) \subseteq Clean(i)' /\ Len(nodes) + 1 \in Clean(i)'
         /\ Holders(i) \ {Child} \subseteq Holders(i)' /\ (Child \in Holders(i) => Len(nodes) + 1 \in Holders(i)')
<1> PICK new, kid : new = Len(nodes) + 1 /\ kid = Child
  OBVIOUS
<1>1. /\ kid \in Kids(at) /\ kid \in Ids /\ kid # 1 /\ kid # at
      /\ new \notin Ids /\ Ids' = Ids \cup {new} /\ new > 1
      /\ nodes'[kid].kids = << new >> /\ nodes'[new].kids = nodes[kid].kids /\ nodes'[new].handler = nodes[kid].handler
      /\ Head(nodes'[kid].path) = Head(nodes[kid].path)
      /\ \A n \in Ids : n # kid => nodes'[n] = nodes[n] /\ text'[n] = text[n]
      /\ text'[new] = text[kid]
  BY DEF SplitFacts
<1>2. Holders(i) \ {Child} \subseteq Holders(i)' /\ (Child \in Holders(i) => new \in Holders(i)')
  BY <1>1 DEF Holders
\* The children of a node that has more than one are those of one before the split.
<1>3. ASSUME NEW n \in Ids', NEW x \in Nat, NEW y \in Nat, Rivals(n, x, y)'
      PROVE  \E m \in Ids : /\ n = (IF m = kid THEN new ELSE m)
                            /\ Rivals(m, x, y) /\ nodes'[n].kids = nodes[m].kids /\ text'[n] = text[m]
                            /\ nodes[m].kids[x] \in Ids /\ nodes[m].kids[y] \in Ids
  <2>1. n # kid
    <3> SUFFICES ASSUME n = kid PROVE FALSE
      OBVIOUS
    <3>1. Len(<< new >>) = 1
      OBVIOUS
    <3>2. x \in 1 .. 1 /\ y \in 1 .. x - 1
      BY <3>1, <1>1, <1>3 DEF Rivals
    <3> QED BY <3>2
  <2>2. PICK m \in Ids : n = (IF m = kid THEN new ELSE m) /\ nodes'[n].kids = nodes[m].kids /\ text'[n] = text[m]
    <3>1. CASE n = new
      BY <3>1, <1>1
    <3>2. CASE n # new
      BY <2>1, <3>2, <1>1
    <3> QED BY <3>1, <3>2
  <2> DEFINE l == Len(nodes[m].kids)
             a == nodes[m].kids[x]
             b == nodes[m].kids[y]
  <2>3. nodes[m].kids \in Seq(Nat)
    BY NodeFacts
  <2>4. l \in Nat /\ x \in 1 .. l /\ y \in 1 .. x - 1 /\ Head(nodes'[b].path) = Head(nodes'[a].path)
    BY <2>2, <2>3, <1>3 DEF Rivals
  <2> HIDE DEF l, a, b
  <2>5. y \in 1 .. l
    BY <2>4
  <2>6. a \in Ids /\ b \in Ids
    <3>1. a \in Kids(m) /\ b \in Kids(m)
      BY <2>3, <2>4, <2>5 DEF Kids, ToSet, a, b, l
    <3> QED BY <3>1, KidIsNode
  <2>7. Head(nodes'[a].path) = Head(nodes[a].path) /\ Head(nodes'[b].path) = Head(nodes[b].path)
    BY <2>6, <1>1
  <2>8. Rivals(m, x, y)
    BY <2>4, <2>7 DEF Rivals, l, a, b
  <2> QED BY <2>2, <2>6, <2>8 DEF a, b
<1>4. new \in Clean(i)'
  <2> SUFFICES ASSUME NEW n \in Ids', NEW x \in Nat, NEW y \in Nat, Rivals(n, x, y)', nodes'[n].kids[x] = new
               PROVE  FALSE
    BY <1>1 DEF Clean
  <2> QED BY <1>1, <1>3
<1>5. ASSUME NEW k \in Clean(i) PROVE k \in Clean(i)'
  <2>1. k \in Ids
    BY DEF Clean
  <2> SUFFICES ASSUME NEW n \in Ids', NEW x \in Nat, NEW y \in Nat, Rivals(n, x, y)', nodes'[n].kids[x] = k
               PROVE  (Screened(i, n, nodes[n].kids[y]) /\ Parted(i, n))'
    BY <2>1, <1>1 DEF Clean
  <2>2. PICK m \in Ids : /\ n = (IF m = kid THEN new ELSE m)
                         /\ Rivals(m, x, y) /\ nodes'[n].kids = nodes[m].kids /\ text'[n] = text[m]
    BY <1>3
  <2>3. PICK z : z = nodes[m].kids[y]
    OBVIOUS
  <2>4. PICK S : Screens(S, i, m, z) /\ Parted(i, m)
    BY <2>2, <2>3 DEF Clean, Screened
  <2>5. Screened(i, n, z)'
    BY <2>2, <2>4, SplitScreens
  <2>6. Parted(i, n)'
    BY <2>2, <2>4, PartedStays
  <2> QED BY <2>2, <2>3, <2>5, <2>6
<1> QED BY <1>2, <1>4, <1>5

\* The root and the wildcards are clean, and so is a child behind none that
\* begins like it.
LEMMA StemClean ==
  ASSUME TypeOK, IsTree, NEW i, NEW m \in Ids, m = 1 \/ \E n \in Ids : nodes[n].wild = m
  PROVE  m \in Clean(i)
<1>1. \A n \in Ids : m \notin Kids(n)
  BY DEF IsTree
<1>2. ASSUME NEW n \in Ids, NEW x \in Nat, NEW y \in Nat, Rivals(n, x, y), nodes[n].kids[x] = m PROVE FALSE
  <2>1. nodes[n].kids \in Seq(Nat)
    BY NodeFacts
  <2>2. m \in Kids(n)
    BY <2>1, <1>2 DEF Rivals, Kids, ToSet
  <2> QED BY <1>1, <2>2
<1> QED BY <1>2 DEF Clean

\* So is the child that insert goes on with.
LEMMA ChildClean ==
  ASSUME TypeOK, IsTree, Edged, Once, at \in Ids, Own # <<>>, Shares, NEW i
  PROVE  Child \in Clean(i)
<1>1. Child \in Kids(at) /\ FirstAlike
  BY ChildFacts, TakesFirst
<1>2. Child \in Ids
  BY <1>1, KidIsNode
<1> SUFFICES ASSUME NEW n \in Ids, NEW x \in Nat, NEW y \in Nat, Rivals(n, x, y), nodes[n].kids[x] = Child PROVE FALSE
  BY <1>2 DEF Clean
<1>3. nodes[n].kids \in Seq(Nat)
  BY NodeFacts
<1> DEFINE kids == nodes[n].kids
           l == Len(kids)
<1>4. l \in Nat /\ x \in 1 .. l /\ y \in 1 .. x - 1 /\ Head(nodes[kids[y]].path) = Head(nodes[kids[x]].path)
  BY <1>3 DEF Rivals
<1>5. n = at
  <2>1. Child \in Kids(n)
    BY <1>3, <1>4 DEF Kids, ToSet
  <2> QED BY <2>1, <1>1 DEF IsTree
<1>6. /\ Position \in 1 .. l /\ Child = kids[Position] /\ Head(nodes[Child].path) = Head(Own)
      /\ \A j \in 1 .. Position - 1 : Head(nodes[kids[j]].path) # Head(Own)
  BY <1>1, <1>5 DEF FirstAlike
<1>7. x = Position
  BY <1>4, <1>5, <1>6 DEF Once
<1> HIDE DEF l, kids
<1> QED BY <1>4, <1>6, <1>7 DEF kids

\* A new child is clean when those that begin like it are screened.
LEMMA NewClean ==
  ASSUME TypeOK, IsTree, NEW i, NEW parent \in Ids, NEW wild \in BOOLEAN, Leafed(parent, wild),
         ~wild => \A y \in 1 .. Len(nodes[parent].kids) : \A z :
           z = nodes[parent].kids[y] /\ Head(nodes[z].path) = Head(nodes'[Len(nodes) + 1].path)
             => Screened(i, parent, z)' /\ Parted(i, parent)'
  PROVE  Len(nodes) + 1 \in Clean(i)'
<1> PICK new : new = Len(nodes) + 1
  OBVIOUS
<1>1. /\ new \notin Ids /\ Ids' = Ids \cup {new} /\ nodes'[new].kids = <<>> /\ new > 1
      /\ \A n \in Ids : nodes'[n].path = nodes[n].path /\ nodes[n].kids \in Seq(Nat) /\ new \notin Kids(n)
      /\ \A n \in Ids : \/ nodes'[n].kids = nodes[n].kids
                        \/ n = parent /\ ~wild /\ Longer(Nat, nodes'[n].kids, nodes[n].kids, new)
  BY DEF Leafed
<1> SUFFICES ASSUME NEW n \in Ids', NEW x \in Nat, NEW y \in Nat, Rivals(n, x, y)', nodes'[n].kids[x] = new
             PROVE  (Screened(i, n, nodes[n].kids[y]) /\ Parted(i, n))'
  BY <1>1 DEF Clean
<1> DEFINE old == nodes[n].kids
           cur == nodes'[n].kids
           l == Len(old)
<1>2. x \in 1 .. Len(cur) /\ y \in 1 .. x - 1 /\ Head(nodes'[cur[y]].path) = Head(nodes'[cur[x]].path)
  BY DEF Rivals
<1>3. n \in Ids
  <2> SUFFICES ASSUME n = new PROVE FALSE
    BY <1>1
  <2> QED BY <1>1, <1>2
<1>4. l \in Nat /\ old \in Seq(Nat) /\ \A z \in 1 .. l : old[z] \in Kids(n)
  <2>1. old \in Seq(Nat)
    BY <1>1, <1>3
  <2> QED BY <2>1 DEF Kids, ToSet
<1>5. n = parent /\ ~wild /\ Len(cur) = l + 1 /\ (\A z \in 1 .. l : cur[z] = old[z])
  <2>1. cur # old
    BY <1>1, <1>2, <1>3, <1>4
  <2> QED BY <2>1, <1>1, <1>3 DEF Longer
<1>6. x = l + 1
  <2> HIDE DEF l
  <2>1. x \in 1 .. l => cur[x] \in Kids(n)
    BY <1>4, <1>5
  <2> HIDE DEF cur
  <2>2. x \notin 1 .. l
    BY <2>1, <1>1, <1>3 DEF cur
  <2> QED BY <2>2, <1>2, <1>4, <1>5
<1>7. y \in 1 .. l
  <2> HIDE DEF l, cur
  <2> QED BY <1>2, <1>4, <1>6
<1> PICK z : z = old[y]
  OBVIOUS
<1>8. cur[y] = z /\ z \in Ids
  BY <1>3, <1>4, <1>5, <1>7 DEF IsTree
<1>9. Head(nodes[z].path) = Head(nodes'[new].path)
  BY <1>1, <1>2, <1>8
<1>10. Screened(i, n, z)' /\ Parted(i, n)'
  BY <1>5, <1>7, <1>9
<1> QED BY <1>8, <1>10

\* insert makes a child that begins like none before it ...
LEMMA AddedClean ==
  ASSUME TypeOK, IsTree, Edged, at \in Ids, rest \in Seq(Signs), AddChild, NEW i
  PROVE  Len(nodes) + 1 \in Clean(i)'
<1>1. ~Shares /\ Own # <<>> /\ Add(at, Own)
  BY DEF AddChild, OnText
<1>2. Leafed(at, FALSE) /\ nodes'[Len(nodes) + 1].path = Own
  <2>1. Own \in Seq(Characters)
    BY TrimCutOwn
  <2>2. Added(at, Own)
    BY <1>1, <2>1, AddNodes
  <2> QED BY <1>1, <2>1, <2>2, AddLeafs DEF Added
<1>3. FirstAlike /\ nodes[at].kids \in Seq(Nat)
  BY <1>1, TakesFirst, NodeFacts
<1>4. \A y \in 1 .. Len(nodes[at].kids) : Head(nodes[nodes[at].kids[y]].path) # Head(Own)
  <2> DEFINE l == Len(nodes[at].kids)
  <2>1. l \in Nat /\ Position = l + 1 /\ \A y \in 1 .. Position - 1 : Head(nodes[nodes[at].kids[y]].path) # Head(Own)
    BY <1>1, <1>3 DEF FirstAlike
  <2> HIDE DEF l
  <2>2. 1 .. Position - 1 = 1 .. l
    BY <2>1
  <2> QED BY <2>1, <2>2 DEF l
<1> QED BY <1>2, <1>4, NewClean

\* ... or below a child, where those that begin like it hold earlier routes.
LEMMA BelowClean ==
  ASSUME TreeSpelled, Orderly, RestLeft, OrderKept, AddBelow, Unwalked, Apart(begun)
  PROVE  Len(nodes) + 1 \in Clean(begun)'
<1> PICK n : n = Child
  OBVIOUS
<1>1. /\ at # 0 /\ begun' = begun /\ routes' = routes /\ at' = Len(nodes) + 1 /\ Left # <<>> /\ After # <<>>
      /\ Own # <<>> /\ Add(n, Left) /\ Shares /\ Shared = Len(nodes[Child].path)
  BY DEF AddBelow, OnText, Inserting, Unwalked, Add, Call
<1>2. TypeOK /\ AfterWalk /\ IsTree /\ TextsSpelled /\ Shape /\ Once /\ Forks
  BY DEF TreeSpelled, OrderKept
<1>3. at \in Ids /\ begun \in DOMAIN routes /\ rest \in Seq(Signs) /\ IsStem(at)
  BY <1>1, <1>2, Busy DEF Shape
<1>4. n \in Ids /\ n \in Kids(at)
  BY <1>1, <1>2, <1>3, ChildFacts, KidIsNode
<1>5. Left \in Seq(Characters) /\ Head(Left) # Slash
  BY <1>1, <1>2, <1>3, SharedCut, LeftIsText DEF SharedCuts
<1>6. Leafed(n, FALSE) /\ nodes'[Len(nodes) + 1].path = Left
  <2>1. Added(n, Left)
    BY <1>1, <1>2, <1>4, <1>5, AddNodes
  <2> QED BY <1>1, <1>2, <1>4, <1>5, <2>1, AddLeafs DEF Added
<1>7. Parted(begun, n)'
  <2>1. Fork(Child)
    BY <1>2, <1>3, <1>4 DEF Forks
  <2>2. Parted(begun, n)
    BY <2>1, <1>1, <1>2, <1>3, BelowParts
  <2>3. text'[n] = text[n]
    BY <1>4, <1>6 DEF Leafed
  <2> QED BY <2>2, <2>3, <1>1, PartedStays
<1>8. ASSUME NEW y \in 1 .. Len(nodes[n].kids), NEW z, z = nodes[n].kids[y], Head(nodes[z].path) = Head(Left)
      PROVE  Screened(begun, n, z)'
  <2>1. z \in Kids(n)
    <3>1. nodes[n].kids \in Seq(Nat)
      BY <1>2, <1>4, NodeFacts
    <3> QED BY <3>1, <1>8 DEF Kids, ToSet
  <2>2. nodes[z].path \in Seq(Characters) /\ nodes[z].path # <<>>
    BY <2>1, <1>2, <1>4, KidIsNode DEF NodeType, Shape, Edged
  <2>3. Letters(nodes[z].path) # <<>>
    <3> DEFINE s == nodes[z].path
               x == Head(s)
               t == Tail(s)
               o == << x >>
    <3>1. s \in Seq(Characters) /\ s # <<>> /\ x # Slash
      BY <2>2, <1>5, <1>8
    <3> HIDE DEF s
    <3>2. s \in Seq(Signs) /\ t \in Seq(Signs) /\ s = o \o t /\ o \in Seq(Signs) /\ Letters(o) = o
      BY <3>1, LettersFew DEF Signs
    <3> HIDE DEF t, o, x
    <3> DEFINE b == Letters(t)
    <3>3. Letters(s) = o \o b /\ b \in Seq(Alphabet)
      BY <3>2, LettersConcat, LettersOfText
    <3> HIDE DEF b
    <3>4. o \o b # <<>>
      BY <3>3 DEF o
    <3> QED BY <3>3, <3>4 DEF s
  <2>4. PICK S : Encloses(S, n, z)
    BY <2>1, <2>3, <1>2, <1>4, Enclosed
  <2>5. at \notin S /\ n \notin S /\ S \subseteq Ids
    <3>1. S \subseteq Ids \ {1, n} /\ \A m \in S : Kids(m) \subseteq S
      BY <2>4 DEF Encloses
    <3> QED BY <3>1, <1>4
  <2>6. Screens(S, begun, n, z)
    <3>1. \A m \in S : Before(nodes[m].handler, begun, n)
      BY <2>5, <1>1, <1>2 DEF Before, Shape
    <3> QED BY <3>1, <2>4, <2>5 DEF Screens
  <2> QED BY <2>5, <2>6, <1>1, <1>2, <1>4, <1>6, LeafScreens
<1> QED BY <1>2, <1>4, <1>6, <1>7, <1>8, NewClean

\* No step but a split takes a node from the clean ones or from those that may
\* hold the route.
LEMMA CleanStays ==
  ASSUME TreeSpelled, Orderly, RestLeft, OrderKept, Unwalked, NEW i \in 1 .. begun,
         Begin \/ InsertHere \/ InsertWild \/ AddChild \/ Descend \/ AddBelow
  PROVE  Clean(i) \subseteq Clean(i)' /\ Holders(i) \subseteq Holders(i)'
<1>1. TypeOK /\ AfterWalk /\ IsTree /\ TextsSpelled /\ Shape /\ Once /\ Edged /\ routes' = routes
  BY DEF TreeSpelled, OrderKept, Shape, Unwalked
<1>2. begun \in Nat /\ 0 \notin Ids
  BY <1>1 DEF TypeOK, Ids
<1>3. CASE Begin
  <2>1. nodes' = nodes /\ text' = text /\ at' = 1
    BY <1>3 DEF Begin
  <2> QED BY <2>1, <1>1, <1>2, SameClean DEF Ids
<1>4. CASE InsertHere
  <2>1. nodes' = [nodes EXCEPT ![at].handler = begun] /\ text' = text /\ at' = 0 /\ at # 0
    BY <1>4 DEF InsertHere, Inserting, Call
  <2>2. at \in Ids
    BY <2>1, <1>1, Busy
  <2>3. Ids' = Ids /\ \A m \in Ids : /\ nodes'[m].kids = nodes[m].kids /\ nodes'[m].wild = nodes[m].wild
                                     /\ nodes'[m].path = nodes[m].path
                                     /\ nodes'[m].handler = nodes[m].handler \/ (m = at /\ nodes'[m].handler = begun)
    <3> DEFINE up == [nodes[at] EXCEPT !.handler = begun]
    <3>1. at \in 1 .. Len(nodes) /\ Ids = 1 .. Len(nodes) /\ nodes[at] \in NodeType /\ nodes \in Seq(NodeType)
      BY <2>2, <1>1, NodeFacts DEF Ids, TypeOK
    <3>2. up \in NodeType /\ up.path = nodes[at].path /\ up.wild = nodes[at].wild
          /\ up.handler = begun /\ up.kids = nodes[at].kids
      BY <1>2, <3>1 DEF NodeType
    <3>3. nodes' = [nodes EXCEPT ![at] = up]
      BY <2>1
    <3> HIDE DEF up
    <3>4. nodes' \in Seq(NodeType) /\ Len(nodes') = Len(nodes) /\ nodes'[at] = up
          /\ \A k \in 1 .. Len(nodes) : k # at => nodes'[k] = nodes[k]
      BY <3>1, <3>2, <3>3
    <3>5. Ids' = Ids
      BY <3>1, <3>4 DEF Ids
    <3> QED BY <3>1, <3>2, <3>4, <3>5
  <2> QED BY <2>1, <2>3, <1>1, <1>2, SameClean
<1>5. CASE InsertWild /\ nodes[at].wild = 0
  <2>1. Leafed(at, TRUE) /\ at \in Ids /\ at' = Len(nodes) + 1 /\ begun' = begun
    <3>1. at # 0 /\ at' = Len(nodes) + 1 /\ begun' = begun
      BY <1>5 DEF InsertWild, Inserting, Call
    <3>2. at \in Ids
      BY <3>1, <1>1, Busy
    <3> QED BY <3>1, <3>2, <1>1, <1>5, WildLeafs
  <2> QED BY <2>1, <1>1, AtShields, LeafClean
<1>6. CASE InsertWild /\ nodes[at].wild # 0
  <2>1. at # 0 /\ at' = nodes[at].wild /\ begun' = begun /\ nodes' = nodes /\ text' = text
    BY <1>6 DEF InsertWild, Inserting, Call
  <2>2. at \in Ids
    BY <2>1, <1>1, Busy
  <2> PICK w : w = nodes[at].wild
    OBVIOUS
  <2>3. w \in Ids
    BY <2>2, <1>1, <1>6 DEF IsTree
  <2>4. Shields(w, i)
    <3> SUFFICES ASSUME NEW S, NEW n, NEW x, NEW y, n \in Ids, Rivals(n, x, y), Screens(S, i, n, nodes[n].kids[y]), w \in S
                 PROVE  Before(begun, i, n)
      BY DEF Shields
    <3>1. at \in S
      BY <2>2, <2>3 DEF Screens, Encloses
    <3> QED BY <3>1 DEF Screens
  <2> QED BY <2>1, <2>4, <1>1, <1>2, SameClean DEF Ids
<1>7. CASE AddChild
  <2>1. at # 0 /\ Own # <<>> /\ Add(at, Own) /\ at' = Len(nodes) + 1 /\ begun' = begun
    BY <1>7 DEF AddChild, OnText, Inserting, Add, Call
  <2>2. at \in Ids /\ rest \in Seq(Signs)
    BY <2>1, <1>1, Busy
  <2>3. Leafed(at, FALSE)
    <3>1. Own \in Seq(Characters)
      BY <2>2, TrimCutOwn
    <3> QED BY <3>1, <2>1, <2>2, <1>1, AddLeafs
  <2> QED BY <2>1, <2>2, <2>3, <1>1, AtShields, LeafClean
<1>8. ASSUME Descend \/ AddBelow PROVE Shields(Child, i) /\ Child \in Ids /\ at # 0 /\ begun' = begun
  <2>1. at # 0 /\ Own # <<>> /\ Shares /\ begun' = begun
    BY <1>8 DEF Descend, AddBelow, OnText, Inserting
  <2>2. at \in Ids
    BY <2>1, <1>1, Busy
  <2>3. Child \in Ids
    BY <2>1, <2>2, <1>1, ChildFacts, KidIsNode
  <2> QED BY <2>1, <2>3, <1>1, ChildShields
<1>9. CASE Descend
  <2>1. at' = Child /\ nodes' = nodes /\ text' = text
    BY <1>9 DEF Descend, Call
  <2> PICK n : n = Child
    OBVIOUS
  <2>2. Shields(n, i) /\ at' = n /\ begun' = begun
    BY <2>1, <1>8, <1>9
  <2> QED BY <2>1, <2>2, <1>1, <1>2, SameClean DEF Ids
<1>10. CASE AddBelow
  <2> PICK n : n = Child
    OBVIOUS
  <2>1. Shares /\ Left # <<>> /\ Add(n, Left) /\ at' = Len(nodes) + 1
    BY <1>10 DEF AddBelow, OnText, Add, Call
  <2>2. n \in Ids /\ Shields(n, i) /\ begun' = begun /\ at # 0
    BY <1>8, <1>10
  <2>3. Leafed(n, FALSE)
    <3>1. at \in Ids /\ rest \in Seq(Signs)
      BY <2>2, <1>1, Busy
    <3>2. Left \in Seq(Characters)
      BY <2>1, <3>1, <1>1, SharedCut DEF SharedCuts
    <3> QED BY <3>2, <2>1, <2>2, <1>1, AddLeafs
  <2> QED BY <2>1, <2>2, <2>3, <1>1, LeafClean
<1> QED BY <1>3, <1>4, <1>5, <1>6, <1>7, <1>9, <1>10

-----------------------------------------------------------------------------
(* The way of a pattern through the tree.  It is told of any nodes and     *)
(* texts, so that the lemmas speak of those before and behind a step.      *)

\* From a node, with s left of the pattern, into a child or the wildcard.
On(ns, n, s, m, r) == \E t \in Seq(Signs) :
  /\ r = Trim(Trim(t))
  /\ \/ m \in ToSet(ns[n].kids) /\ ns[m].path # <<>> /\ s = ns[m].path \o t
     \/ m # 0 /\ m = ns[n].wild /\ s = << ns[m].hole >> \o t

\* From the root on every node of D, with what is left there, leads to another
\* or has the route and nothing left, but for the node n that insert is at.  The
\* way may use the nodes of C, and those of H may hold the route.
Leads(ns, tx, p, C, H, D, way, n, s) ==
  /\ D \subseteq DOMAIN ns /\ D \subseteq C /\ way \in [D -> Seq(Signs)]
  /\ 1 \in D /\ way[1] = Trim(p)
  /\ n \in D => way[n] = s
  /\ \A k \in D :
       /\ Leaves(tx, p, k, way[k])
       /\ \/ k = n
          \/ way[k] = <<>> /\ k \in H
          \/ \E m \in D : On(ns, k, way[k], m, way[m])

\* There is such a way.
HasWay(ns, tx, p, C, H, n, s) == \E D, way : Leads(ns, tx, p, C, H, D, way, n, s)

\* insert goes on to a node that only the one it is at leads to.
LEMMA WayMoves ==
  ASSUME NEW ns, NEW tx, NEW p, NEW C, NEW H, NEW n, NEW s, NEW m, NEW r, HasWay(ns, tx, p, C, H, n, s),
         On(ns, n, s, m, r), r \in Seq(Signs), Leaves(tx, p, m, r), m \in DOMAIN ns, m \in C, m # n, m # 1,
         \A k \in DOMAIN ns : k # n => m \notin ToSet(ns[k].kids) /\ (m # 0 => ns[k].wild # m)
  PROVE  HasWay(ns, tx, p, C, H, m, r)
<1>1. PICK D, way : Leads(ns, tx, p, C, H, D, way, n, s)
  BY DEF HasWay
<1> DEFINE E == D \cup {m}
           new == [k \in E |-> IF k = m THEN r ELSE way[k]]
<1>2. /\ D \subseteq DOMAIN ns /\ D \subseteq C /\ way \in [D -> Seq(Signs)]
      /\ 1 \in D /\ way[1] = Trim(p) /\ (n \in D => way[n] = s)
      /\ \A k \in D : /\ Leaves(tx, p, k, way[k])
                      /\ k = n \/ (way[k] = <<>> /\ k \in H) \/ \E j \in D : On(ns, k, way[k], j, way[j])
  BY <1>1 DEF Leads
<1>3. new \in [E -> Seq(Signs)] /\ new[m] = r /\ \A k \in D : k # m => new[k] = way[k]
  BY <1>2
<1>4. ASSUME NEW k \in E
      PROVE  /\ Leaves(tx, p, k, new[k])
             /\ k = m \/ (new[k] = <<>> /\ k \in H) \/ \E j \in E : On(ns, k, new[k], j, new[j])
  <2>1. CASE k = m
    BY <2>1, <1>3
  <2>2. CASE k # m /\ k = n
    <3>1. k \in D /\ new[k] = s
      BY <2>2, <1>2, <1>3
    <3> HIDE DEF new
    <3> QED BY <3>1, <2>2, <1>2, <1>3
  <2>3. CASE k # m /\ k # n
    <3>1. k \in D /\ new[k] = way[k] /\ k \in DOMAIN ns
      BY <2>3, <1>2, <1>3
    <3>2. ASSUME NEW j \in D, On(ns, k, way[k], j, way[j]) PROVE On(ns, k, new[k], j, new[j])
      <4>1. j # m
        BY <3>1, <3>2, <2>3 DEF On
      <4> HIDE DEF new
      <4> QED BY <4>1, <3>1, <3>2, <1>3
    <3> HIDE DEF new
    <3> QED BY <3>1, <3>2, <2>3, <1>2
  <2> QED BY <2>1, <2>2, <2>3
<1>5. E \subseteq DOMAIN ns /\ E \subseteq C /\ 1 \in E /\ new[1] = Trim(p)
  BY <1>2, <1>3
<1> HIDE DEF new, E
<1>6. Leads(ns, tx, p, C, H, E, new, m, r)
  BY <1>3, <1>4, <1>5 DEF Leads
<1> QED BY <1>6 DEF HasWay

\* insert has ended.
LEMMA WayEnds ==
  ASSUME NEW ns, NEW tx, NEW p, NEW C, NEW H, NEW n, HasWay(ns, tx, p, C, H, n, <<>>), n \in H,
         NEW z, z \notin DOMAIN ns, NEW s
  PROVE  HasWay(ns, tx, p, C, H, z, s)
<1>1. PICK D, way : Leads(ns, tx, p, C, H, D, way, n, <<>>)
  BY DEF HasWay
<1>2. Leads(ns, tx, p, C, H, D, way, z, s)
  BY <1>1 DEF Leads
<1> QED BY <1>2 DEF HasWay

\* The tree has grown: no node has lost anything.
Wider(ns, tx, ns2, tx2) ==
  /\ DOMAIN ns \subseteq DOMAIN ns2
  /\ \A k \in DOMAIN ns :
       /\ tx2[k] = tx[k] /\ ns2[k].path = ns[k].path /\ ns2[k].hole = ns[k].hole
       /\ ToSet(ns[k].kids) \subseteq ToSet(ns2[k].kids)
       /\ ns[k].wild # 0 => ns2[k].wild = ns[k].wild

\* A way is one in every wider tree.
LEMMA WayStays ==
  ASSUME NEW ns, NEW tx, NEW p, NEW C, NEW H, NEW n, NEW s, HasWay(ns, tx, p, C, H, n, s), NEW ns2, NEW tx2, Wider(ns, tx, ns2, tx2),
         NEW C2, NEW H2, C \subseteq C2, H \subseteq H2
  PROVE  HasWay(ns2, tx2, p, C2, H2, n, s)
<1>1. PICK D, way : Leads(ns, tx, p, C, H, D, way, n, s)
  BY DEF HasWay
<1>2. ASSUME NEW k \in D
      PROVE  /\ Leaves(tx2, p, k, way[k])
             /\ k = n \/ (way[k] = <<>> /\ k \in H2) \/ \E j \in D : On(ns2, k, way[k], j, way[j])
  <2>1. k \in DOMAIN ns /\ Leaves(tx, p, k, way[k])
    BY <1>1 DEF Leads
  <2>2. Leaves(tx2, p, k, way[k])
    BY <2>1 DEF Leaves, Wider
  <2>3. ASSUME NEW j \in D, On(ns, k, way[k], j, way[j]) PROVE On(ns2, k, way[k], j, way[j])
    <3>1. j \in DOMAIN ns
      BY <1>1 DEF Leads
    <3> QED BY <3>1, <2>1, <2>3 DEF On, Wider
  <2>4. k = n \/ (way[k] = <<>> /\ k \in H) \/ \E j \in D : On(ns, k, way[k], j, way[j])
    BY <1>1 DEF Leads
  <2> QED BY <2>2, <2>3, <2>4
<1>3. D \subseteq DOMAIN ns2 /\ D \subseteq C2
  BY <1>1 DEF Leads, Wider
<1>4. Leads(ns2, tx2, p, C2, H2, D, way, n, s)
  BY <1>1, <1>2, <1>3 DEF Leads
<1> QED BY <1>4 DEF HasWay

\* A way through a node that is split goes through both halves, unless the
\* lower one begins with a slash, which search would strip.
LEMMA WaySplits ==
  ASSUME NEW ns, NEW tx, NEW p, NEW C, NEW H, NEW z, NEW s, HasWay(ns, tx, p, C, H, z, s),
         NEW ns2, NEW tx2, NEW n, NEW kid, NEW new, NEW above, NEW below, z # kid, z # new,
         Halved(ns, tx, ns2, tx2, n, kid, new, above, below),
         NEW C2, NEW H2, C \subseteq C2, new \in C2, H \ {kid} \subseteq H2, kid \in H => new \in H2,
         \A t \in Seq(Signs) : Leaves(tx, p, n, above \o (below \o t)) /\ (z = n => s = above \o (below \o t))
           => Head(below) # Slash
  PROVE  HasWay(ns2, tx2, p, C2, H2, z, s)
<1>1. PICK D, way : Leads(ns, tx, p, C, H, D, way, z, s)
  BY DEF HasWay
<1>2. /\ D \subseteq DOMAIN ns /\ D \subseteq C /\ way \in [D -> Seq(Signs)]
      /\ 1 \in D /\ way[1] = Trim(p) /\ (z \in D => way[z] = s)
      /\ \A k \in D : /\ Leaves(tx, p, k, way[k])
                      /\ k = z \/ (way[k] = <<>> /\ k \in H) \/ \E j \in D : On(ns, k, way[k], j, way[j])
  BY <1>1 DEF Leads
\* Steps from and to other nodes are as they were.
<1>3. ASSUME NEW k \in D, k # kid, NEW j \in D, j # kid, On(ns, k, way[k], j, way[j])
      PROVE  On(ns2, k, way[k], j, way[j])
  <2>1. ns2[k] = ns[k] /\ ns2[j] = ns[j]
    BY <1>2, <1>3 DEF Halved
  <2> QED BY <2>1, <1>3 DEF On
<1>4. ASSUME NEW k \in D, k # kid PROVE Leaves(tx2, p, k, way[k]) /\ (k \in H => k \in H2)
  <2>1. ns2[k] = ns[k] /\ tx2[k] = tx[k]
    BY <1>2, <1>4 DEF Halved
  <2> QED BY <2>1, <1>2, <1>4 DEF Leaves
\* Only the parent leads to the child.
<1>5. ASSUME NEW k \in D, NEW j, On(ns, k, way[k], kid, j) PROVE k = n
  BY <1>2, <1>5 DEF On, Halved
<1>6. CASE ~(kid \in D /\ n \in D /\ On(ns, n, way[n], kid, way[kid]))
  <2> DEFINE E == D \ {kid}
             w == [k \in E |-> way[k]]
  <2>1. w \in [E -> Seq(Signs)] /\ \A k \in E : k \in D /\ k # kid /\ w[k] = way[k]
    BY <1>2
  <2>2. E \subseteq DOMAIN ns2 /\ E \subseteq C2 /\ 1 \in E /\ w[1] = Trim(p) /\ (z \in E => w[z] = s)
    BY <2>1, <1>2 DEF Halved
  <2> HIDE DEF w
  <2>3. ASSUME NEW k \in E
        PROVE  /\ Leaves(tx2, p, k, w[k])
               /\ k = z \/ (w[k] = <<>> /\ k \in H2) \/ \E j \in E : On(ns2, k, w[k], j, w[j])
    <3>1. k \in D /\ k # kid /\ w[k] = way[k]
      BY <2>1
    <3>2. ASSUME NEW j \in D, On(ns, k, way[k], j, way[j]) PROVE j \in E /\ On(ns2, k, w[k], j, w[j])
      <4>1. j # kid
        BY <3>1, <3>2, <1>5, <1>6
      <4> QED BY <4>1, <3>1, <3>2, <1>3, <2>1
    <3> QED BY <3>1, <3>2, <1>2, <1>4
  <2>4. Leads(ns2, tx2, p, C2, H2, E, w, z, s)
    BY <2>1, <2>2, <2>3 DEF Leads
  <2> QED BY <2>4 DEF HasWay
<1>7. CASE kid \in D /\ n \in D /\ On(ns, n, way[n], kid, way[kid])
  <2>1. PICK t \in Seq(Signs) : way[kid] = Trim(Trim(t)) /\ way[n] = (above \o below) \o t
    BY <1>7, <1>2 DEF On, Halved
  <2> DEFINE u == below \o t
             E == D \cup {new}
             w == [k \in E |-> IF k = new THEN way[kid] ELSE IF k = kid THEN u ELSE way[k]]
  <2>2. way[n] = above \o u /\ u \in Seq(Signs) /\ above \in Seq(Signs) /\ below \in Seq(Signs) /\ below # <<>>
        /\ above # <<>>
    BY <2>1, ConcatAssoc DEF Halved
  <2>3. Head(below) # Slash
    BY <2>2, <1>2, <1>7
  <2>4. Trim(Trim(u)) = u
    <3>1. u # <<>> /\ Head(u) = Head(below)
      BY <2>1, <2>2
    <3> QED BY <3>1, <2>3 DEF Trim
  <2> HIDE DEF u
  <2>5. new \notin D /\ new # kid /\ n # kid
    BY <1>2, <1>7 DEF Halved
  <2>6. /\ w \in [E -> Seq(Signs)] /\ w[new] = way[kid] /\ w[kid] = u
        /\ \A k \in D : k # kid => w[k] = way[k]
    BY <2>2, <2>5, <1>2, <1>7
  <2> HIDE DEF w
  <2>7. E \subseteq DOMAIN ns2 /\ E \subseteq C2 /\ 1 \in E /\ w[1] = Trim(p) /\ (z \in E => w[z] = s)
    BY <2>6, <1>2 DEF Halved
  <2>8. ASSUME NEW k \in E
        PROVE  /\ Leaves(tx2, p, k, w[k])
               /\ k = z \/ (w[k] = <<>> /\ k \in H2) \/ \E j \in E : On(ns2, k, w[k], j, w[j])
    <3>1. CASE k = new
      <4>1. Leaves(tx2, p, new, w[new])
        <5>1. tx2[new] = tx[kid]
          BY DEF Halved
        <5>2. Leaves(tx, p, kid, way[kid])
          BY <1>2, <1>7
        <5> QED BY <5>1, <5>2, <2>6 DEF Leaves
      <4>2. kid \in H => new \in H2
        OBVIOUS
      <4>3. ASSUME NEW j \in D, On(ns, kid, way[kid], j, way[j]) PROVE On(ns2, new, w[new], j, w[j])
        <5>1. j # kid /\ j \in DOMAIN ns
          BY <4>3, <1>2 DEF On, Halved
        <5>2. ns2[j] = ns[j] /\ w[j] = way[j]
          BY <5>1, <2>6 DEF Halved
        <5> QED BY <5>2, <4>3, <2>6 DEF On, Halved
      <4> QED BY <3>1, <4>1, <4>2, <4>3, <1>2, <1>7, <2>6
    <3>2. CASE k = kid
      <4>1. Leaves(tx2, p, kid, u)
        <5>1. PICK q \in Seq(Signs) : p = q \o (above \o u) /\ Letters(q) = tx[n]
          BY <2>2, <1>2, <1>7 DEF Leaves
        <5>2. p = (q \o above) \o u
          BY <5>1, <2>2, ConcatAssoc
        <5>3. Letters(q \o above) = tx2[kid]
          <6>1. Letters(q \o above) = Letters(q) \o Letters(above)
            BY <2>2, LettersConcat
          <6> QED BY <6>1, <5>1 DEF Halved
        <5>4. q \o above \in Seq(Signs)
          BY <2>2
        <5> QED BY <5>2, <5>3, <5>4 DEF Leaves
      <4>2. On(ns2, kid, u, new, way[kid])
        BY <2>1, <2>2 DEF On, Halved, u
      <4> QED BY <3>2, <4>1, <4>2, <2>6
    <3>3. CASE k # new /\ k # kid
      <4>1. k \in D /\ w[k] = way[k]
        BY <3>3, <2>6
      <4>2. ASSUME NEW j \in D, j # kid, On(ns, k, way[k], j, way[j]) PROVE On(ns2, k, w[k], j, w[j])
        BY <4>1, <4>2, <3>3, <1>3, <2>6
      <4>3. ASSUME On(ns, k, way[k], kid, way[kid]) PROVE On(ns2, k, w[k], kid, w[kid])
        <5>1. k = n
          BY <4>1, <4>3, <1>5
        <5>2. kid \in ToSet(ns2[n].kids)
          BY <2>5 DEF Halved
        <5> QED BY <5>1, <5>2, <4>1, <2>2, <2>4, <2>6 DEF On, Halved
      <4> QED BY <4>1, <4>2, <4>3, <3>3, <1>2, <1>4, <1>7
    <3> QED BY <3>1, <3>2, <3>3
  <2>9. Leads(ns2, tx2, p, C2, H2, E, w, z, s)
    BY <2>6, <2>7, <2>8 DEF Leads
  <2> QED BY <2>9 DEF HasWay
<1> QED BY <1>6, <1>7

\* A route that was inserted has a way to its end, and the one at hand a way to
\* the node that insert is at.
WayOf(i) ==
  IF i = begun /\ at # 0 THEN HasWay(nodes, text, Pattern(routes[i]), Clean(i), Holders(i), at, Trim(rest))
                         ELSE HasWay(nodes, text, Pattern(routes[i]), Clean(i), Holders(i), 0, <<>>)

WaysKept == \A i \in 1 .. begun : Fair(i) => WayOf(i)

\* A step of insert keeps the ways of the other routes when no node loses anything.
LEMMA OthersKept ==
  ASSUME WaysKept, UNCHANGED <<routes, begun>>, at # 0, begun \in Nat, Wider(nodes, text, nodes', text'),
         \A i \in 1 .. begun : Clean(i) \subseteq Clean(i)' /\ Holders(i) \subseteq Holders(i)',
         \A i \in 1 .. begun :
           i = begun /\ Fair(i) /\ HasWay(nodes', text', Pattern(routes[i]), Clean(i)', Holders(i)', at, Trim(rest))
             => WayOf(i)'
  PROVE  WaysKept'
<1> SUFFICES ASSUME NEW i \in 1 .. begun, Fair(i) PROVE WayOf(i)'
  BY FairStays DEF WaysKept
<1> DEFINE p == Pattern(routes[i])
           C == Clean(i)
           H == Holders(i)
           C2 == Clean(i)'
           H2 == Holders(i)'
           ns == nodes'
           tx == text'
<1>1. WayOf(i)
  BY DEF WaysKept
<1>2. C \subseteq C2 /\ H \subseteq H2 /\ Wider(nodes, text, ns, tx)
  OBVIOUS
<1>3. CASE i = begun
  <2> DEFINE s == Trim(rest)
             n == at
  <2>1. HasWay(nodes, text, p, C, H, n, s)
    BY <1>1, <1>3 DEF WayOf
  <2> HIDE DEF p, C, H, C2, H2, ns, tx, n, s
  <2>2. HasWay(ns, tx, p, C2, H2, n, s)
    BY <2>1, <1>2, WayStays
  <2> QED BY <2>2, <1>3 DEF p, C2, H2, ns, tx, n, s
<1>4. CASE i # begun
  <2> DEFINE s == <<>>
             n == 0
  <2>1. HasWay(nodes, text, p, C, H, n, s)
    BY <1>1, <1>4 DEF WayOf
  <2> HIDE DEF p, C, H, C2, H2, ns, tx, n, s
  <2>2. HasWay(ns, tx, p, C2, H2, n, s)
    BY <2>1, <1>2, WayStays
  <2> QED BY <2>2, <1>4 DEF WayOf, p, C2, H2, ns, tx, n, s
<1> QED BY <1>3, <1>4

\* buildTree begins a way at the root.
LEMMA BeginWays ==
  ASSUME TreeSpelled, Orderly, RestLeft, OrderKept, WaysKept, Begin, Unwalked
  PROVE  RestLeft' /\ WaysKept'
<1> DEFINE c == begun + 1
           p == Pattern(routes[c])
<1>1. /\ begun' = c /\ at' = 1 /\ rest' = p /\ at = 0 /\ routes' = routes /\ nodes' = nodes /\ text' = text
      /\ c \in DOMAIN routes /\ begun \in Nat
  BY DEF Begin, Unwalked, TreeSpelled, TypeOK
<1>2. p \in Seq(Signs) /\ TypeOK /\ IsTree /\ TextsSpelled
  BY <1>1, RouteLetters DEF TreeSpelled
<1> HIDE DEF p
<1>3. EndsWith(Signs, p, p)
  <2>1. p = <<>> \o p /\ <<>> \in Seq(Signs)
    BY <1>2
  <2> QED BY <2>1 DEF EndsWith
<1>4. RestLeft'
  BY <1>1, <1>3 DEF RestLeft, p
<1>5. ASSUME NEW C, NEW H, 1 \in C PROVE HasWay(nodes, text, p, C, H, 1, Trim(p))
  <2> DEFINE way == [k \in {1} |-> Trim(p)]
             s == Trim(p)
  <2>1. Trim(p) \in Seq(Signs) /\ Letters(p) \in Seq(Alphabet)
    BY <1>2, TrimLetters, LettersOfText
  <2>2. way \in [{1} -> Seq(Signs)] /\ way[1] = s /\ {1} \subseteq DOMAIN nodes /\ 1 \in DOMAIN nodes
    <3>1. 1 \in DOMAIN nodes
      BY <1>2 DEF IsTree, Ids
    <3> HIDE DEF s
    <3> QED BY <2>1, <3>1 DEF s
  <2>3. text[1] \in Seq(Alphabet) /\ text[1] \o Letters(p) = Letters(p)
    <3>1. text[1] = <<>>
      BY <1>2 DEF TextsSpelled
    <3> QED BY <2>1, <3>1
  <2>4. Leaves(text, p, 1, p)
    BY <2>3, <1>2, <1>3, LeavesRest
  <2>5. Leaves(text, p, 1, s)
    BY <2>4, <1>2, LeavesTrim
  <2> HIDE DEF way, s
  <2>6. Leads(nodes, text, p, C, H, {1}, way, 1, s)
    BY <2>2, <2>5, <1>5 DEF Leads, s
  <2> QED BY <2>6 DEF HasWay, s
<1>6. ASSUME NEW i \in 1 .. c, Fair(i) PROVE WayOf(i)'
  <2> DEFINE C == Clean(i)
             H == Holders(i)
             C2 == Clean(i)'
             H2 == Holders(i)'
             pi == Pattern(routes[i])
  <2>1. CASE i = c
    <3>1. 1 \in C2
      <4>1. 1 \in Ids /\ \A n \in Ids : 1 \notin Kids(n)
        BY <1>2 DEF IsTree
      <4>2. \A n \in Ids : \A x \in 1 .. Len(nodes[n].kids) : nodes[n].kids[x] # 1
        BY <4>1, <1>2, NodeFacts DEF Kids, ToSet
      <4>3. Ids' = Ids /\ \A n, x, y : Rivals(n, x, y)' => x \in 1 .. Len(nodes[n].kids)
        BY <1>1 DEF Ids, Rivals
      <4> QED BY <4>1, <4>2, <4>3, <1>1 DEF Clean
    <3> HIDE DEF C2, H2
    <3>2. HasWay(nodes, text, p, C2, H2, 1, Trim(p))
      BY <3>1, <1>5
    <3> QED BY <3>2, <2>1, <1>1 DEF WayOf, p, C2, H2
  <2>2. CASE i # c
    <3>1. i \in 1 .. begun
      BY <2>2, <1>1
    <3>2. WayOf(i)
      BY <3>1, <1>6 DEF WaysKept
    <3> DEFINE n == 0
               s == <<>>
    <3>3. HasWay(nodes, text, pi, C, H, n, s)
      BY <3>2, <1>1 DEF WayOf
    <3>4. C \subseteq C2 /\ H \subseteq H2
      BY <3>1, CleanStays
    <3>5. Wider(nodes, text, nodes, text)
      BY DEF Wider
    <3> HIDE DEF C, H, C2, H2, pi, n, s
    <3>6. HasWay(nodes, text, pi, C2, H2, n, s)
      BY <3>3, <3>4, <3>5, WayStays
    <3> QED BY <3>6, <2>2, <1>1 DEF WayOf, C2, H2, pi, n, s
  <2> QED BY <2>1, <2>2
<1>7. WaysKept'
  <2> SUFFICES ASSUME NEW i \in 1 .. c, Fair(i)' PROVE WayOf(i)'
    BY <1>1 DEF WaysKept
  <2>1. Fair(i)
    BY <1>1, FairStays
  <2> QED BY <2>1, <1>6
<1> QED BY <1>4, <1>7

\* insert ends a way where it sets the handler.
LEMMA HereWays ==
  ASSUME TreeSpelled, Orderly, RestLeft, OrderKept, WaysKept, InsertHere, Unwalked
  PROVE  RestLeft' /\ WaysKept'
<1>1. /\ nodes' = [nodes EXCEPT ![at].handler = begun] /\ text' = text /\ routes' = routes /\ begun' = begun
      /\ at' = 0 /\ at # 0
  BY DEF InsertHere, Unwalked, Inserting, Call
<1>2. at \in Ids /\ begun # 0 /\ begun \in DOMAIN routes /\ begun \in Nat /\ nodes \in Seq(NodeType)
  BY <1>1, Busy DEF TreeSpelled, TypeOK
<1>3. Trim(rest) = <<>>
  <2>1. rest = <<>> \/ rest = <<Slash>>
    BY DEF InsertHere
  <2>2. <<Slash>> # <<>> /\ Head(<<Slash>>) = Slash /\ Tail(<<Slash>>) = <<>>
    OBVIOUS
  <2>3. Trim(<<>>) = <<>> /\ Trim(<<Slash>>) = <<>>
    BY <2>2 DEF Trim
  <2> QED BY <2>1, <2>3
<1>4. DOMAIN nodes' = DOMAIN nodes /\ nodes'[at].handler = begun
      /\ \A k \in DOMAIN nodes : /\ nodes'[k].path = nodes[k].path /\ nodes'[k].hole = nodes[k].hole
                                 /\ nodes'[k].kids = nodes[k].kids /\ nodes'[k].wild = nodes[k].wild
                                 /\ k # at => nodes'[k].handler = nodes[k].handler
  <2> DEFINE up == [nodes[at] EXCEPT !.handler = begun]
  <2>1. at \in 1 .. Len(nodes) /\ DOMAIN nodes = 1 .. Len(nodes) /\ nodes[at] \in NodeType
    BY <1>2 DEF Ids
  <2>2. up \in NodeType /\ up.path = nodes[at].path /\ up.hole = nodes[at].hole /\ up.wild = nodes[at].wild
        /\ up.handler = begun /\ up.kids = nodes[at].kids
    BY <1>2, <2>1 DEF NodeType
  <2>3. nodes' = [nodes EXCEPT ![at] = up]
    BY <1>1
  <2> HIDE DEF up
  <2>4. nodes' \in Seq(NodeType) /\ Len(nodes') = Len(nodes) /\ nodes'[at] = up
        /\ \A k \in 1 .. Len(nodes) : k # at => nodes'[k] = nodes[k]
    BY <1>2, <2>1, <2>2, <2>3
  <2> QED BY <2>1, <2>2, <2>4
<1>5. Wider(nodes, text, nodes', text')
  BY <1>1, <1>2, <1>4 DEF Wider
<1>6. ASSUME NEW i \in 1 .. begun, i = begun, Fair(i),
             HasWay(nodes', text', Pattern(routes[i]), Clean(i)', Holders(i)', at, Trim(rest))
      PROVE  WayOf(i)'
  <2> DEFINE p == Pattern(routes[i])
             ns == nodes'
             tx == text'
             C == Clean(i)'
             H == Holders(i)'
             n == at
             z == 0
             e == <<>>
  <2>1. HasWay(ns, tx, p, C, H, n, <<>>)
    BY <1>3, <1>6
  <2>2. n \in H /\ z \notin DOMAIN ns
    BY <1>2, <1>4, <1>6 DEF Holders, Ids
  <2> HIDE DEF p, ns, tx, C, H, n, z, e
  <2>3. HasWay(ns, tx, p, C, H, z, e)
    BY <2>1, <2>2, WayEnds
  <2> QED BY <2>3, <1>1 DEF WayOf, p, ns, tx, C, H, z, e
<1>7. WaysKept'
  <2>1. \A i \in 1 .. begun : Clean(i) \subseteq Clean(i)' /\ Holders(i) \subseteq Holders(i)'
    BY CleanStays
  <2> QED BY <2>1, <1>1, <1>2, <1>5, <1>6, OthersKept
<1> QED BY <1>1, <1>7 DEF RestLeft

\* The next call of insert, too, has the end of the pattern that its node leaves.
LEMMA NextLeaves ==
  ASSUME TypeOK, TreeSpelled', Orderly', RestLeft', at' # 0, UNCHANGED <<routes, begun>>, begun \in DOMAIN routes
  PROVE  /\ Leaves(text', Pattern(routes[begun]), at', Trim(rest')) /\ Trim(rest') \in Seq(Signs)
         /\ at' \in DOMAIN nodes'
<1> DEFINE p == Pattern(routes[begun])
           tx == text'
           r == rest'
           n == at'
<1>1. p \in Seq(Signs)
  BY RouteLetters
<1>2. EndsWith(Signs, p, r) /\ tx[n] \o Letters(r) = Letters(p)
  BY DEF RestLeft, TreeSpelled, TextsSpelled
<1>3. r \in Seq(Signs) /\ tx[n] \in Seq(Alphabet) /\ n \in DOMAIN nodes'
  BY DEF TreeSpelled, TypeOK, Ids, Alphabet
<1> HIDE DEF p, tx, r, n
<1>4. Leaves(tx, p, n, r)
  BY <1>1, <1>2, <1>3, LeavesRest
<1>5. Leaves(tx, p, n, Trim(r)) /\ Trim(r) \in Seq(Signs)
  BY <1>3, <1>4, LeavesTrim
<1> QED BY <1>3, <1>5 DEF p, tx, r, n

\* insert goes on in the wildcard there is.
LEMMA WildOldWays ==
  ASSUME TreeSpelled, TreeSpelled', Orderly, RestLeft, OrderKept, WaysKept, InsertWild, Unwalked, nodes[at].wild # 0
  PROVE  WaysKept'
<1> DEFINE w == nodes[at].wild
           p == Pattern(routes[begun])
           t == Tail(After)
           hole == Head(After)
           s == Trim(rest)
<1>1. /\ at # 0 /\ begun' = begun /\ routes' = routes /\ nodes' = nodes /\ text' = text /\ at' = w /\ rest' = Trim(t)
      /\ Own = <<>> /\ rest \notin {<<>>, <<Slash>>}
  BY DEF InsertWild, Inserting, Unwalked, Call
<1>2. /\ at \in Ids /\ begun \in DOMAIN routes /\ begun \in Nat /\ rest \in Seq(Signs) /\ text[at] \in Seq(Alphabet)
      /\ TypeOK /\ AfterWalk /\ IsTree /\ TextsSpelled
  BY <1>1, Busy DEF TreeSpelled, TypeOK
<1>3. RestLeft' /\ TextsSpelled' /\ Orderly'
  <2>1. RestLeft'
    BY <1>2, RestStays
  <2>2. Orderly'
    BY <1>1, OrderlyStays
  <2> QED BY <2>1, <2>2 DEF TreeSpelled
<1>4. hole \in Holes /\ t \in Seq(Signs) /\ Letters(rest) = << hole >> \o Letters(Trim(t)) /\ s = << hole >> \o t
  <2>1. hole \in Holes /\ t \in Seq(Signs) /\ Letters(rest) = << hole >> \o Letters(Trim(t))
    BY <1>1, <1>2, RestFacts
  <2>2. s = Own \o After /\ After \in Seq(Signs) /\ s \in Seq(Signs)
    BY <1>2, TrimCutOwn
  <2>3. s = After
    <3>1. Own \o After = After
      BY <1>1, <2>2
    <3> QED BY <2>2, <3>1
  <2>4. After # <<>>
    <3>1. rest # <<>> /\ rest # <<Slash>>
      BY <1>1
    <3>2. Tail(rest) = <<>> => rest = << Head(rest) >>
      BY <3>1, <1>2, Alone
    <3>3. s # <<>>
      BY <3>1, <3>2 DEF Trim
    <3> QED BY <3>3, <2>3
  <2>5. After = << Head(After) >> \o Tail(After)
    BY <2>2, <2>4
  <2> QED BY <2>1, <2>3, <2>5
<1>5. w \in Ids /\ w # 1 /\ w # at /\ w # 0
      /\ \A k \in DOMAIN nodes : k # at => w \notin ToSet(nodes[k].kids) /\ (w # 0 => nodes[k].wild # w)
  BY <1>2, OnlyParent
<1>6. Leaves(text, p, w, Trim(Trim(t))) /\ Trim(Trim(t)) \in Seq(Signs)
  <2>1. at' # 0
    BY <1>1, <1>5
  <2>2. Leaves(text', Pattern(routes[begun]), at', Trim(rest')) /\ Trim(rest') \in Seq(Signs)
    BY <2>1, <1>1, <1>2, <1>3, NextLeaves
  <2> QED BY <2>2, <1>1
\* It stands for the placeholder that is left.
<1>7. nodes[w].hole = hole
  <2>1. text[w] = Append(text[at], nodes[w].hole) /\ nodes[w].hole \in Holes
    BY <1>2, WildIsNew
  <2>2. text[w] \o Letters(Trim(t)) = Letters(p)
    <3>1. at' # 0 => text'[at'] \o Letters(rest') = Letters(Pattern(routes'[begun']))
      BY <1>3 DEF TextsSpelled
    <3> QED BY <3>1, <1>1, <1>5
  <2>3. text[at] \o Letters(rest) = Letters(p)
    BY <1>1, <1>2 DEF TextsSpelled
  <2> DEFINE a == text[at]
             y == nodes[w].hole
             u == Letters(Trim(t))
  <2>4. u \in Seq(Alphabet) /\ y \in Alphabet /\ hole \in Alphabet /\ a \in Seq(Alphabet)
    <3>1. Trim(t) \in Seq(Signs)
      <4> HIDE DEF t
      <4> QED BY <1>4, TrimLetters
    <3>2. Letters(Trim(t)) \in Seq(Alphabet)
      <4> HIDE DEF t
      <4> QED BY <3>1, LettersOfText
    <3> QED BY <3>2, <2>1, <1>2, <1>4, Letterwise
  <2>5. Append(a, y) \o u = a \o (<< hole >> \o u)
    BY <2>1, <2>2, <2>3, <1>4
  <2> HIDE DEF a, y, u, hole
  <2>6. a \o (<< y >> \o u) = Append(a, y) \o u
    BY <2>4, ConcatBegins
  <2> DEFINE yu == << y >> \o u
             hu == << hole >> \o u
  <2>7. yu \in Seq(Alphabet) /\ hu \in Seq(Alphabet) /\ yu[1] = y /\ hu[1] = hole
    BY <2>4
  <2>8. a \o yu = a \o hu
    BY <2>5, <2>6
  <2> HIDE DEF yu, hu
  <2>9. yu = hu
    BY <2>4, <2>7, <2>8, CancelLeft
  <2> QED BY <2>7, <2>9 DEF y
<1>8. On(nodes, at, s, w, Trim(Trim(t)))
  BY <1>4, <1>5, <1>7 DEF On
<1>9. ASSUME NEW i \in 1 .. begun, i = begun, Fair(i),
             HasWay(nodes', text', Pattern(routes[i]), Clean(i)', Holders(i)', at, Trim(rest))
      PROVE  WayOf(i)'
  <2> DEFINE r == Trim(Trim(t))
             ns == nodes
             tx == text
             n == at
             C == Clean(i)'
             H == Holders(i)'
  <2>0. w \in C
    <3> PICK m : m = w
      OBVIOUS
    <3>1. m \in Clean(i)
      BY <1>2, <1>5, StemClean
    <3> QED BY <3>1, CleanStays
  <2>1. HasWay(ns, tx, p, C, H, n, s) /\ On(ns, n, s, w, r) /\ r \in Seq(Signs) /\ Leaves(tx, p, w, r) /\ w \in DOMAIN ns
        /\ w # n /\ w # 1 /\ \A k \in DOMAIN ns : k # n => w \notin ToSet(ns[k].kids) /\ (w # 0 => ns[k].wild # w)
    BY <1>1, <1>5, <1>6, <1>8, <1>9 DEF Ids
  <2> HIDE DEF r, w, ns, tx, n, p, s, C, H
  <2>2. HasWay(ns, tx, p, C, H, w, r)
    BY <2>0, <2>1, WayMoves
  <2> QED BY <2>2, <1>1, <1>5, <1>9 DEF WayOf, r, ns, tx, p, C, H
<1>10. Wider(nodes, text, nodes', text')
  BY <1>1 DEF Wider
<1>11. \A i \in 1 .. begun : Clean(i) \subseteq Clean(i)' /\ Holders(i) \subseteq Holders(i)'
  BY CleanStays
<1> QED BY <1>1, <1>2, <1>9, <1>10, <1>11, OthersKept

\* insert makes the wildcard and goes on in it.
LEMMA WildNewWays ==
  ASSUME TreeSpelled, TreeSpelled', Orderly, RestLeft, OrderKept, WaysKept, InsertWild, Unwalked, nodes[at].wild = 0
  PROVE  WaysKept'
<1> DEFINE new == Len(nodes) + 1
           p == Pattern(routes[begun])
           t == Tail(After)
           hole == Head(After)
           s == Trim(rest)
           leaf == Node(<<>>, hole)
           up == [nodes[at] EXCEPT !.wild = new]
           word == Append(text[at], hole)
<1>1. /\ at # 0 /\ begun' = begun /\ routes' = routes /\ at' = new /\ rest' = Trim(t)
      /\ nodes' = Append([nodes EXCEPT ![at] = up], leaf) /\ text' = Append(text, word)
      /\ Own = <<>> /\ rest \notin {<<>>, <<Slash>>}
  BY DEF InsertWild, Inserting, Unwalked, Call
<1>2. /\ at \in Ids /\ begun \in DOMAIN routes /\ begun \in Nat /\ rest \in Seq(Signs) /\ text[at] \in Seq(Alphabet)
      /\ TypeOK /\ AfterWalk /\ IsTree /\ TextsSpelled
  BY <1>1, Busy DEF TreeSpelled, TypeOK
<1>3. RestLeft' /\ Orderly' /\ IsTree'
  <2>1. RestLeft'
    BY <1>2, RestStays
  <2>2. Orderly'
    BY <1>1, OrderlyStays
  <2> QED BY <2>1, <2>2 DEF TreeSpelled
<1>4. hole \in Holes /\ t \in Seq(Signs) /\ s = << hole >> \o t
  <2>1. hole \in Holes /\ t \in Seq(Signs)
    BY <1>1, <1>2, RestFacts
  <2>2. s = Own \o After /\ After \in Seq(Signs) /\ s \in Seq(Signs)
    BY <1>2, TrimCutOwn
  <2>3. s = After
    <3>1. Own \o After = After
      BY <1>1, <2>2
    <3> QED BY <2>2, <3>1
  <2>4. After # <<>>
    <3>1. rest # <<>> /\ rest # <<Slash>>
      BY <1>1
    <3>2. Tail(rest) = <<>> => rest = << Head(rest) >>
      BY <3>1, <1>2, Alone
    <3>3. s # <<>>
      BY <3>1, <3>2 DEF Trim
    <3> QED BY <3>3, <2>3
  <2>5. After = << Head(After) >> \o Tail(After)
    BY <2>2, <2>4
  <2> QED BY <2>1, <2>3, <2>5
<1>5. nodes \in Seq(NodeType) /\ at \in 1 .. Len(nodes) /\ new \in Nat /\ new > 1 /\ Ids = 1 .. Len(nodes)
      /\ Len(nodes) \in Nat /\ Len(text) = Len(nodes) /\ text \in Seq(Seq(Alphabet))
  <2>1. text \in Seq(Seq(Alphabet))
    BY <1>2 DEF TypeOK, Alphabet
  <2> QED BY <2>1, <1>1, <1>2 DEF TypeOK, Ids
<1>6. nodes[at] \in NodeType /\ leaf \in NodeType /\ up \in NodeType
  <2>1. nodes[at] \in NodeType
    BY <1>5
  <2>2. leaf \in NodeType
    <3>1. <<>> \in Seq(Characters) /\ <<>> \in Seq(Nat) /\ 0 \in Nat
      OBVIOUS
    <3> HIDE DEF hole
    <3> QED BY <1>4, <3>1 DEF Node, NodeType
  <2>3. up \in NodeType
    <3> HIDE DEF new
    <3> QED BY <2>1, <1>5 DEF NodeType
  <2> QED BY <2>1, <2>2, <2>3
<1>7. /\ up.path = nodes[at].path /\ up.hole = nodes[at].hole /\ up.wild = new
      /\ up.handler = nodes[at].handler /\ up.kids = nodes[at].kids
      /\ leaf.hole = hole /\ leaf.kids = <<>> /\ leaf.wild = 0 /\ leaf.handler = 0
  BY <1>6 DEF NodeType, Node
<1> HIDE DEF up, leaf
<1>8. nodes' \in Seq(NodeType) /\ Len(nodes') = new /\ nodes'[at] = up /\ nodes'[new] = leaf
      /\ \A k \in 1 .. Len(nodes) : k # at => nodes'[k] = nodes[k]
  <2>1. Grown(NodeType, nodes', nodes, at, up, leaf)
    BY <1>1, <1>5, <1>6, AppendExcept
  <2> QED BY <2>1 DEF Grown
<1>9. \A k \in 1 .. Len(nodes) : text'[k] = text[k]
  <2>1. word \in Seq(Alphabet)
    <3> HIDE DEF hole
    <3> QED BY <1>2, <1>4, Letterwise
  <2> DEFINE G == Seq(Alphabet)
  <2> HIDE DEF G, word
  <2>2. Longer(G, text', text, word)
    BY <2>1, <1>1, <1>5, AppendItems DEF G
  <2> QED BY <2>2, <1>5 DEF Longer
<1> HIDE DEF new
<1>10. DOMAIN nodes' = DOMAIN nodes \cup {new} /\ DOMAIN nodes = 1 .. Len(nodes) /\ new # 0 /\ new # 1 /\ new # at
       /\ new \notin DOMAIN nodes
  <2>1. DOMAIN nodes' = 1 .. new /\ DOMAIN nodes = 1 .. Len(nodes) /\ new = Len(nodes) + 1
    BY <1>5, <1>8 DEF new
  <2> QED BY <2>1, <1>5
<1>11. Wider(nodes, text, nodes', text')
  <2> SUFFICES ASSUME NEW k \in DOMAIN nodes
               PROVE  /\ text'[k] = text[k] /\ nodes'[k].path = nodes[k].path /\ nodes'[k].hole = nodes[k].hole
                      /\ nodes'[k].kids = nodes[k].kids /\ (nodes[k].wild # 0 => nodes'[k].wild = nodes[k].wild)
                      /\ nodes'[k].handler = nodes[k].handler
    BY <1>10 DEF Wider
  <2>1. CASE k = at
    BY <2>1, <1>7, <1>8, <1>9, <1>10
  <2>2. CASE k # at
    BY <2>2, <1>8, <1>9, <1>10
  <2> QED BY <2>1, <2>2
<1>12. \A k \in DOMAIN nodes' : k # at => new \notin ToSet(nodes'[k].kids) /\ nodes'[k].wild # new
  <2>1. nodes'[at].wild = new /\ at \in Ids'
    BY <1>2, <1>7, <1>8, <1>10 DEF Ids
  <2> QED BY <2>1, <1>3, <1>10 DEF IsTree, Ids, Kids
<1>13. Leaves(text', p, new, Trim(Trim(t))) /\ Trim(Trim(t)) \in Seq(Signs)
  <2>1. at' # 0
    BY <1>1, <1>10
  <2>2. Leaves(text', Pattern(routes[begun]), at', Trim(rest')) /\ Trim(rest') \in Seq(Signs)
    BY <2>1, <1>1, <1>2, <1>3, NextLeaves
  <2> QED BY <2>2, <1>1
<1>14. On(nodes', at, s, new, Trim(Trim(t)))
  <2>1. new # 0 /\ new = nodes'[at].wild /\ nodes'[new].hole = hole
    BY <1>7, <1>8, <1>10
  <2> QED BY <2>1, <1>4 DEF On
<1>15. ASSUME NEW i \in 1 .. begun, i = begun, Fair(i),
             HasWay(nodes', text', Pattern(routes[i]), Clean(i)', Holders(i)', at, Trim(rest))
      PROVE  WayOf(i)'
  <2> DEFINE r == Trim(Trim(t))
             ns == nodes'
             tx == text'
             n == at
             C == Clean(i)'
             H == Holders(i)'
  <2>0. new \in C
    <3>1. Leafed(at, TRUE)
      BY <1>1, <1>2, WildLeafs
    <3>2. Len(nodes) + 1 \in Clean(i)'
      BY <3>1, <1>2, NewClean
    <3> QED BY <3>2 DEF new
  <2>1. HasWay(ns, tx, p, C, H, n, s) /\ On(ns, n, s, new, r) /\ r \in Seq(Signs) /\ Leaves(tx, p, new, r) /\ new \in DOMAIN ns
        /\ new # n /\ new # 1
        /\ \A k \in DOMAIN ns : k # n => new \notin ToSet(ns[k].kids) /\ (new # 0 => ns[k].wild # new)
    BY <1>10, <1>12, <1>13, <1>14, <1>15
  <2>2. at' = new /\ Trim(rest') = r /\ new # 0 /\ begun' = begun /\ routes' = routes
    BY <1>1, <1>10
  <2> HIDE DEF r, ns, tx, n, p, s, C, H
  <2>3. HasWay(ns, tx, p, C, H, new, r)
    BY <2>0, <2>1, WayMoves
  <2> QED BY <2>2, <2>3, <1>15 DEF WayOf, ns, tx, p, C, H
<1>16. \A i \in 1 .. begun : Clean(i) \subseteq Clean(i)' /\ Holders(i) \subseteq Holders(i)'
  BY CleanStays
<1> QED BY <1>1, <1>2, <1>11, <1>15, <1>16, OthersKept

\* A new leaf takes nothing away.
LEMMA AddWider ==
  ASSUME TypeOK, NEW parent \in Ids, NEW path \in Seq(Characters), Added(parent, path), Add(parent, path)
  PROVE  Wider(nodes, text, nodes', text')
<1> DEFINE word == text[parent] \o Letters(path)
           G == Seq(Alphabet)
<1>1. text \in Seq(G) /\ Len(text) = Len(nodes) /\ nodes \in Seq(NodeType)
  BY DEF TypeOK, Alphabet
<1>2. text[parent] \in Seq(Alphabet)
  BY TextType
<1>3. Letters(path) \in Seq(Alphabet)
  BY LettersHoleless
<1>4. word \in G
  <2> DEFINE a == text[parent]
             b == Letters(path)
  <2> HIDE DEF a, b
  <2>1. a \o b \in Seq(Alphabet)
    BY <1>2, <1>3 DEF a, b
  <2> QED BY <2>1 DEF a, b
<1>5. text' = Append(text, word)
  BY DEF Add
<1> HIDE DEF word, G
<1>6. Longer(G, text', text, word)
  BY <1>1, <1>4, <1>5, AppendItems
<1>7. \A k \in DOMAIN nodes : text'[k] = text[k]
  BY <1>1, <1>6 DEF Longer
<1>8. DOMAIN nodes \subseteq DOMAIN nodes'
  BY DEF Added, Ids
<1>9. ASSUME NEW k \in DOMAIN nodes
      PROVE  /\ nodes'[k].path = nodes[k].path /\ nodes'[k].hole = nodes[k].hole
             /\ nodes'[k].wild = nodes[k].wild /\ nodes'[k].handler = nodes[k].handler
             /\ ToSet(nodes[k].kids) \subseteq ToSet(nodes'[k].kids)
  BY DEF Added, Ids, Kids
<1> QED BY <1>7, <1>8, <1>9 DEF Wider

\* The way into a new leaf.
LEMMA IntoLeaf ==
  ASSUME TypeOK, IsTree, IsTree', NEW parent \in Ids, NEW path \in Seq(Characters), path # <<>>, Added(parent, path),
         NEW p, NEW s, NEW tx, NEW C, NEW H, HasWay(nodes', tx, p, C, H, parent, s), NEW t \in Seq(Signs), s = path \o t,
         Len(nodes) + 1 \in C,
         Leaves(tx, p, Len(nodes) + 1, Trim(Trim(t))), Trim(Trim(t)) \in Seq(Signs)
  PROVE  HasWay(nodes', tx, p, C, H, Len(nodes) + 1, Trim(Trim(t)))
<1> DEFINE new == Len(nodes) + 1
           ns == nodes'
           r == Trim(Trim(t))
<1>1. new \in DOMAIN ns /\ new # parent /\ new # 1 /\ new \in ToSet(ns[parent].kids) /\ ns[new].path = path
      /\ parent \in DOMAIN ns /\ ns[parent].wild # new
  <2>1. Ids' = Ids \cup {new} /\ new \notin Ids /\ new > 1 /\ new \in Nat /\ nodes'[new].path = path
        /\ ToSet(nodes'[parent].kids) = Kids(parent) \cup {new} /\ nodes'[parent].wild = nodes[parent].wild
    BY DEF Added
  <2>2. Ids' = DOMAIN ns
    BY DEF Ids
  <2>3. nodes[parent].wild \in {0} \cup Ids
    BY DEF IsTree
  <2> QED BY <2>1, <2>2, <2>3
<1>2. \A k \in DOMAIN ns : k # parent => new \notin ToSet(ns[k].kids) /\ (new # 0 => ns[k].wild # new)
  <2> SUFFICES ASSUME NEW k \in DOMAIN ns, k # parent PROVE new \notin ToSet(ns[k].kids) /\ ns[k].wild # new
    OBVIOUS
  <2>1. \A n, m \in DOMAIN ns : /\ ns[m].wild \notin ToSet(ns[n].kids)
                                /\ n # m => ToSet(ns[n].kids) \cap ToSet(ns[m].kids) = {}
    BY DEF IsTree, Ids, Kids
  <2> QED BY <1>1, <2>1
<1>3. On(ns, parent, s, new, r)
  BY <1>1 DEF On
<1>4. HasWay(ns, tx, p, C, H, parent, s) /\ r \in Seq(Signs) /\ Leaves(tx, p, new, r) /\ new \in C
  OBVIOUS
<1> HIDE DEF new, ns, r
<1>5. HasWay(ns, tx, p, C, H, new, r)
  BY <1>1, <1>2, <1>3, <1>4, WayMoves
<1> QED BY <1>5 DEF new, ns, r

\* insert makes a child and goes on in it.
LEMMA AddChildWays ==
  ASSUME TreeSpelled, TreeSpelled', Orderly, RestLeft, OrderKept, WaysKept, AddChild, Unwalked
  PROVE  WaysKept'
<1> DEFINE new == Len(nodes) + 1
           p == Pattern(routes[begun])
           s == Trim(rest)
           t == After
           path == Own
<1>1. /\ at # 0 /\ begun' = begun /\ routes' = routes /\ at' = new /\ rest' = t /\ path # <<>> /\ Add(at, path)
  BY DEF AddChild, OnText, Inserting, Unwalked, Add, Call
<1>2. /\ at \in Ids /\ begun \in DOMAIN routes /\ begun \in Nat /\ rest \in Seq(Signs)
      /\ TypeOK /\ AfterWalk /\ IsTree /\ TextsSpelled /\ IsTree'
  BY <1>1, Busy DEF TreeSpelled, TypeOK
<1>3. RestLeft' /\ Orderly'
  <2>1. RestLeft'
    BY <1>2, RestStays
  <2>2. Orderly'
    BY <1>1, OrderlyStays
  <2> QED BY <2>1, <2>2
<1>4. path \in Seq(Characters) /\ t \in Seq(Signs) /\ s = path \o t /\ Trim(t) = t /\ Trim(Trim(t)) = t
  <2>1. path \in Seq(Characters) /\ t \in Seq(Signs) /\ s = path \o t /\ (t = <<>> \/ Head(t) \in Holes)
    BY <1>2, TrimCutOwn
  <2>2. Trim(t) = t
    BY <2>1, AfterIsOpen
  <2> QED BY <2>1, <2>2
<1>5. Added(at, path)
  BY <1>1, <1>2, <1>4, AddNodes
<1>6. Wider(nodes, text, nodes', text')
  BY <1>1, <1>2, <1>4, <1>5, AddWider
<1>7. Leaves(text', p, new, t) /\ at' # 0
  <2>1. at' # 0
    BY <1>1, <1>5 DEF Added
  <2>2. Leaves(text', Pattern(routes[begun]), at', Trim(rest'))
    BY <2>1, <1>1, <1>2, <1>3, NextLeaves
  <2> QED BY <2>1, <2>2, <1>1, <1>4
<1>8. ASSUME NEW i \in 1 .. begun, i = begun, Fair(i),
             HasWay(nodes', text', Pattern(routes[i]), Clean(i)', Holders(i)', at, Trim(rest))
      PROVE  WayOf(i)'
  <2> DEFINE tx == text'
             n == at
             C == Clean(i)'
             H == Holders(i)'
  <2>0. Len(nodes) + 1 \in C
    BY <1>2, AddedClean DEF TreeSpelled, OrderKept, Shape
  <2>1. HasWay(nodes', tx, p, C, H, n, s) /\ Leaves(tx, p, Len(nodes) + 1, Trim(Trim(t))) /\ Trim(Trim(t)) \in Seq(Signs)
    BY <1>4, <1>7, <1>8
  <2>2. at' = new /\ Trim(rest') = t /\ begun' = begun /\ routes' = routes /\ n \in Ids /\ Added(n, path)
    BY <1>1, <1>2, <1>4, <1>5
  <2> HIDE DEF tx, n, p, s, t, path, C, H
  <2>3. HasWay(nodes', tx, p, C, H, Len(nodes) + 1, Trim(Trim(t)))
    BY <2>0, <2>1, <2>2, <1>1, <1>2, <1>4, IntoLeaf
  <2>4. HasWay(nodes', tx, p, C, H, new, t)
    BY <2>3, <1>4
  <2> QED BY <2>2, <2>4, <1>7, <1>8 DEF WayOf, tx, p, C, H
<1>9. \A i \in 1 .. begun : Clean(i) \subseteq Clean(i)' /\ Holders(i) \subseteq Holders(i)'
  BY CleanStays
<1> QED BY <1>1, <1>2, <1>6, <1>8, <1>9, OthersKept

\* The way into a child whose path Own uses up.
LEMMA IntoShared ==
  ASSUME TypeOK, IsTree, AfterWalk, TextsSpelled, RestLeft, at # 0, Shares, Shared = Len(nodes[Child].path),
         NEW C, NEW H, HasWay(nodes, text, Pattern(routes[begun]), C, H, at, Trim(rest)), Child \in C
  PROVE  HasWay(nodes, text, Pattern(routes[begun]), C, H, Child, Trim(Left \o After))
<1> DEFINE p == Pattern(routes[begun])
           above == SubSeq(Own, 1, Shared)
           more == Drop(Own, Shared)
           t == more \o After
           s == Trim(rest)
           u == Left \o After
           r == Trim(u)
           m == Child
           n == at
<1>1. n \in Ids /\ rest \in Seq(Signs)
  BY Busy
<1>2. SharedCuts(above, more)
  BY <1>1, SharedCut
<1>3. above # <<>> /\ t \in Seq(Signs) /\ s = above \o t /\ Trim(t) = u /\ nodes[m].path = above
  BY <1>2 DEF SharedCuts
<1>4. m \in Kids(n)
  BY <1>1, ChildFacts
<1>5. Leaves(text, p, m, u) /\ u \in Seq(Signs)
  BY ChildLeaves
<1> HIDE DEF p, above, more, t, s, u, m
<1>6. Leaves(text, p, m, r) /\ r \in Seq(Signs)
  BY <1>5, LeavesTrim
<1>7. On(nodes, n, s, m, r)
  BY <1>3, <1>4 DEF On, Kids
<1>8. /\ m \in DOMAIN nodes /\ m # 1 /\ m # n
      /\ \A k \in DOMAIN nodes : k # n => m \notin ToSet(nodes[k].kids) /\ (m # 0 => nodes[k].wild # m)
  BY <1>1, <1>4, OnlyParent DEF Ids
<1>9. HasWay(nodes, text, p, C, H, n, s) /\ m \in C
  BY DEF p, s, m
<1> HIDE DEF r, n
<1>10. HasWay(nodes, text, p, C, H, m, r)
  BY <1>6, <1>7, <1>8, <1>9, WayMoves
<1> QED BY <1>10 DEF p, m, r, u

\* insert goes on below the child.
LEMMA DescendWays ==
  ASSUME TreeSpelled, Orderly, RestLeft, OrderKept, WaysKept, Descend, Unwalked
  PROVE  WaysKept'
<1>1. /\ at # 0 /\ begun' = begun /\ routes' = routes /\ at' = Child /\ rest' = Left \o After
      /\ nodes' = nodes /\ text' = text /\ Shares /\ Shared = Len(nodes[Child].path)
  BY DEF Descend, OnText, Inserting, Unwalked, Call
<1>2. at \in Ids /\ begun \in Nat /\ TypeOK /\ AfterWalk /\ IsTree /\ TextsSpelled
  BY <1>1, Busy DEF TreeSpelled, TypeOK
<1>3. Child \in Ids /\ Child # 0
  BY <1>1, <1>2, ChildFacts, KidIsNode DEF Ids, TypeOK
<1>4. ASSUME NEW i \in 1 .. begun, i = begun, Fair(i),
             HasWay(nodes', text', Pattern(routes[i]), Clean(i)', Holders(i)', at, Trim(rest))
      PROVE  WayOf(i)'
  <2> DEFINE C == Clean(i)'
             H == Holders(i)'
  <2>0. Child \in C
    <3> PICK m : m = Child
      OBVIOUS
    <3>1. Shape /\ Once /\ Edged /\ Own # <<>>
      BY DEF OrderKept, Shape, Descend, OnText
    <3>2. m \in Clean(i)
      BY <3>1, <1>1, <1>2, ChildClean
    <3> QED BY <3>2, CleanStays
  <2>1. HasWay(nodes, text, Pattern(routes[begun]), C, H, at, Trim(rest))
    BY <1>1, <1>4
  <2> HIDE DEF C, H
  <2>2. HasWay(nodes, text, Pattern(routes[begun]), C, H, Child, Trim(Left \o After))
    BY <2>0, <2>1, <1>1, <1>2, IntoShared
  <2> QED BY <2>2, <1>1, <1>3, <1>4 DEF WayOf, C, H
<1>5. Wider(nodes, text, nodes', text')
  BY <1>1 DEF Wider
<1>6. \A i \in 1 .. begun : Clean(i) \subseteq Clean(i)' /\ Holders(i) \subseteq Holders(i)'
  BY CleanStays
<1> QED BY <1>1, <1>2, <1>4, <1>5, <1>6, OthersKept

\* insert makes a child below the child and goes on in it.
LEMMA AddBelowWays ==
  ASSUME TreeSpelled, TreeSpelled', Orderly, RestLeft, OrderKept, WaysKept, AddBelow, Unwalked
  PROVE  WaysKept'
<1> DEFINE new == Len(nodes) + 1
           p == Pattern(routes[begun])
           t == After
           path == Left
           m == Child
<1>1. /\ at # 0 /\ begun' = begun /\ routes' = routes /\ at' = new /\ rest' = t /\ path # <<>> /\ Add(m, path)
      /\ Shares /\ Shared = Len(nodes[Child].path)
  BY DEF AddBelow, OnText, Inserting, Unwalked, Add, Call
<1>2. /\ at \in Ids /\ begun \in DOMAIN routes /\ begun \in Nat /\ rest \in Seq(Signs)
      /\ TypeOK /\ AfterWalk /\ IsTree /\ TextsSpelled /\ IsTree'
  BY <1>1, Busy DEF TreeSpelled, TypeOK
<1>3. RestLeft' /\ Orderly'
  <2>1. RestLeft'
    BY <1>2, RestStays
  <2>2. Orderly'
    BY <1>1, OrderlyStays
  <2> QED BY <2>1, <2>2
<1>4. t \in Seq(Signs) /\ Trim(t) = t /\ Trim(Trim(t)) = t
  <2>1. t \in Seq(Signs) /\ (t = <<>> \/ Head(t) \in Holes)
    BY <1>2, TrimCutOwn
  <2>2. Trim(t) = t
    BY <2>1, AfterIsOpen
  <2> QED BY <2>1, <2>2
<1>5. m \in Ids /\ path \in Seq(Characters) /\ path \in Seq(Signs)
  <2>1. m \in Ids
    BY <1>1, <1>2, ChildFacts, KidIsNode
  <2>2. path \in Seq(Characters) /\ path \in Seq(Signs)
    BY <1>1, <1>2, SharedCut DEF SharedCuts
  <2> QED BY <2>1, <2>2
<1>6. Added(m, path)
  BY <1>1, <1>2, <1>5, AddNodes
<1>7. Wider(nodes, text, nodes', text')
  BY <1>1, <1>2, <1>5, <1>6, AddWider
<1>8. Leaves(text', p, new, t) /\ at' # 0
  <2>1. at' # 0
    BY <1>1, <1>6 DEF Added
  <2>2. Leaves(text', Pattern(routes[begun]), at', Trim(rest'))
    BY <2>1, <1>1, <1>2, <1>3, NextLeaves
  <2> QED BY <2>1, <2>2, <1>1, <1>4
<1>9. Trim(path \o t) = path \o t
  <2>1. Head(path) # Slash
    BY <1>1, <1>2, LeftIsText
  <2> HIDE DEF path, t
  <2>2. path \o t # <<>> /\ Head(path \o t) = Head(path)
    BY <1>1, <1>4, <1>5
  <2> QED BY <2>1, <2>2 DEF Trim
<1>10. ASSUME NEW i \in 1 .. begun, i = begun, Fair(i), WaysKept PROVE WayOf(i)'
  <2> DEFINE tx == text'
             C == Clean(i)
             H == Holders(i)
             C2 == Clean(i)'
             H2 == Holders(i)'
  <2>1. HasWay(nodes, text, p, C, H, at, Trim(rest))
    <3>1. WayOf(i)
      BY <1>10 DEF WaysKept
    <3> QED BY <3>1, <1>1, <1>10 DEF WayOf
  <2>2. m \in C
    <3> PICK k : k = Child
      OBVIOUS
    <3>1. Once /\ Edged /\ Own # <<>>
      BY DEF OrderKept, Shape, AddBelow, OnText
    <3>2. k \in Clean(i)
      BY <3>1, <1>1, <1>2, ChildClean
    <3> QED BY <3>2
  <2>3. HasWay(nodes, text, p, C, H, m, path \o t)
    <3> HIDE DEF C, H
    <3> QED BY <2>1, <2>2, <1>1, <1>2, <1>9, IntoShared
  <2>4. C \subseteq C2 /\ H \subseteq H2
    BY CleanStays
  <2>5. Len(nodes) + 1 \in C2
    <3>1. Apart(begun)
      BY <1>10 DEF Fair
    <3>2. Len(nodes) + 1 \in Clean(begun)'
      BY <3>1, BelowClean
    <3> QED BY <3>2, <1>1, <1>10
  <2>6. HasWay(nodes', tx, p, C2, H2, m, path \o t)
    <3> DEFINE s == path \o t
               ns == nodes'
    <3>1. HasWay(nodes, text, p, C, H, m, s) /\ Wider(nodes, text, ns, tx)
      BY <2>3, <1>7
    <3> HIDE DEF s, ns, tx, p, m, C, H, C2, H2
    <3>2. HasWay(ns, tx, p, C2, H2, m, s)
      BY <3>1, <2>4, WayStays
    <3> QED BY <3>2 DEF s, ns
  <2>7. Leaves(tx, p, Len(nodes) + 1, Trim(Trim(t))) /\ Trim(Trim(t)) \in Seq(Signs)
    BY <1>4, <1>8
  <2>8. at' = new /\ Trim(rest') = t /\ begun' = begun /\ routes' = routes
    BY <1>1, <1>4
  <2> HIDE DEF tx, p, t, path, m, C, H, C2, H2
  <2>9. HasWay(nodes', tx, p, C2, H2, Len(nodes) + 1, Trim(Trim(t)))
    BY <2>5, <2>6, <2>7, <1>1, <1>2, <1>4, <1>5, <1>6, IntoLeaf
  <2>10. HasWay(nodes', tx, p, C2, H2, new, t)
    BY <2>9, <1>4
  <2> QED BY <2>8, <2>10, <1>8, <1>10 DEF WayOf, tx, p, C2, H2
<1>11. \A i \in 1 .. begun : Clean(i) \subseteq Clean(i)' /\ Holders(i) \subseteq Holders(i)'
  BY CleanStays
<1> QED BY <1>1, <1>2, <1>7, <1>10, <1>11, OthersKept

\* A later route that parts in front of a slash tears an earlier one.
LEMMA SplitTears ==
  ASSUME TypeOK, NEW i \in DOMAIN routes, NEW c \in DOMAIN routes, i < c, Apart(i),
         NEW q \in Seq(Signs), NEW pre \in Seq(Signs), NEW above \in Seq(Characters), above # <<>>, Head(above) # Slash,
         NEW b \in Seq(Signs), NEW v \in Seq(Signs), v = <<>> \/ Head(v) # Slash,
         Pattern(routes[i]) = q \o (above \o (<<Slash>> \o b)), Pattern(routes[c]) = pre \o (above \o v),
         Letters(q) = Letters(pre)
  PROVE  Torn(i)
<1> DEFINE p == Pattern(routes[i])
           p2 == Pattern(routes[c])
           x == Head(above)
           y == Tail(above)
           sb == <<Slash>> \o b
           w == q \o above
<1>1. above \in Seq(Signs) /\ x \in Alphabet /\ y \in Seq(Signs) /\ above = << x >> \o y /\ << x >> \in Seq(Signs)
  <2>1. above \in Seq(Signs) /\ x \in Characters
    BY DEF Signs
  <2>2. y \in Seq(Signs) /\ above = << x >> \o y /\ << x >> \in Seq(Signs)
    BY <2>1 DEF Signs
  <2> QED BY <2>1, <2>2 DEF Alphabet, Signs
<1>2. sb \in Seq(Signs) /\ sb # <<>> /\ sb[1] = Slash /\ Slash \in Signs /\ Len(sb) > 0
  BY SlashIsNoHole DEF Signs
<1>3. p = q \o (above \o sb) /\ p2 = pre \o (above \o v)
  OBVIOUS
<1>4. routes[i] \in ToSet(Files) /\ routes[c] \in ToSet(Files) /\ p \in Seq(Signs) /\ p2 \in Seq(Signs)
  BY RouteFile, RouteLetters
<1> HIDE DEF p, p2, x, y, sb, w
<1> DEFINE e == y \o sb
           f == y \o v
<1>5. e \in Seq(Signs) /\ f \in Seq(Signs) /\ above \o sb = << x >> \o e /\ above \o v = << x >> \o f
  <2> DEFINE o == << x >>
  <2>0. o \in Seq(Signs) /\ y \in Seq(Signs) /\ sb \in Seq(Signs) /\ v \in Seq(Signs)
    BY <1>1, <1>2
  <2> HIDE DEF o
  <2>1. o \o (y \o sb) = (o \o y) \o sb
    BY ONLY <2>0, ConcatAssoc
  <2>2. o \o (y \o v) = (o \o y) \o v
    <3>1. Assoc(Signs, o, y, v)
      BY ONLY <2>0, Associates
    <3> QED BY <3>1 DEF Assoc
  <2>3. y \o sb \in Seq(Signs) /\ y \o v \in Seq(Signs)
    BY ONLY <2>0
  <2>4. above = o \o y
    BY <1>1 DEF o
  <2> QED BY <2>1, <2>2, <2>3, <2>4 DEF o
<1> HIDE DEF e, f
<1>6. p = q \o (<< x >> \o e) /\ p2 = pre \o (<< x >> \o f)
  BY <1>3, <1>5
<1>7. HasPieces(Signs, Pieces(routes[i]), p) /\ HasPieces(Signs, Pieces(routes[c]), p2) /\ q # <<>>
  <2>1. HasPieces(Signs, Pieces(routes[i]), Pattern(routes[i])) /\ q # <<>>
    BY <1>1, <1>4, <1>5, <1>6, LetteredPattern DEF p
  <2>2. HasPieces(Signs, Pieces(routes[c]), Pattern(routes[c]))
    BY <1>1, <1>4, <1>5, <1>6, LetteredPattern DEF p2
  <2> QED BY <2>1, <2>2 DEF p, p2
<1>8. SlashTogether(p, p2) /\ SlashTogether(p2, p)
  <2> DEFINE d == Pieces(routes[i])
             d2 == Pieces(routes[c])
  <2>1. IsPieces(d) /\ IsPieces(d2)
    BY <1>4, PlacePieces
  <2>2. Discernible(d, d2) /\ Discernible(d2, d)
    BY DEF Apart
  <2>3. HasPieces(Signs, d, p) /\ HasPieces(Signs, d2, p2)
    BY <1>7
  <2> HIDE DEF d, d2
  <2> QED BY <2>1, <2>2, <2>3, NotBySlash
<1>9. q = pre
  <2> DEFINE s == p
             t == p2
  <2>1. AtLetter(s, q, x, e) /\ AtLetter(t, pre, x, f) /\ Letters(q) = Letters(pre)
    BY <1>1, <1>5, <1>6 DEF AtLetter
  <2>2. SlashTogether(s, t) /\ SlashTogether(t, s)
    BY <1>8
  <2> HIDE DEF s, t
  <2> QED BY ONLY <2>1, <2>2, SamePlace
<1>10. w \in Seq(Signs) /\ p = w \o sb /\ p2 = w \o v
  <2>0. q \in Seq(Signs) /\ above \in Seq(Signs) /\ sb \in Seq(Signs) /\ v \in Seq(Signs)
    BY <1>1, <1>2
  <2>1. q \o (above \o sb) = (q \o above) \o sb
    BY ONLY <2>0, ConcatAssoc
  <2>2. q \o (above \o v) = (q \o above) \o v
    <3>1. Assoc(Signs, q, above, v)
      BY ONLY <2>0, Associates
    <3> QED BY <3>1 DEF Assoc
  <2>3. q \o above \in Seq(Signs)
    BY ONLY <2>0
  <2> QED BY <2>1, <2>2, <2>3, <1>3, <1>9 DEF w
<1> DEFINE n == Len(w)
           k == n + 1
<1>11. n \in Nat /\ n >= 2 /\ w[n] = above[Len(above)] /\ above[Len(above)] \in Characters
  <2>1. Joins(Signs, w, q, above)
    BY <1>1, ConcatItems DEF w
  <2>2. Len(q) > 0 /\ Len(above) > 0 /\ Len(q) \in Nat /\ Len(above) \in Nat /\ Len(above) \in 1 .. Len(above)
    BY <1>7
  <2> HIDE DEF w
  <2>3. n = Len(q) + Len(above) /\ w[Len(q) + Len(above)] = above[Len(above)]
    BY <2>1, <2>2 DEF Joins
  <2>4. above[Len(above)] \in Characters
    BY <2>2
  <2> QED BY <2>2, <2>3, <2>4
<1> HIDE DEF w
<1>12. Joins(Signs, p, w, sb)
  BY <1>2, <1>10, ConcatItems
<1>13. p[k] = Slash /\ p[k - 1] = w[n] /\ k \in 3 .. Len(p) /\ k - 1 = n
  <2>0. sb # <<>> /\ Len(sb) \in Nat /\ Len(p) = n + Len(sb)
    BY <1>2, <1>12 DEF Joins
  <2>1. 1 \in 1 .. Len(sb) /\ n \in 1 .. n /\ Len(p) = n + Len(sb) /\ Len(sb) \in Nat
    BY <2>0, <1>2, <1>11
  <2> HIDE DEF n
  <2>2. p[n + 1] = sb[1] /\ p[n] = w[n]
    BY <2>1, <1>12 DEF Joins, n
  <2> QED BY <2>1, <2>2, <1>2, <1>11
<1>14. SubSeq(p, 1, k - 1) = w
  <2>1. SubSeq(w \o sb, 1, Len(w)) = w
    BY <1>2, <1>10, FrontOf
  <2> QED BY <2>1, <1>10, <1>13
<1>15. SubSeq(p, 1, k) = w \o <<Slash>>
  <2> DEFINE ws == w \o <<Slash>>
             os == <<Slash>>
  <2>0. os \in Seq(Signs) /\ Len(os) = 1
    BY <1>2
  <2> HIDE DEF os
  <2>1. ws \in Seq(Signs) /\ Len(ws) = k
    <3>1. w \in Seq(Signs)
      BY <1>10
    <3>2. Joins(Signs, w \o os, w, os)
      BY <2>0, <3>1, ConcatItems
    <3> QED BY <3>2, <2>0 DEF os, Joins
  <2>2. p = ws \o b
    <3>0. w \in Seq(Signs) /\ os \in Seq(Signs) /\ b \in Seq(Signs)
      BY <2>0, <1>10
    <3>1. w \o (os \o b) = (w \o os) \o b
      BY ONLY <3>0, ConcatAssoc
    <3> QED BY <3>1, <1>10 DEF os, sb
  <2> HIDE DEF ws, k
  <2>3. SubSeq(ws \o b, 1, Len(ws)) = ws
    BY <2>1, FrontOf
  <2> QED BY <2>1, <2>2, <2>3 DEF ws
<1>16. IsPrefix(w, p2)
  BY <1>10, PrefixOf
<1>17. ~IsPrefix(w \o <<Slash>>, p2)
  <2> DEFINE os == <<Slash>>
             ws == w \o os
             r == Drop(p2, Len(ws))
             sr == os \o r
  <2> SUFFICES ASSUME IsPrefix(ws, p2) PROVE FALSE
    OBVIOUS
  <2>1. os \in Seq(Signs) /\ ws \in Seq(Signs)
    BY <1>2, <1>10
  <2> HIDE DEF ws
  <2>2. p2 = ws \o r /\ r \in Seq(Signs)
    BY <2>1, <1>4, PrefixFacts
  <2> HIDE DEF r
  <2>3. sr \in Seq(Signs) /\ sr # <<>> /\ Head(sr) = Slash
    BY <2>1, <2>2
  <2> HIDE DEF os
  <2>4. w \o v = w \o sr
    <3>0. w \in Seq(Signs) /\ os \in Seq(Signs) /\ r \in Seq(Signs)
      BY <2>1, <2>2, <1>10
    <3>1. w \o (os \o r) = (w \o os) \o r
      BY ONLY <3>0, ConcatAssoc
    <3> QED BY <3>1, <2>2, <1>10 DEF ws
  <2> HIDE DEF sr
  <2>5. v = sr
    BY <2>3, <2>4, <1>10, CancelLeft
  <2> QED BY <2>3, <2>5
<1>18. p[k - 1] \notin Holes /\ c \in i + 1 .. Len(routes)
  <2>1. DOMAIN routes = 1 .. Len(routes) /\ i \in Nat /\ c \in Nat
    <3> DEFINE F == {file \in ToSet(Files) : ~IsPrivate(file)}
    <3>1. routes \in Seq(F)
      BY DEF TypeOK
    <3> HIDE DEF F
    <3>2. DOMAIN routes = 1 .. Len(routes) /\ Len(routes) \in Nat
      BY <3>1
    <3> QED BY <3>2
  <2>2. p[k - 1] \in Characters
    BY <1>11, <1>13
  <2> QED BY <2>1, <2>2, SlashIsNoHole
<1>19. \E kk \in 3 .. Len(p), j \in i + 1 .. Len(routes) :
         /\ p[kk] = Slash /\ p[kk - 1] \notin Holes
         /\ IsPrefix(SubSeq(p, 1, kk - 1), Pattern(routes[j]))
         /\ ~IsPrefix(SubSeq(p, 1, kk), Pattern(routes[j]))
  <2>1. IsPrefix(SubSeq(p, 1, k - 1), Pattern(routes[c])) /\ ~IsPrefix(SubSeq(p, 1, k), Pattern(routes[c]))
    BY <1>14, <1>15, <1>16, <1>17 DEF p2
  <2> HIDE DEF k
  <2> QED BY <2>1, <1>13, <1>18
<1> QED BY <1>19 DEF Torn, p

\* splitChild keeps the ways, of an earlier route unless it tears it.
LEMMA SplitWays ==
  ASSUME TreeSpelled, Orderly, RestLeft, OrderKept, WaysKept, SplitChild, Unwalked
  PROVE  WaysKept'
<1> DEFINE new == Len(nodes) + 1
           kid == Child
           above == SubSeq(Own, 1, Shared)
           below == Drop(nodes[kid].path, Shared)
           v == Drop(Own, Shared) \o After
           p(i) == Pattern(routes[i])
<1>1. at # 0 /\ begun' = begun /\ routes' = routes /\ at' = at /\ rest' = rest /\ Shares /\ Shared < Len(nodes[Child].path)
  BY DEF SplitChild, OnText, Inserting, Unwalked
<1>2. /\ at \in Ids /\ begun \in DOMAIN routes /\ begun \in Nat /\ rest \in Seq(Signs)
      /\ TypeOK /\ AfterWalk /\ IsTree /\ TextsSpelled
  BY <1>1, Busy DEF TreeSpelled, TypeOK
<1>3. Parts(above, below, v)
  BY <1>1, <1>2, SplitParts
<1>4. Halved(nodes, text, nodes', text', at, kid, new, above, below)
  BY <1>1, <1>2, SplitHalves
<1>5. kid \in Ids /\ kid # at /\ 0 # kid /\ 0 # new /\ at # new
  <2>1. kid \in Ids /\ kid # at
    BY <1>1, <1>2, ChildFacts, KidIsNode
  <2> QED BY <2>1, <1>2 DEF Ids, TypeOK
<1>6. /\ above \in Seq(Characters) /\ above \in Seq(Signs) /\ above # <<>>
      /\ below \in Seq(Signs) /\ below # <<>> /\ v \in Seq(Signs) /\ Trim(rest) = above \o v
      /\ v = <<>> \/ Head(v) # Head(below)
  BY <1>3 DEF Parts
<1>7. Leaves(text, p(begun), at, Trim(rest))
  BY <1>1, <1>2, AtCall
<1>8. Head(above) # Slash
  <2>1. Trim(rest) # <<>> => Head(Trim(rest)) # Slash
    BY <1>1, <1>2, OwnIsText
  <2> HIDE DEF above, v
  <2>2. above \o v # <<>> /\ Head(above \o v) = Head(above)
    BY <1>6
  <2> QED BY <2>1, <2>2, <1>6
<1> HIDE DEF above, below, v, kid, new
<1>9. ASSUME NEW t \in Seq(Signs), Trim(rest) = above \o (below \o t) PROVE FALSE
  <2> DEFINE u == below \o t
  <2>1. u \in Seq(Signs) /\ u # <<>> /\ Head(u) = Head(below) /\ above \o v = above \o u
    BY <1>6, <1>9
  <2> HIDE DEF u
  <2>2. v = u
    BY <2>1, <1>6, CancelLeft
  <2> QED BY <2>1, <2>2, <1>6
<1>10. ASSUME NEW i \in 1 .. begun, i # begun, Fair(i), NEW t \in Seq(Signs),
              Leaves(text, p(i), at, above \o (below \o t)), Head(below) = Slash
       PROVE  FALSE
  <2>1. PICK q \in Seq(Signs) : p(i) = q \o (above \o (below \o t)) /\ Letters(q) = text[at]
    BY <1>10 DEF Leaves
  <2>2. PICK pre \in Seq(Signs) : p(begun) = pre \o (above \o v) /\ Letters(pre) = text[at]
    BY <1>6, <1>7 DEF Leaves
  <2> DEFINE y == Tail(below)
             os == <<Slash>>
             b == y \o t
  <2>3. below = os \o y /\ y \in Seq(Signs) /\ os \in Seq(Signs)
    BY <1>6, <1>10
  <2> HIDE DEF y, os
  <2>4. below \o t = os \o b /\ b \in Seq(Signs)
    <3>1. Assoc(Signs, os, y, t)
      BY <2>3, Associates
    <3>2. y \o t \in Seq(Signs)
      BY <2>3
    <3> QED BY <3>1, <3>2, <2>3 DEF Assoc
  <2> HIDE DEF b
  <2>5. Pattern(routes[i]) = q \o (above \o (<<Slash>> \o b))
    BY <2>1, <2>4 DEF os
  <2>6. i \in DOMAIN routes /\ i < begun
    BY <1>2, <1>10 DEF TypeOK
  <2>7. v = <<>> \/ Head(v) # Slash
    BY <1>6, <1>10
  <2>8. Torn(i)
    BY <2>1, <2>2, <2>4, <2>5, <2>6, <2>7, <1>2, <1>6, <1>8, <1>10, SplitTears DEF Fair
  <2> QED BY <2>8, <1>10 DEF Fair
<1>11. ASSUME NEW i \in 1 .. begun, Fair(i) PROVE WayOf(i)'
  <2> DEFINE ns == nodes'
             tx == text'
             pi == p(i)
             C == Clean(i)
             H == Holders(i)
             C2 == Clean(i)'
             H2 == Holders(i)'
  <2>1. WayOf(i)
    BY <1>11 DEF WaysKept
  <2>0. C \subseteq C2 /\ new \in C2 /\ H \ {kid} \subseteq H2 /\ (kid \in H => new \in H2)
    <3>1. SplitFacts
      BY <1>1, <1>2, SplitIs DEF OrderKept, Shape
    <3>2. UNCHANGED <<routes, begun, at>> /\ i \in Nat /\ i > 0
      BY <1>1, <1>2
    <3> QED BY <3>1, <3>2, <1>1, <1>2, SplitClean DEF new, kid
  <2>2. CASE i = begun
    <3> DEFINE s == Trim(rest)
               n == at
    <3>1. HasWay(nodes, text, pi, C, H, n, s)
      BY <2>1, <2>2, <1>1 DEF WayOf
    <3>2. \A t \in Seq(Signs) : Leaves(text, pi, n, above \o (below \o t)) /\ (n = n => s = above \o (below \o t))
            => Head(below) # Slash
      BY <1>9
    <3>3. Halved(nodes, text, ns, tx, n, kid, new, above, below) /\ n # kid /\ n # new
      BY <1>4, <1>5
    <3> HIDE DEF ns, tx, pi, s, n, C, H, C2, H2
    <3>4. HasWay(ns, tx, pi, C2, H2, n, s)
      BY <2>0, <3>1, <3>2, <3>3, WaySplits
    <3> QED BY <3>4, <2>2, <1>1 DEF WayOf, ns, tx, pi, s, n, C2, H2
  <2>3. CASE i # begun
    <3> DEFINE z == 0
               e == <<>>
               n == at
    <3>1. HasWay(nodes, text, pi, C, H, z, e)
      BY <2>1, <2>3, <1>1 DEF WayOf
    <3>2. \A t \in Seq(Signs) : Leaves(text, pi, n, above \o (below \o t)) /\ (z = n => e = above \o (below \o t))
            => Head(below) # Slash
      BY <2>3, <1>10, <1>11
    <3>3. Halved(nodes, text, ns, tx, n, kid, new, above, below) /\ z # kid /\ z # new
      BY <1>4, <1>5
    <3> HIDE DEF ns, tx, pi, z, e, n, C, H, C2, H2
    <3>4. HasWay(ns, tx, pi, C2, H2, z, e)
      BY <2>0, <3>1, <3>2, <3>3, WaySplits
    <3> QED BY <3>4, <2>3, <1>1 DEF WayOf, ns, tx, pi, z, e, C2, H2
  <2> QED BY <2>2, <2>3
<1> QED BY <1>1, <1>11, FairStays DEF WaysKept

\* Every step keeps the ways of the routes.
Ways == RestLeft /\ WaysKept

\* A step that changes nothing of the tree keeps them.
LEMMA SameWays ==
  ASSUME UNCHANGED <<routes, nodes, text, begun, at, rest>>, NEW i PROVE WayOf(i) <=> WayOf(i)'
<1>1. Holders(i)' = Holders(i)
  BY DEF Holders, Ids
<1>2. Ids' = Ids /\ Parted(i, 0) = Parted(i, 0)
  BY DEF Ids
<1>3. \A n, x, y : Rivals(n, x, y)' = Rivals(n, x, y)
  BY DEF Rivals
<1>4. \A n : Parted(i, n)' = Parted(i, n)
  BY DEF Parted, Doubled, HasSign
<1>5. \A n, k : Screened(i, n, k)' = Screened(i, n, k)
  BY <1>2 DEF Screened, Screens, Encloses, Before, Plainly, Kids
<1>6. Clean(i)' = Clean(i)
  BY <1>2, <1>3, <1>4, <1>5 DEF Clean
<1> QED BY <1>1, <1>6 DEF WayOf

\* Ways is inductive, with what is known of the tree.
LEMMA WaysStay ==
  ASSUME TreeSpelled, TreeSpelled', OrderKept, OrderKept', Orderly => Ways, [Next]_vars, Orderly'
  PROVE  Ways'
<1>1. CASE Build
  <2>1. routes' = routes /\ Unwalked
    BY <1>1 DEF Build, Unwalked
  <2>2. Orderly /\ RestLeft /\ WaysKept
    BY <2>1, OrderlyStays DEF Ways
  <2>3. TypeOK /\ IsTree /\ AfterWalk
    BY DEF TreeSpelled
  <2>4. CASE Begin
    BY <2>1, <2>2, <2>4, BeginWays DEF Ways
  <2>5. CASE InsertHere
    BY <2>1, <2>2, <2>5, HereWays DEF Ways
  <2>6. CASE InsertWild
    <3>1. RestLeft'
      BY <2>1, <2>2, <2>3, <2>6, RestStays
    <3>2. WaysKept'
      BY <2>1, <2>2, <2>6, WildOldWays, WildNewWays
    <3> QED BY <3>1, <3>2 DEF Ways
  <2>7. CASE AddChild
    BY <2>1, <2>2, <2>3, <2>7, RestStays, AddChildWays DEF Ways
  <2>8. CASE SplitChild
    BY <2>1, <2>2, <2>3, <2>8, RestStays, SplitWays DEF Ways
  <2>9. CASE Descend
    BY <2>1, <2>2, <2>3, <2>9, RestStays, DescendWays DEF Ways
  <2>10. CASE AddBelow
    BY <2>1, <2>2, <2>3, <2>10, RestStays, AddBelowWays DEF Ways
  <2> QED BY <1>1, <2>4, <2>5, <2>6, <2>7, <2>8, <2>9, <2>10 DEF Build
<1>2. CASE AddRoute \/ AddLayout \/ NoFile
  <2>1. walked < Len(Files) /\ begun' = begun /\ at' = at
    BY <1>2 DEF AddRoute, AddLayout, NoFile, Found, Pass, tree
  <2>2. begun = 0 /\ at = 0
    <3>1. AfterWalk /\ walked \in 0 .. Len(Files)
      BY DEF TreeSpelled, TypeOK
    <3>2. walked # Len(Files)
      <4> DEFINE n == Len(Files)
      <4>1. walked < n /\ walked \in 0 .. n
        BY <2>1, <3>1
      <4> HIDE DEF n
      <4>2. walked # n
        BY <4>1
      <4> QED BY <4>2 DEF n
    <3> QED BY <3>1, <3>2 DEF AfterWalk
  <2>3. RestLeft'
    BY <2>1, <2>2 DEF RestLeft
  <2>4. WaysKept'
    BY <2>1, <2>2 DEF WaysKept
  <2> QED BY <2>3, <2>4 DEF Ways
<1>3. CASE UNCHANGED vars
  <2>1. routes' = routes /\ nodes' = nodes /\ text' = text /\ begun' = begun /\ at' = at /\ rest' = rest
    BY <1>3 DEF vars
  <2>2. Orderly /\ RestLeft /\ WaysKept
    BY <2>1, OrderlyStays DEF Ways
  <2>3. RestLeft'
    BY <2>1, <2>2 DEF RestLeft
  <2>4. WaysKept'
    BY <2>1, <2>2, FairStays, SameWays DEF WaysKept
  <2> QED BY <2>3, <2>4 DEF Ways
<1> QED BY <1>1, <1>2, <1>3 DEF Next

\* At every moment a route that was inserted has its way through the tree.
LEMMA WaysAlways == Spec => [](Orderly => Ways)
<1>1. Init => (Orderly => Ways)
  <2> SUFFICES ASSUME Init PROVE Ways
    OBVIOUS
  <2>1. at = 0 /\ begun = 0
    BY DEF Init
  <2> QED BY <2>1 DEF Ways, RestLeft, WaysKept
<1>2. TreeSpelled /\ TreeSpelled' /\ OrderKept /\ OrderKept' /\ (Orderly => Ways) /\ [Next]_vars => (Orderly => Ways)'
  BY WaysStay
<1>3. OrderKept <=> (Shape /\ Once /\ (Orderly => Forks))
  BY DEF OrderKept
<1> QED BY <1>1, <1>2, <1>3, TreeIsSpelled, TreeIsTight, PTL DEF Spec

-----------------------------------------------------------------------------
(* A pattern and a path side by side                                       *)

\* The tails of a pattern with the pieces d, and those of a path.
Lined(d, A, segs, B) ==
  /\ IsPieces(d) /\ IsSegments(segs) /\ Fits(d, segs)
  /\ \E P : Pieced(Signs, d, P, A)
  /\ \E Q : Pieced(Characters, segs, Q, B)

\* What is left of the pattern and of the path: within a name that both have,
\* between two, or where a placeholder stands for a segment.
Abreast(d, A, segs, B, s, q) ==
  \/ \E j \in 0 .. Len(d), r \in Seq(Letter) :
       s = r \o A[j] /\ q = r \o B[j] /\ (j = Len(d) => Len(segs) = Len(d))
  \/ \E j \in 1 .. Len(d), h \in Holes :
       d[j] = << h >> /\ s = << h >> \o A[j] /\ q = segs[j] \o B[j]

\* What is known of them.
LineFacts(d, A, segs, B) ==
  /\ Len(d) \in Nat /\ Len(segs) \in Nat /\ Len(d) <= Len(segs)
  /\ A[Len(d)] = <<>> /\ B[Len(segs)] = <<>>
  /\ \A j \in 1 .. Len(d) : /\ d[j] \in Seq(Alphabet) /\ (IsPlain(d[j]) \/ IsSign(d[j]))
                            /\ A[j - 1] = <<Slash>> \o (d[j] \o A[j])
  /\ \A j \in 1 .. Len(segs) : /\ segs[j] \in Seq(Letter) /\ segs[j] # <<>>
                               /\ B[j - 1] = <<Slash>> \o (segs[j] \o B[j])
  /\ \A j \in 0 .. Len(d) : A[j] \in Seq(Signs) /\ (A[j] = <<>> \/ Head(A[j]) = Slash)
  /\ \A j \in 0 .. Len(segs) : B[j] \in Seq(Characters) /\ (B[j] = <<>> \/ Head(B[j]) = Slash)

\* The pieces of a pattern and of a path, one by one.
LEMMA LinedFacts == ASSUME NEW d, NEW A, NEW segs, NEW B, Lined(d, A, segs, B) PROVE LineFacts(d, A, segs, B)
<1> DEFINE m == Len(d)
           n == Len(segs)
<1>1. /\ d \in Seq(Seq(Alphabet)) /\ segs \in Seq(Seq(Letter)) /\ m <= n
      /\ (\A j \in 1 .. m : IsPlain(d[j]) \/ IsSign(d[j])) /\ (\A j \in 1 .. n : segs[j] # <<>>)
  BY DEF Lined, IsPieces, IsSegments, Fits
<1>2. PICK P : Pieced(Signs, d, P, A)
  BY DEF Lined
<1>3. PICK Q : Pieced(Characters, segs, Q, B)
  BY DEF Lined
<1>4. /\ A \in [0 .. m -> Seq(Signs)] /\ A[m] = <<>>
      /\ \A j \in 1 .. m : A[j - 1] = <<Slash>> \o (d[j] \o A[j])
  BY <1>2 DEF Pieced
<1>5. /\ B \in [0 .. n -> Seq(Characters)] /\ B[n] = <<>>
      /\ \A j \in 1 .. n : B[j - 1] = <<Slash>> \o (segs[j] \o B[j])
  BY <1>3 DEF Pieced
<1>6. \A j \in 0 .. m : A[j] = <<>> \/ Head(A[j]) = Slash
  <2>1. d \in Seq(Seq(Signs \ {Slash})) /\ Slash \in Signs
    BY <1>1, SlashIsNoHole DEF Alphabet, Signs
  <2> QED BY <2>1, <1>2, BehindPiece
<1>7. \A j \in 0 .. n : B[j] = <<>> \/ Head(B[j]) = Slash
  <2>1. segs \in Seq(Seq(Characters \ {Slash})) /\ Slash \in Characters
    BY <1>1, SlashIsNoHole DEF Letter
  <2> QED BY <2>1, <1>3, BehindPiece
<1>8. \A j \in 1 .. m : d[j] \in Seq(Alphabet)
  <2> DEFINE F == Seq(Alphabet)
  <2>1. d \in Seq(F)
    BY <1>1
  <2> HIDE DEF F
  <2>2. \A j \in 1 .. m : d[j] \in F
    BY <2>1, ItemOf
  <2> QED BY <2>2 DEF F
<1>9. \A j \in 1 .. n : segs[j] \in Seq(Letter)
  <2> DEFINE F == Seq(Letter)
  <2>1. segs \in Seq(F)
    BY <1>1
  <2> HIDE DEF F
  <2>2. \A j \in 1 .. n : segs[j] \in F
    BY <2>1, ItemOf
  <2> QED BY <2>2 DEF F
<1>10. m \in Nat /\ n \in Nat
  BY <1>1
<1>11. /\ \A j \in 0 .. m : A[j] \in Seq(Signs)
       /\ \A j \in 0 .. n : B[j] \in Seq(Characters)
  BY <1>4, <1>5
<1> QED BY <1>1, <1>4, <1>5, <1>6, <1>7, <1>8, <1>9, <1>10, <1>11 DEF LineFacts

\* Both begin with a character of a plain name or with a slash, and go on.
GoesAlong(d, A, segs, B, c, s, q) == \E t \in Seq(Characters) : q = c \o t /\ Abreast(d, A, segs, B, s, t)

\* A character that is next in the pattern is next in the path.
LEMMA AbreastCharacter ==
  ASSUME NEW d, NEW A, NEW segs, NEW B, Lined(d, A, segs, B), NEW x \in Characters, NEW s \in Seq(Signs),
         NEW q \in Seq(Characters), Abreast(d, A, segs, B, << x >> \o s, q)
  PROVE  GoesAlong(d, A, segs, B, << x >>, s, q)
<1> DEFINE m == Len(d)
<1>00. LineFacts(d, A, segs, B)
  BY LinedFacts
<1>0. x \in Signs /\ x \notin Holes /\ Letter \subseteq Characters /\ Letter \subseteq Signs
      /\ Slash \in Characters /\ Slash \in Signs /\ Slash \notin Holes /\ Slash \notin Letter
  BY SignsAssumption, SlashIsNoHole DEF Letter, Signs
<1>1. CASE \E j \in 1 .. m, h \in Holes : d[j] = << h >> /\ << x >> \o s = << h >> \o A[j] /\ q = segs[j] \o B[j]
  <2>1. PICK j \in 1 .. m, h \in Holes : << x >> \o s = << h >> \o A[j]
    BY <1>1
  <2>2. A[j] \in Seq(Signs)
    BY <2>1, <1>00 DEF LineFacts
  <2> DEFINE a == A[j]
  <2> HIDE DEF a
  <2>3. (<< x >> \o s)[1] = x /\ (<< h >> \o a)[1] = h
    BY <2>2 DEF a
  <2> QED BY <2>1, <2>3, <1>0 DEF a
<1>2. CASE \E j \in 0 .. m, r \in Seq(Letter) :
             << x >> \o s = r \o A[j] /\ q = r \o B[j] /\ (j = m => Len(segs) = m)
  <2>1. PICK j \in 0 .. m, r \in Seq(Letter) :
             << x >> \o s = r \o A[j] /\ q = r \o B[j] /\ (j = m => Len(segs) = m)
    BY <1>2
  <2>2. A[j] \in Seq(Signs) /\ B[j] \in Seq(Characters) /\ m \in Nat
    BY <2>1, <1>00 DEF LineFacts
  <2>3. CASE r # <<>>
    <3> DEFINE u == Tail(r)
               a == A[j]
               b == B[j]
    <3>1. r \in Seq(Signs) /\ r \in Seq(Characters) /\ a \in Seq(Signs) /\ b \in Seq(Characters)
      BY <2>2, <1>0
    <3> HIDE DEF a, b
    <3>2. << x >> \o s = r \o a /\ q = r \o b
      BY <2>1 DEF a, b
    <3>3. (r \o a)[1] = Head(r) /\ (<< x >> \o s)[1] = x
      BY <3>1, <2>3
    <3>4. u \in Seq(Letter) /\ r = << x >> \o u
      BY <3>2, <3>3, <2>3
    <3> HIDE DEF u
    <3>5. u \in Seq(Signs) /\ u \in Seq(Characters) /\ << x >> \in Seq(Signs) /\ << x >> \in Seq(Characters)
      BY <3>4, <1>0
    <3>6. r \o a = << x >> \o (u \o a) /\ r \o b = << x >> \o (u \o b)
      <4>1. Assoc(Signs, << x >>, u, a) /\ Assoc(Characters, << x >>, u, b)
        BY <3>1, <3>5, Associates
      <4> QED BY <4>1, <3>4 DEF Assoc
    <3>7. u \o a \in Seq(Signs) /\ u \o b \in Seq(Characters)
      BY <3>1, <3>5
    <3>8. s = u \o a
      <4> DEFINE ua == u \o a
      <4> HIDE DEF ua
      <4> QED BY <3>2, <3>5, <3>6, <3>7, CancelLeft DEF ua
    <3>9. Abreast(d, A, segs, B, s, u \o b)
      BY <3>4, <3>8, <2>1 DEF Abreast, a, b
    <3> QED BY <3>2, <3>6, <3>7, <3>9 DEF GoesAlong
  <2>4. CASE r = <<>>
    <3>1. << x >> \o s = A[j] /\ q = B[j]
      BY <2>1, <2>2, <2>4
    <3>2. j # m
      <4>1. << x >> \o s # <<>>
        OBVIOUS
      <4>2. A[m] = <<>>
        BY <1>00 DEF LineFacts
      <4> QED BY <3>1, <4>1, <4>2
    <3> DEFINE k == j + 1
               e == d[k]
               g == segs[k]
               a == A[k]
               b == B[k]
    <3>3. k \in 1 .. m /\ k \in 1 .. Len(segs) /\ k - 1 = j /\ k \in 0 .. m /\ k \in 0 .. Len(segs)
      BY <2>1, <2>2, <3>2, <1>00 DEF LineFacts
    <3> HIDE DEF k
    <3>4. A[j] = <<Slash>> \o (e \o a) /\ B[j] = <<Slash>> \o (g \o b)
      BY <3>3, <1>00 DEF LineFacts
    <3>5. e \in Seq(Alphabet) /\ (IsPlain(e) \/ IsSign(e)) /\ g \in Seq(Letter) /\ g # <<>>
          /\ a \in Seq(Signs) /\ b \in Seq(Characters)
      BY <3>3, <1>00 DEF LineFacts
    <3>6. e \in Seq(Signs) /\ g \in Seq(Characters)
      BY <3>5, <1>0 DEF Alphabet
    <3> HIDE DEF e, g, a, b
    <3> DEFINE ea == e \o a
               gb == g \o b
    <3>7. ea \in Seq(Signs) /\ gb \in Seq(Characters)
      BY <3>5, <3>6
    <3> HIDE DEF ea, gb
    <3>8. x = Slash /\ s = ea
      <4>1. << x >> \o s = <<Slash>> \o ea
        BY <3>1, <3>4 DEF ea
      <4>2. (<< x >> \o s)[1] = x /\ (<<Slash>> \o ea)[1] = Slash
        BY <3>7
      <4>3. Tail(<< x >> \o s) = s /\ Tail(<<Slash>> \o ea) = ea
        BY <3>7
      <4> QED BY <4>1, <4>2, <4>3
    <3>9. q = << x >> \o gb
      BY <3>1, <3>4, <3>8 DEF gb
    <3>10. Abreast(d, A, segs, B, s, gb)
      <4>1. CASE IsPlain(e)
        <5>1. e = g /\ e \in Seq(Letter)
          <6>1. \A i \in 1 .. Len(d) : IsPlain(d[i]) => d[i] = segs[i]
            BY DEF Lined, Fits
          <6> QED BY <6>1, <4>1, <3>3 DEF e, g, IsPlain
        <5>2. k = m => Len(segs) = m
          <6> SUFFICES ASSUME k = m, IsOpen(d[m]) PROVE FALSE
            BY DEF Lined, Fits
          <6>1. IsSign(e)
            BY DEF IsOpen, IsSign, e
          <6> QED BY <6>1, <4>1, SignIsNotPlain
        <5>3. s = e \o A[k] /\ gb = e \o B[k]
          BY <5>1, <3>8 DEF ea, gb, a, b
        <5> QED BY <5>1, <5>2, <5>3, <3>3 DEF Abreast
      <4>2. CASE IsSign(e)
        <5>1. PICK h \in Holes : e = << h >>
          BY <4>2 DEF IsSign
        <5>2. d[k] = << h >> /\ s = << h >> \o A[k] /\ gb = segs[k] \o B[k]
          BY <5>1, <3>8 DEF e, ea, gb, g, a, b
        <5> QED BY <5>2, <3>3 DEF Abreast
      <4> QED BY <4>1, <4>2, <3>5
    <3> QED BY <3>7, <3>9, <3>10 DEF GoesAlong
  <2> QED BY <2>3, <2>4
<1> QED BY <1>1, <1>2 DEF Abreast

\* So they do with several characters.
LEMMA AbreastPath ==
  ASSUME NEW d, NEW A, NEW segs, NEW B, Lined(d, A, segs, B), NEW c \in Seq(Characters), NEW s \in Seq(Signs),
         NEW q \in Seq(Characters), Abreast(d, A, segs, B, c \o s, q)
  PROVE  GoesAlong(d, A, segs, B, c, s, q)
<1> DEFINE T == {n \in Nat : \A e \in Seq(Characters), t \in Seq(Characters) :
                   Len(e) = n /\ Abreast(d, A, segs, B, e \o s, t) => GoesAlong(d, A, segs, B, e, s, t)}
<1>1. 0 \in T
  <2> SUFFICES ASSUME NEW e \in Seq(Characters), NEW t \in Seq(Characters), Len(e) = 0,
                      Abreast(d, A, segs, B, e \o s, t)
               PROVE  GoesAlong(d, A, segs, B, e, s, t)
    OBVIOUS
  <2>1. e = <<>> /\ <<>> \o s = s /\ <<>> \o t = t
    OBVIOUS
  <2> QED BY <2>1 DEF GoesAlong
<1>2. ASSUME NEW n \in Nat, n \in T PROVE n + 1 \in T
  <2> SUFFICES ASSUME NEW e \in Seq(Characters), NEW t \in Seq(Characters), Len(e) = n + 1,
                      Abreast(d, A, segs, B, e \o s, t)
               PROVE  GoesAlong(d, A, segs, B, e, s, t)
    OBVIOUS
  <2> DEFINE x == Head(e)
             f == Tail(e)
             o == << x >>
  <2>1. x \in Characters /\ f \in Seq(Characters) /\ Len(f) = n /\ e = o \o f
    OBVIOUS
  <2> HIDE DEF x, f
  <2>2. f \in Seq(Signs) /\ o \in Seq(Signs) /\ o \in Seq(Characters)
    BY <2>1 DEF Signs
  <2>3. e \o s = o \o (f \o s)
    <3>1. Assoc(Signs, o, f, s)
      BY <2>2, Associates
    <3> QED BY <3>1, <2>1 DEF Assoc
  <2> DEFINE fs == f \o s
  <2>4. fs \in Seq(Signs)
    BY <2>2
  <2> HIDE DEF fs
  <2>5. GoesAlong(d, A, segs, B, o, fs, t)
    <3>1. Abreast(d, A, segs, B, o \o fs, t)
      BY <2>3 DEF fs
    <3> QED BY <3>1, <2>1, <2>4, AbreastCharacter
  <2> HIDE DEF o
  <2>6. PICK u \in Seq(Characters) : t = o \o u /\ Abreast(d, A, segs, B, fs, u)
    BY <2>5 DEF GoesAlong
  <2>7. GoesAlong(d, A, segs, B, f, s, u)
    BY <2>6, <2>1, <1>2 DEF fs
  <2>8. PICK v \in Seq(Characters) : u = f \o v /\ Abreast(d, A, segs, B, s, v)
    BY <2>7 DEF GoesAlong
  <2>9. t = e \o v
    <3>1. Assoc(Characters, o, f, v)
      BY <2>1, <2>2, Associates
    <3> QED BY <3>1, <2>1, <2>6, <2>8 DEF Assoc
  <2> QED BY <2>8, <2>9 DEF GoesAlong
<1>3. T = Nat
  <2>1. T \in SUBSET Nat
    OBVIOUS
  <2> HIDE DEF T
  <2> QED BY <2>1, <1>1, <1>2, Induction
<1>4. Len(c) \in T
  <2> HIDE DEF T
  <2> QED BY <1>3
<1> QED BY <1>4

\* A slash is stripped from both or from neither.
LEMMA AbreastTrim ==
  ASSUME NEW d, NEW A, NEW segs, NEW B, Lined(d, A, segs, B), NEW s \in Seq(Signs),
         NEW q \in Seq(Characters), Abreast(d, A, segs, B, s, q)
  PROVE  Abreast(d, A, segs, B, Trim(s), Trim(q)) /\ Trim(s) \in Seq(Signs) /\ Trim(q) \in Seq(Characters)
<1>00. LineFacts(d, A, segs, B)
  BY LinedFacts
<1>0. Slash \in Characters /\ Slash \in Signs /\ Slash \notin Holes /\ Slash \notin Letter
  BY SignsAssumption, SlashIsNoHole DEF Letter, Signs
<1>1. Trim(s) \in Seq(Signs) /\ Trim(q) \in Seq(Characters)
  BY TrimEnds
<1>2. CASE s # <<>> /\ Head(s) = Slash
  <2> DEFINE t == Tail(s)
  <2>1. t \in Seq(Signs) /\ s = <<Slash>> \o t
    BY <1>2
  <2> HIDE DEF t
  <2>2. GoesAlong(d, A, segs, B, <<Slash>>, t, q)
    BY <2>1, <1>0, AbreastCharacter
  <2>3. PICK u \in Seq(Characters) : q = <<Slash>> \o u /\ Abreast(d, A, segs, B, t, u)
    BY <2>2 DEF GoesAlong
  <2>4. Trim(s) = t /\ Trim(q) = u
    <3>1. q # <<>> /\ Head(q) = Slash /\ Tail(q) = u
      BY <2>3
    <3> QED BY <3>1, <1>2 DEF Trim, t
  <2> QED BY <2>3, <2>4, <1>1
<1>3. CASE ~(s # <<>> /\ Head(s) = Slash)
  <2>1. Trim(s) = s
    BY <1>3 DEF Trim
  <2>2. ~(q # <<>> /\ Head(q) = Slash)
    <3>1. CASE \E j \in 0 .. Len(d), r \in Seq(Letter) :
                 s = r \o A[j] /\ q = r \o B[j] /\ (j = Len(d) => Len(segs) = Len(d))
      <4>1. PICK j \in 0 .. Len(d), r \in Seq(Letter) :
                 s = r \o A[j] /\ q = r \o B[j] /\ (j = Len(d) => Len(segs) = Len(d))
        BY <3>1
      <4> DEFINE a == A[j]
                 b == B[j]
      <4>2. j \in 0 .. Len(segs)
        BY <4>1, <1>00 DEF LineFacts
      <4>3. a \in Seq(Signs) /\ b \in Seq(Characters) /\ (a = <<>> \/ Head(a) = Slash)
        BY <4>1, <4>2, <1>00 DEF LineFacts
      <4>4. CASE r # <<>>
        <5> HIDE DEF b
        <5>1. Head(r) \in Letter
          BY <4>4
        <5>2. Head(r \o b) = Head(r)
          BY <4>3, <4>4
        <5> QED BY <4>1, <5>1, <5>2, <1>0 DEF b
      <4>5. CASE r = <<>>
        <5>1. s = a /\ q = b
          BY <4>1, <4>3, <4>5
        <5>2. a = <<>>
          BY <5>1, <4>3, <1>3
        <5>3. j = Len(d)
          <6> SUFFICES ASSUME j # Len(d) PROVE FALSE
            OBVIOUS
          <6> DEFINE k == j + 1
                     e == d[k]
                     z == A[k]
          <6>1. k \in 1 .. Len(d) /\ k \in 0 .. Len(d) /\ k - 1 = j
            BY <1>00, <4>1 DEF LineFacts
          <6> HIDE DEF k
          <6>2. a = <<Slash>> \o (e \o z) /\ e \in Seq(Alphabet) /\ z \in Seq(Signs)
            BY <6>1, <1>00 DEF LineFacts
          <6> HIDE DEF e, z, a
          <6>3. e \o z \in Seq(Signs)
            BY <6>2 DEF Alphabet
          <6> DEFINE y == e \o z
          <6> HIDE DEF y
          <6>4. <<Slash>> \o y # <<>>
            BY <6>3 DEF y
          <6> QED BY <6>4, <6>2, <5>2 DEF y
        <5>4. b = <<>>
          BY <5>3, <4>1, <1>00 DEF LineFacts
        <5> QED BY <5>1, <5>4
      <4> QED BY <4>4, <4>5
    <3>2. CASE \E j \in 1 .. Len(d), h \in Holes : d[j] = << h >> /\ s = << h >> \o A[j] /\ q = segs[j] \o B[j]
      <4>1. PICK j \in 1 .. Len(d) : q = segs[j] \o B[j]
        BY <3>2
      <4> DEFINE g == segs[j]
                 b == B[j]
      <4>2. j \in 1 .. Len(segs) /\ j \in 0 .. Len(segs)
        BY <4>1, <1>00 DEF LineFacts
      <4>3. g \in Seq(Letter) /\ g # <<>> /\ b \in Seq(Characters)
        BY <4>2, <1>00 DEF LineFacts
      <4> HIDE DEF g, b
      <4>4. Head(g \o b) = Head(g) /\ Head(g) \in Letter
        BY <4>3
      <4> QED BY <4>1, <4>4, <1>0 DEF g, b
    <3> QED BY <3>1, <3>2 DEF Abreast
  <2>3. Trim(q) = q
    BY <2>2 DEF Trim
  <2> QED BY <2>1, <2>3, <1>1
<1> QED BY <1>2, <1>3

\* A placeholder that is not the rest takes the segment; what is behind its
\* slash goes on.
TakesSegment(d, A, segs, B, s, q) ==
  /\ q # <<>> /\ Segment(q) # <<>>
  /\ Abreast(d, A, segs, B, Trim(Trim(s)), Trim(Drop(q, Len(Segment(q)) + 1)))
  /\ Trim(Drop(q, Len(Segment(q)) + 1)) \in Seq(Characters)

\* What a segment leaves of the path.
LEMMA BehindSegment ==
  ASSUME NEW v \in Seq(Letter), v # <<>>, NEW c \in Seq(Characters), c = <<>> \/ Head(c) = Slash
  PROVE  Segment(v \o c) = v /\ Drop(v \o c, Len(v) + 1) = Trim(c)
<1>1. Segment(v \o c) = v
  BY SegmentIs
<1>2. Len(v) \in Nat /\ Len(c) \in Nat /\ v \in Seq(Characters)
  BY DEF Letter
<1> DEFINE w == v \o c
           n == Len(v) + 1
           e == Drop(w, n)
<1>3. w \in Seq(Characters) /\ Len(w) = Len(v) + Len(c) /\ \A i \in 1 .. Len(c) : w[Len(v) + i] = c[i]
  BY <1>2
<1> HIDE DEF w
<1>4. CASE c = <<>>
  <2>1. Drop(w, n) = <<>>
    BY <1>2, <1>3, <1>4 DEF Drop
  <2> QED BY <2>1, <1>1, <1>4 DEF Trim, w
<1>5. CASE c # <<>>
  <2>1. Trim(c) = Tail(c) /\ Tail(c) \in Seq(Characters) /\ Len(Tail(c)) = Len(c) - 1
        /\ \A i \in 1 .. Len(c) - 1 : Tail(c)[i] = c[i + 1]
    BY <1>5 DEF Trim
  <2>2. n \in 0 .. Len(w)
    BY <1>2, <1>3, <1>5
  <2>3. IsCut(Characters, w, n, SubSeq(w, 1, n), Drop(w, n))
    BY <2>2, <1>3, Cut
  <2>4. e \in Seq(Characters) /\ Len(e) = Len(w) - n
    BY <2>3 DEF IsCut
  <2>5. \A i \in 1 .. Len(w) - n : e[i] = w[n + i]
    BY <2>2, <1>3 DEF Drop
  <2> HIDE DEF e
  <2>6. Len(e) = Len(c) - 1
    BY <2>4, <1>2, <1>3
  <2>7. \A i \in 1 .. Len(c) - 1 : e[i] = c[i + 1]
    <3> SUFFICES ASSUME NEW i \in 1 .. Len(c) - 1 PROVE e[i] = c[i + 1]
      OBVIOUS
    <3>1. i + 1 \in 1 .. Len(c) /\ n + i = Len(v) + (i + 1) /\ i \in 1 .. Len(w) - n
      BY <1>2, <1>3
    <3> QED BY <3>1, <2>5, <1>3
  <2> DEFINE f == Tail(c)
  <2>8. f \in Seq(Characters) /\ Len(e) = Len(f) /\ \A i \in 1 .. Len(e) : e[i] = f[i]
    BY <2>1, <2>6, <2>7
  <2> HIDE DEF f
  <2>9. e = f
    BY <2>4, <2>8, SameItems
  <2> QED BY <2>9, <2>1, <1>1 DEF e, f, w
<1> QED BY <1>4, <1>5

\* A placeholder that is next in the pattern has a segment of the path.
LEMMA AbreastHole ==
  ASSUME NEW d, NEW A, NEW segs, NEW B, Lined(d, A, segs, B), NEW h \in Holes, NEW s \in Seq(Signs),
         NEW q \in Seq(Characters), Abreast(d, A, segs, B, << h >> \o s, q)
  PROVE  q # <<>> /\ Head(q) # Slash /\ (h \notin CatchAlls => TakesSegment(d, A, segs, B, s, q))
<1>00. LineFacts(d, A, segs, B)
  BY LinedFacts
<1>0. Slash \notin Letter /\ h # Slash /\ h \notin Letter /\ h \in Signs
  BY SignsAssumption, SlashIsNoHole DEF Letter, Signs
<1>1. ~\E j \in 0 .. Len(d), r \in Seq(Letter) :
                 << h >> \o s = r \o A[j] /\ q = r \o B[j] /\ (j = Len(d) => Len(segs) = Len(d))
  <2> SUFFICES ASSUME NEW j \in 0 .. Len(d), NEW r \in Seq(Letter), << h >> \o s = r \o A[j] PROVE FALSE
    OBVIOUS
  <2> DEFINE a == A[j]
  <2>1. a \in Seq(Signs) /\ (a = <<>> \/ Head(a) = Slash)
    BY <1>00 DEF LineFacts
  <2> HIDE DEF a
  <2>2. << h >> \o s = r \o a
    BY DEF a
  <2>3. << h >> \o s # <<>> /\ Head(<< h >> \o s) = h
    OBVIOUS
  <2>4. r = <<>> => r \o a = a
    BY <2>1
  <2>5. r # <<>> => Head(r \o a) = Head(r) /\ Head(r) \in Letter
    BY <2>1
  <2> QED BY <2>1, <2>2, <2>3, <2>4, <2>5, <1>0
<1>2. PICK j \in 1 .. Len(d), x \in Holes :
        d[j] = << x >> /\ << h >> \o s = << x >> \o A[j] /\ q = segs[j] \o B[j]
  BY <1>1 DEF Abreast
<1> DEFINE a == A[j]
           b == B[j]
           g == segs[j]
<1>3. j \in 0 .. Len(d) /\ j \in 1 .. Len(segs) /\ j \in 0 .. Len(segs)
  BY <1>2, <1>00 DEF LineFacts
<1>4. a \in Seq(Signs) /\ b \in Seq(Characters) /\ (b = <<>> \/ Head(b) = Slash)
      /\ g \in Seq(Letter) /\ g # <<>>
  BY <1>3, <1>00 DEF LineFacts
<1>5. << h >> \o s = << x >> \o a /\ q = g \o b /\ d[j] = << x >>
  BY <1>2
<1> HIDE DEF a, b, g
<1>6. x = h /\ s = a
  <2>1. (<< h >> \o s)[1] = h /\ Tail(<< h >> \o s) = s
    OBVIOUS
  <2>2. (<< x >> \o a)[1] = x /\ Tail(<< x >> \o a) = a
    BY <1>4
  <2> QED BY <2>1, <2>2, <1>5
<1>7. q # <<>> /\ Head(q) # Slash
  <2>1. Len(g \o b) = Len(g) + Len(b) /\ Len(g) > 0 /\ Len(b) >= 0
    BY <1>4
  <2>2. Head(g \o b) = Head(g) /\ Head(g) \in Letter
    BY <1>4
  <2> QED BY <2>1, <2>2, <1>0, <1>5
<1>8. ASSUME h \notin CatchAlls PROVE TakesSegment(d, A, segs, B, s, q)
  <2>1. Segment(q) = g /\ Drop(q, Len(g) + 1) = Trim(b)
    BY <1>4, <1>5, BehindSegment
  <2>2. Abreast(d, A, segs, B, a, b)
    <3>1. j = Len(d) => Len(segs) = Len(d)
      <4> SUFFICES ASSUME j = Len(d), IsOpen(d[Len(d)]) PROVE FALSE
        BY DEF Lined, Fits
      <4>1. PICK y \in Holes \cap CatchAlls : d[j] = << y >>
        BY DEF IsOpen
      <4>2. << y >>[1] = y /\ << x >>[1] = x
        OBVIOUS
      <4> QED BY <4>1, <4>2, <1>5, <1>6, <1>8
    <3>2. <<>> \in Seq(Letter) /\ <<>> \o a = a /\ <<>> \o b = b
      BY <1>4
    <3> DEFINE r == <<>>
    <3>3. r \in Seq(Letter) /\ a = r \o A[j] /\ b = r \o B[j]
      BY <3>2 DEF a, b
    <3> HIDE DEF r
    <3> QED BY <3>1, <3>3, <1>3 DEF Abreast
  <2>3. Abreast(d, A, segs, B, Trim(a), Trim(b)) /\ Trim(a) \in Seq(Signs) /\ Trim(b) \in Seq(Characters)
    BY <2>2, <1>4, AbreastTrim
  <2> DEFINE ta == Trim(a)
             tb == Trim(b)
  <2> HIDE DEF ta, tb
  <2>4. Abreast(d, A, segs, B, Trim(ta), Trim(tb)) /\ Trim(tb) \in Seq(Characters)
    BY <2>3, AbreastTrim DEF ta, tb
  <2> QED BY <2>1, <2>4, <1>4, <1>6, <1>7 DEF TakesSegment, ta, tb
<1> QED BY <1>7, <1>8

\* Where the pattern ends the path does.
LEMMA AbreastEnd ==
  ASSUME NEW d, NEW A, NEW segs, NEW B, Lined(d, A, segs, B), NEW q \in Seq(Characters),
         Abreast(d, A, segs, B, <<>>, q)
  PROVE  q = <<>>
<1>00. LineFacts(d, A, segs, B)
  BY LinedFacts
<1>1. ASSUME NEW j \in 1 .. Len(d), NEW h \in Holes, <<>> = << h >> \o A[j] PROVE FALSE
  <2> DEFINE a == A[j]
  <2>1. a \in Seq(Signs)
    BY <1>00 DEF LineFacts
  <2> HIDE DEF a
  <2>2. << h >> \o a # <<>>
    BY <2>1
  <2> QED BY <2>2, <1>1 DEF a
<1>2. PICK j \in 0 .. Len(d), r \in Seq(Letter) :
        <<>> = r \o A[j] /\ q = r \o B[j] /\ (j = Len(d) => Len(segs) = Len(d))
  BY <1>1 DEF Abreast
<1> DEFINE a == A[j]
           b == B[j]
<1>3. j \in 0 .. Len(segs) /\ a \in Seq(Signs) /\ b \in Seq(Characters)
  <2>1. j \in 0 .. Len(segs)
    BY <1>2, <1>00 DEF LineFacts
  <2> QED BY <2>1, <1>2, <1>00 DEF LineFacts
<1> HIDE DEF a, b
<1>4. r = <<>> /\ a = <<>>
  <2>1. Len(r \o a) = Len(r) + Len(a) /\ Len(r) \in Nat /\ Len(a) \in Nat
    BY <1>2, <1>3
  <2>4. r \o a = <<>>
    BY <1>2 DEF a
  <2>2. Len(r \o a) = 0
    BY <2>4, NoItems
  <2>3. Len(r) = 0 /\ Len(a) = 0
    BY <2>1, <2>2
  <2> QED BY <2>3, <1>2, <1>3
<1>5. q = b
  BY <1>2, <1>3, <1>4 DEF b
<1>6. j = Len(d)
  <2> SUFFICES ASSUME j # Len(d) PROVE FALSE
    OBVIOUS
  <2> DEFINE k == j + 1
             e == d[k]
             z == A[k]
  <2>1. k \in 1 .. Len(d) /\ k \in 0 .. Len(d) /\ k - 1 = j
    BY <1>00, <1>2 DEF LineFacts
  <2> HIDE DEF k
  <2>2. a = <<Slash>> \o (e \o z) /\ e \in Seq(Alphabet) /\ z \in Seq(Signs)
    BY <2>1, <1>00 DEF LineFacts, a
  <2> HIDE DEF e, z
  <2>3. e \o z \in Seq(Signs)
    BY <2>2 DEF Alphabet
  <2> DEFINE y == e \o z
  <2> HIDE DEF y
  <2>4. <<Slash>> \o y # <<>>
    BY <2>3 DEF y
  <2> QED BY <2>4, <2>2, <1>4 DEF y
<1> QED BY <1>2, <1>5, <1>6, <1>00 DEF LineFacts, b

\* A search does not fail on the ways with less than i left of the pattern.
Passes(go, D, way, d, A, segs, B, i) ==
  \A n \in D, q \in Seq(Characters) :
    Len(way[n]) < i /\ Abreast(d, A, segs, B, way[n], q) => ~FailsFrom(go, n, q, 1)

\* What search does where the pattern ends.
LEMMA FoundHere ==
  ASSUME TypeOK, IsTree, NEW go \in Searches, NEW n \in Ids, nodes[n].handler # 0
  PROVE  ~FailsFrom(go, n, <<>>, 1)
<1> SUFFICES ASSUME NEW p \in Params, go[[node |-> n, kid |-> 1, path |-> <<>>, params |-> p]].route = 0
             PROVE  FALSE
  BY DEF FailsFrom
<1> DEFINE call == [node |-> n, kid |-> 1, path |-> <<>>, params |-> p]
<1>1. call \in Calls /\ call.node = n /\ call.path = <<>>
  BY DEF Calls, Ids
<1>2. go[call].route = nodes[n].handler
  <2> HIDE DEF call
  <2> QED BY <1>1 DEF Searches, Search, Result
<1> QED BY <1>2

\* A child on the way leads on, on the path too.
LeadsOn(d, A, segs, B, n, m, t, q) ==
  /\ q # <<>> /\ Head(q) = Head(nodes[m].path)
  /\ \E left \in Seq(Characters) : IntoChild(n, q, m, left) /\ Abreast(d, A, segs, B, Trim(Trim(t)), left)

LEMMA ChildLeadsOn ==
  ASSUME TypeOK, IsTree, NEW d, NEW A, NEW segs, NEW B, Lined(d, A, segs, B),
         NEW n \in Ids, NEW m \in Kids(n), nodes[m].path # <<>>, NEW t \in Seq(Signs), NEW q \in Seq(Characters),
         Abreast(d, A, segs, B, nodes[m].path \o t, q)
  PROVE  LeadsOn(d, A, segs, B, n, m, t, q)
<1> DEFINE c == nodes[m].path
<1>1. c \in Seq(Characters) /\ c # <<>>
  <2>1. nodes[m] \in NodeType
    BY KidIsNode DEF TypeOK, Ids
  <2> QED BY <2>1 DEF NodeType
<1> HIDE DEF c
<1>2. GoesAlong(d, A, segs, B, c, t, q)
  BY <1>1, AbreastPath DEF c
<1>3. PICK r \in Seq(Characters) : q = c \o r /\ Abreast(d, A, segs, B, t, r)
  BY <1>2 DEF GoesAlong
<1> DEFINE tt == Trim(t)
           tr == Trim(r)
<1>4. Abreast(d, A, segs, B, tt, tr) /\ tt \in Seq(Signs) /\ tr \in Seq(Characters)
  BY <1>3, AbreastTrim
<1> HIDE DEF tt, tr
<1>5. Abreast(d, A, segs, B, Trim(tt), Trim(tr)) /\ Trim(tr) \in Seq(Characters)
  BY <1>4, AbreastTrim
<1>6. q # <<>> /\ IsPrefix(c, q) /\ Drop(q, Len(c)) = r /\ Head(q) = Head(c)
  <2>1. Len(c \o r) = Len(c) + Len(r) /\ Len(c) > 0 /\ Len(r) \in Nat
    BY <1>1, <1>3
  <2>2. q # <<>>
    BY <2>1, <1>3
  <2>3. IsPrefix(c, q)
    BY <1>1, <1>3, PrefixOf
  <2>4. Drop(q, Len(c)) = r
    <3> DEFINE u == Drop(q, Len(c))
    <3>1. q = c \o u /\ u \in Seq(Characters)
      BY <2>3, <1>1, PrefixFacts
    <3> HIDE DEF u
    <3>2. r = u
      BY <3>1, <1>1, <1>3, CancelLeft
    <3> QED BY <3>2 DEF u
  <2>5. Head(c \o r) = Head(c)
    BY <1>1
  <2> QED BY <2>2, <2>3, <2>4, <2>5, <1>3
<1>7. IntoChild(n, q, m, Trim(tr))
  BY <1>1, <1>6 DEF IntoChild, c, tr
<1> QED BY <1>5, <1>6, <1>7 DEF LeadsOn, c, tt

\* What is left of a pattern at m, behind the catch-all of m.
RestAhead(way, n, m, t) ==
  /\ nodes[m].hole \in CatchAlls /\ nodes[m].hole \in Holes
  /\ way[n] = << nodes[m].hole >> \o t /\ way[m] = Trim(Trim(t))

\* A way that goes into a rest ends there.
LEMMA RestEndsWay ==
  ASSUME TypeOK, NEW p, ~BehindRest(p), NEW C, NEW H, NEW D, NEW way, Leads(nodes, text, p, C, H, D, way, 0, <<>>),
         NEW n \in D, NEW m \in D, NEW t \in Seq(Signs), RestAhead(way, n, m, t)
  PROVE  way[m] = <<>> /\ m \in H
<1> DEFINE h == nodes[m].hole
           s == way[n]
<1> HIDE DEF h, s
<1>1. h \in CatchAlls /\ h \in Signs /\ s = << h >> \o t /\ s \in Seq(Signs)
  BY DEF h, s, Signs, Leads, RestAhead
<1>2. Len(t) \in Nat /\ Len(s) = 1 + Len(t) /\ s[1] = h
  BY <1>1
<1>3. t = <<>>
  <2>1. PICK a \in Seq(Signs) : p = a \o s
    BY DEF Leaves, Leads, s
  <2> DEFINE k == Len(a) + 1
  <2>2. p \in Seq(Signs) /\ Len(p) = Len(a) + Len(s) /\ p[k] = s[1]
    <3>1. Joins(Signs, a \o s, a, s)
      BY <1>1, ConcatItems
    <3>2. 1 \in 1 .. Len(s)
      BY <1>2
    <3> QED BY <3>1, <3>2, <2>1 DEF Joins
  <2>3. Len(t) = 0
    <3> SUFFICES ASSUME Len(t) # 0 PROVE FALSE
      OBVIOUS
    <3>1. k \in 1 .. Len(p) - 1
      BY <1>2, <2>2
    <3> HIDE DEF k
    <3> QED BY <3>1, <1>1, <1>2, <2>2 DEF BehindRest
  <2> QED BY <2>3
<1>4. way[m] = <<>>
  BY <1>3 DEF Trim, RestAhead
<1>5. \/ m \in H
      \/ \E k \in D : On(nodes, m, <<>>, k, way[k])
  <2>1. m # 0
    <3>1. m \in Ids
      BY DEF Leads, Ids
    <3> QED BY <3>1 DEF TypeOK, Ids
  <2> QED BY <2>1, <1>4 DEF Leads
<1>6. ASSUME NEW k \in D, On(nodes, m, <<>>, k, way[k]) PROVE FALSE
  <2>1. PICK u \in Seq(Signs) :
          \/ k \in Kids(m) /\ nodes[k].path # <<>> /\ <<>> = nodes[k].path \o u
          \/ <<>> = << nodes[k].hole >> \o u
    BY <1>6 DEF On, Kids
  <2>2. nodes[k] \in NodeType
    BY DEF TypeOK, Ids, Leads
  <2> DEFINE c == nodes[k].path
             g == nodes[k].hole
  <2>3. c \in Seq(Characters)
    BY <2>2 DEF NodeType
  <2> HIDE DEF c, g
  <2>4. c \in Seq(Signs)
    BY <2>3 DEF Signs
  <2>5. Len(c \o u) = Len(c) + Len(u) /\ Len(<< g >> \o u) = 1 + Len(u) /\ Len(u) \in Nat
        /\ (c # <<>> => Len(c) > 0)
    BY <2>4
  <2>6. \A v : Len(v) # 0 => v # <<>>
    BY NoItems
  <2>7. << g >> \o u # <<>>
    BY <2>5, <2>6
  <2>8. c # <<>> => c \o u # <<>>
    BY <2>5, <2>6
  <2> QED BY <2>1, <2>7, <2>8 DEF c, g
<1> QED BY <1>4, <1>5, <1>6

\* Stripping two slashes makes no sequence longer.
LEMMA TrimsLength ==
  ASSUME NEW E, NEW t \in Seq(E)
  PROVE  Trim(Trim(t)) \in Seq(E) /\ Len(Trim(Trim(t))) <= Len(t) /\ Len(Trim(Trim(t))) \in Nat /\ Len(t) \in Nat
<1>1. Trim(t) \in Seq(E) /\ Len(Trim(t)) <= Len(t)
  BY TrimEnds, TrimLength
<1> DEFINE u == Trim(t)
<1> HIDE DEF u
<1>2. Trim(u) \in Seq(E) /\ Len(Trim(u)) <= Len(u) /\ Len(Trim(u)) \in Nat
  BY <1>1, TrimEnds, TrimLength DEF u
<1> QED BY <1>1, <1>2 DEF u

\* A node on the way, with what is left of the path, leads to the next.
LEMMA PassesOn ==
  ASSUME TypeOK, IsTree, NEW go \in Searches, NEW d, NEW A, NEW segs, NEW B, Lined(d, A, segs, B),
         NEW p, ~BehindRest(p), NEW C, NEW H, \A k \in H : nodes[k].handler # 0,
         NEW D, NEW way, Leads(nodes, text, p, C, H, D, way, 0, <<>>),
         NEW i \in Nat, Passes(go, D, way, d, A, segs, B, i)
  PROVE  Passes(go, D, way, d, A, segs, B, i + 1)
<1> SUFFICES ASSUME NEW n \in D, NEW q \in Seq(Characters), Len(way[n]) < i + 1,
                    Abreast(d, A, segs, B, way[n], q), FailsFrom(go, n, q, 1)
             PROVE  FALSE
  BY DEF Passes
<1>1. /\ D \subseteq Ids /\ way \in [D -> Seq(Signs)] /\ n \in Ids /\ n # 0
      /\ (way[n] = <<>> /\ n \in H) \/ \E m \in D : On(nodes, n, way[n], m, way[m])
  <2>1. 0 \notin Ids
    BY DEF TypeOK, Ids
  <2>2. D \subseteq Ids /\ way \in [D -> Seq(Signs)]
    BY DEF Leads, Ids
  <2> QED BY <2>1, <2>2 DEF Leads
<1> DEFINE s == way[n]
<1>2. s \in Seq(Signs) /\ Len(s) \in Nat
  BY <1>1
<1> HIDE DEF s
<1>3. CASE s = <<>> /\ n \in H
  <2>1. q = <<>>
    BY <1>3, AbreastEnd DEF s
  <2> QED BY <2>1, <1>1, <1>3, FoundHere
\* What the search of another node on the way has left cannot fail.
<1>4. ASSUME NEW m \in D, NEW r \in Seq(Characters), Abreast(d, A, segs, B, way[m], r), Len(way[m]) < Len(s),
             FailsFrom(go, m, r, 1)
      PROVE  FALSE
  <2>1. Len(way[m]) \in Nat
    BY <1>1
  <2>2. Len(way[m]) < i
    BY <2>1, <1>2, <1>4 DEF s
  <2> QED BY <2>2, <1>4 DEF Passes
<1>5. CASE \E m \in D : On(nodes, n, s, m, way[m])
  <2>1. PICK m \in D : On(nodes, n, s, m, way[m])
    BY <1>5
  <2>2. PICK t \in Seq(Signs) :
          /\ way[m] = Trim(Trim(t))
          /\ \/ m \in Kids(n) /\ nodes[m].path # <<>> /\ s = nodes[m].path \o t
             \/ m # 0 /\ m = nodes[n].wild /\ s = << nodes[m].hole >> \o t
    BY <2>1 DEF On, Kids
  <2>3. Len(way[m]) <= Len(t) /\ Len(way[m]) \in Nat /\ Len(t) \in Nat
    BY <2>2, TrimsLength
  <2>4. CASE m \in Kids(n) /\ nodes[m].path # <<>> /\ s = nodes[m].path \o t
    <3>1. LeadsOn(d, A, segs, B, n, m, t, q)
      BY <2>4, <1>1, ChildLeadsOn DEF s
    <3>2. PICK left \in Seq(Characters) : IntoChild(n, q, m, left) /\ Abreast(d, A, segs, B, way[m], left)
      BY <3>1, <2>2 DEF LeadsOn
    <3>3. Branch(n, q, m, left)
      BY <3>1, <3>2 DEF Branch, LeadsOn
    <3>4. FailsFrom(go, m, left, 1)
      <4>1. Tried(go, n, q, 1)
        BY <3>1, <1>1, FailedTried DEF LeadsOn
      <4>2. \A k \in 1 .. 1 - 1 : m # nodes[n].kids[k]
        OBVIOUS
      <4> QED BY <4>1, <4>2, <3>3 DEF Tried
    <3>5. Len(way[m]) < Len(s)
      <4> DEFINE c == nodes[m].path
      <4>1. c \in Seq(Characters) /\ c # <<>>
        <5>1. nodes[m] \in NodeType
          BY <1>1 DEF TypeOK, Ids
        <5> QED BY <5>1, <2>4 DEF NodeType
      <4> HIDE DEF c
      <4>2. c \in Seq(Signs)
        BY <4>1 DEF Signs
      <4>3. Len(c \o t) = Len(c) + Len(t) /\ Len(c) > 0
        BY <4>1, <4>2
      <4> QED BY <4>3, <2>3, <2>4 DEF c
    <3> QED BY <3>2, <3>4, <3>5, <1>4
  <2>5. CASE m # 0 /\ m = nodes[n].wild /\ s = << nodes[m].hole >> \o t
    <3> DEFINE h == nodes[m].hole
    <3>1. h \in Holes /\ m \in Ids
      BY <2>5, <1>1 DEF IsTree
    <3> HIDE DEF h
    <3>2. s = << h >> \o t /\ h \in Signs
      BY <2>5, <3>1 DEF h, Signs
    <3>3. q # <<>> /\ (h \notin CatchAlls => TakesSegment(d, A, segs, B, t, q))
      BY <3>1, <3>2, AbreastHole DEF s
    <3>4. Tried(go, n, q, 1)
      BY <3>3, <1>1, FailedTried
    <3>5. CASE h \notin CatchAlls
      <4> DEFINE r == Trim(Drop(q, Len(Segment(q)) + 1))
      <4>1. Segment(q) # <<>> /\ Abreast(d, A, segs, B, Trim(Trim(t)), r) /\ r \in Seq(Characters)
        BY <3>3, <3>5 DEF TakesSegment
      <4>2. Branch(n, q, m, r)
        BY <4>1, <3>3, <3>5, <2>5 DEF Branch, IntoWild, h
      <4>3. FailsFrom(go, m, r, 1)
        <5>1. \A k \in 1 .. 1 - 1 : m # nodes[n].kids[k]
          OBVIOUS
        <5> QED BY <5>1, <4>2, <3>4 DEF Tried
      <4>4. Len(way[m]) < Len(s)
        <5>1. Len(<< h >> \o t) = 1 + Len(t)
          BY <3>2
        <5> QED BY <5>1, <3>2, <2>3
      <4> HIDE DEF r
      <4> QED BY <4>1, <4>3, <4>4, <2>2, <1>4
    <3>6. CASE h \in CatchAlls
      <4>1. m \in H
        <5>1. RestAhead(way, n, m, t)
          BY <3>1, <3>6, <2>2, <2>5 DEF s, h, RestAhead
        <5> QED BY <5>1, RestEndsWay
      <4>2. Answered(n, q)
        BY <4>1, <3>3, <3>6, <2>5 DEF Answered, h
      <4> QED BY <4>2, <3>4 DEF Tried
    <3> QED BY <3>5, <3>6
  <2> QED BY <2>2, <2>4, <2>5
<1> QED BY <1>1, <1>3, <1>5 DEF s

-----------------------------------------------------------------------------
(* Lookup finds what there is                                              *)

\* What matches the segments of a path goes with them.
LEMMA MatchFits ==
  ASSUME NEW file \in ToSet(Files), NEW segs \in Requested, Matches(file, segs)
  PROVE  Fits(Pieces(file), segs)
<1> DEFINE place == Place(file)
           d == Pieces(file)
<1>1. /\ IsPieces(d) /\ Len(d) = Len(place) /\ Len(place) \in Nat /\ DOMAIN place = 1 .. Len(place)
      /\ \A i \in DOMAIN place : d[i] = Normalize(place[i]) /\ Made(place[i])
  BY PlacePieces
<1>2. Len(segs) \in Nat
  BY RequestedType
<1> HIDE DEF d
<1>3. /\ IF EndsOpen(place) THEN Len(segs) >= Len(place) ELSE Len(segs) = Len(place)
      /\ \A i \in DOMAIN place : IsHole(place[i]) \/ place[i].name = segs[i]
  BY DEF Matches
<1> HIDE DEF place
<1>4. Len(d) <= Len(segs)
  BY <1>1, <1>2, <1>3
<1>5. ASSUME EndsOpen(place) PROVE Len(d) > 0 /\ IsOpen(d[Len(d)])
  <2>1. place # <<>> /\ IsRest(Last(place))
    BY <1>5 DEF EndsOpen
  <2>2. Len(place) # 0
    <3>1. IsHole(Last(place))
      BY <2>1 DEF IsRest
    <3> SUFFICES ASSUME Len(place) = 0 PROVE FALSE
      OBVIOUS
    <3>2. place = <<>>
      <4>1. file.dirs \in Seq(ToSet(file.dirs)) \/ place = << [form |-> "plain", name |-> Api] >>
        BY FilesAssumption
      <4>2. file.dirs \in Seq(ToSet(file.dirs))
        BY FilesAssumption
      <4>3. place = file.dirs \/ place = << [form |-> "plain", name |-> Api] >>
        BY DEF place, Place
      <4>4. Len(<< [form |-> "plain", name |-> Api] >>) = 1
        OBVIOUS
      <4> QED BY <4>2, <4>3, <4>4
    <3> QED BY <3>2, <2>1
  <2> DEFINE k == Len(place)
             dir == place[k]
  <2>3. k \in DOMAIN place /\ IsRest(dir)
    BY <2>1, <2>2, <1>1 DEF Last
  <2>4. Made(dir) /\ d[k] = Normalize(dir)
    BY <2>3, <1>1
  <2> HIDE DEF dir
  <2>5. Braced[dir.name] \in Holes /\ d[k] = << Braced[dir.name] >> /\ Braced[dir.name] \in CatchAlls
    BY <2>3, <2>4 DEF IsRest, Made
  <2>6. IsOpen(d[k])
    BY <2>5 DEF IsOpen
  <2> QED BY <2>2, <2>6, <1>1
<1>6. Len(d) = Len(segs) \/ (Len(d) > 0 /\ IsOpen(d[Len(d)]))
  BY <1>1, <1>3, <1>5
<1>7. ASSUME NEW i \in 1 .. Len(d), IsPlain(d[i]) PROVE d[i] = segs[i]
  <2>1. i \in DOMAIN place /\ d[i] = Normalize(place[i]) /\ Made(place[i])
    BY <1>1, <1>7
  <2>2. ~IsHole(place[i])
    BY <2>1, <1>7 DEF Made
  <2> QED BY <2>1, <2>2, <1>3 DEF Made
<1>8. Fits(d, segs)
  BY <1>4, <1>6, <1>7 DEF Fits
<1> QED BY <1>8 DEF d

\* The pattern of a file and a path, side by side.
Aligned(file, segs) == \E A, B :
  /\ Lined(Pieces(file), A, segs, B)
  /\ Abreast(Pieces(file), A, segs, B, Pattern(file), Path(segs))

\* They are so when the file matches the path.
LEMMA MatchAligned ==
  ASSUME NEW file \in ToSet(Files), NEW segs \in Requested, Matches(file, segs), Place(file) # <<>>
  PROVE  Aligned(file, segs)
<1> DEFINE d == Pieces(file)
<1>1. IsPieces(d) /\ Fits(d, segs) /\ IsSegments(segs) /\ segs \in Seq(Seq(Letter) \ {<<>>})
  BY PlacePieces, MatchFits, RequestedType
<1>2. Len(d) # 0 /\ Len(d) \in Nat
  <2>1. Len(d) = Len(Place(file)) /\ Len(Place(file)) \in Nat
    BY PlacePieces
  <2>2. file.dirs \in Seq(ToSet(file.dirs))
    BY FilesAssumption
  <2>3. Place(file) = file.dirs \/ Place(file) = << [form |-> "plain", name |-> Api] >>
    BY DEF Place
  <2>4. Len(<< [form |-> "plain", name |-> Api] >>) = 1
    OBVIOUS
  <2>5. Len(Place(file)) # 0
    BY <2>2, <2>3, <2>4
  <2> QED BY <2>1, <2>5
<1>3. PICK P, A : Pieced(Signs, d, P, A) /\ A[0] = Pattern(file)
  BY PatternPieces DEF HasPieces
<1>4. segs # <<>>
  BY <1>1, <1>2, NoItems DEF Fits
<1>5. PICK Q, B : Pieced(Characters, segs, Q, B) /\ B[0] = Path(segs)
  <2>1. segs \in Seq(Seq(Characters \ {Slash}))
    BY <1>1 DEF IsSegments, Letter
  <2>2. Slash \in Characters
    BY SlashIsNoHole
  <2>3. HasPieces(Characters, segs, FlattenSeq(Slashed(segs)))
    BY <2>1, <2>2, PiecesExist
  <2>4. Path(segs) = FlattenSeq(Slashed(segs))
    BY <1>4 DEF Path, Slashed
  <2> QED BY <2>3, <2>4 DEF HasPieces
<1> HIDE DEF d
<1>6. Lined(d, A, segs, B)
  BY <1>1, <1>3, <1>5 DEF Lined
<1>7. Abreast(d, A, segs, B, A[0], B[0])
  <2> DEFINE r == <<>>
             a == A[0]
             b == B[0]
  <2>1. a \in Seq(Signs) /\ b \in Seq(Characters)
    <3>1. LineFacts(d, A, segs, B)
      BY <1>6, LinedFacts
    <3>2. 0 \in 0 .. Len(d) /\ 0 \in 0 .. Len(segs)
      BY <3>1 DEF LineFacts
    <3> QED BY <3>1, <3>2 DEF LineFacts
  <2> HIDE DEF a, b
  <2>2. r \in Seq(Letter) /\ a = r \o a /\ b = r \o b
    BY <2>1
  <2>3. 0 \in 0 .. Len(d) /\ (0 = Len(d) => Len(segs) = Len(d))
    BY <1>2
  <2> HIDE DEF r
  <2> QED BY <2>2, <2>3 DEF Abreast, a, b
<1> QED BY <1>3, <1>5, <1>6, <1>7 DEF Aligned, d

\* A pattern without placeholders that matches a path is that path.
LEMMA StaticPath ==
  ASSUME NEW file \in ToSet(Files), NEW segs \in Requested, Matches(file, segs), ~IsDynamic(Pattern(file)),
         Pattern(file) \in Seq(Signs), Path(segs) \in Seq(Characters)
  PROVE  Pattern(file) = Path(segs)
<1>1. CASE Place(file) = <<>>
  <2>1. Pattern(file) = <<Slash>>
    BY <1>1, PatternPieces
  <2>2. Len(segs) = 0 /\ segs \in Seq(Seq(Letter) \ {<<>>})
    <3>1. ~EndsOpen(Place(file)) /\ Len(Place(file)) = 0
      BY <1>1, NoItems DEF EndsOpen
    <3> QED BY <3>1, RequestedType DEF Matches
  <2>3. segs = <<>>
    BY <2>2
  <2> QED BY <2>1, <2>3 DEF Path
<1>2. CASE Place(file) # <<>>
  <2> DEFINE p == Pattern(file)
             q == Path(segs)
             d == Pieces(file)
  <2>1. PICK A, B : Lined(d, A, segs, B) /\ Abreast(d, A, segs, B, p, q)
    BY <1>2, MatchAligned DEF Aligned
  <2> HIDE DEF p, q, d
  <2>2. p \in Seq(Characters)
    <3>1. p = [i \in 1 .. Len(p) |-> p[i]] /\ Len(p) \in Nat /\ \A i \in 1 .. Len(p) : p[i] \in Signs
      BY DEF p
    <3>2. \A i \in 1 .. Len(p) : p[i] \notin Holes
      BY DEF p, IsDynamic
    <3>3. \A i \in 1 .. Len(p) : p[i] \in Characters
      BY <3>1, <3>2 DEF Signs
    <3> QED BY <3>1, <3>3, SeqOfItems
  <2> DEFINE s == <<>>
  <2>3. s \in Seq(Signs) /\ p \o s = p /\ q \in Seq(Characters)
    BY <2>2 DEF q
  <2> HIDE DEF s
  <2>4. GoesAlong(d, A, segs, B, p, s, q)
    BY <2>1, <2>2, <2>3, AbreastPath
  <2>5. PICK t \in Seq(Characters) : q = p \o t /\ Abreast(d, A, segs, B, s, t)
    BY <2>4 DEF GoesAlong
  <2>6. t = <<>>
    BY <2>1, <2>5, AbreastEnd DEF s
  <2> QED BY <2>2, <2>5, <2>6 DEF p, q
<1> QED BY <1>1, <1>2

\* A search fails nowhere on a way, next to what is left of the pattern.
PassesAll(go, D, way, d, A, segs, B) ==
  \A n \in D, q \in Seq(Characters) : Abreast(d, A, segs, B, way[n], q) => ~FailsFrom(go, n, q, 1)

LEMMA WayPasses ==
  ASSUME TypeOK, IsTree, NEW go \in Searches, NEW d, NEW A, NEW segs, NEW B, Lined(d, A, segs, B),
         NEW p, ~BehindRest(p), NEW C, NEW H, \A k \in H : nodes[k].handler # 0,
         NEW D, NEW way, Leads(nodes, text, p, C, H, D, way, 0, <<>>)
  PROVE  PassesAll(go, D, way, d, A, segs, B)
<1> DEFINE T == {i \in Nat : Passes(go, D, way, d, A, segs, B, i)}
<1>1. \A n \in D : way[n] \in Seq(Signs)
  BY DEF Leads
<1>2. 0 \in T
  <2> SUFFICES ASSUME NEW n \in D, Len(way[n]) < 0 PROVE FALSE
    BY DEF Passes
  <2> QED BY <1>1
<1>3. ASSUME NEW i \in Nat, i \in T PROVE i + 1 \in T
  BY <1>3, PassesOn
<1>4. T = Nat
  <2>1. T \in SUBSET Nat
    OBVIOUS
  <2> HIDE DEF T
  <2> QED BY <2>1, <1>2, <1>3, Induction
<1> SUFFICES ASSUME NEW n \in D, NEW q \in Seq(Characters), Abreast(d, A, segs, B, way[n], q)
             PROVE  ~FailsFrom(go, n, q, 1)
  BY DEF PassesAll
<1> DEFINE m == Len(way[n]) + 1
<1>5. m \in Nat /\ Len(way[n]) < m
  BY <1>1
<1> HIDE DEF m
<1>6. Passes(go, D, way, d, A, segs, B, m)
  BY <1>4, <1>5
<1> QED BY <1>5, <1>6 DEF Passes

\* The search on a path that a pattern with a way in the tree matches.
LEMMA WayIsFound ==
  ASSUME TypeOK, IsTree, KidsFew, NEW file \in ToSet(Files), NEW segs \in Requested, Aligned(file, segs),
         NEW p, p = Pattern(file), p \in Seq(Signs), ~BehindRest(p),
         NEW C, NEW H, \A k \in H : nodes[k].handler # 0, HasWay(nodes, text, p, C, H, 0, <<>>),
         NEW path \in Seq(Characters), path = Path(segs)
  PROVE  SearchTree(path).route # 0
<1>1. PICK go \in Searches : SearchTree(path) = go[Enter(1, path, Unbound)]
  BY SearchDecided DEF SearchIsDecided
<1> DEFINE d == Pieces(file)
<1>2. PICK A, B : Lined(d, A, segs, B) /\ Abreast(d, A, segs, B, p, path)
  BY DEF Aligned
<1>3. PICK D, way : Leads(nodes, text, p, C, H, D, way, 0, <<>>)
  BY DEF HasWay
<1> HIDE DEF d
<1>8. PassesAll(go, D, way, d, A, segs, B)
  BY <1>2, <1>3, WayPasses
<1>9. 1 \in D /\ way[1] = Trim(p)
  BY <1>3 DEF Leads
<1>10. Abreast(d, A, segs, B, Trim(p), Trim(path)) /\ Trim(path) \in Seq(Characters)
  BY <1>2, AbreastTrim
<1>11. ~FailsFrom(go, 1, Trim(path), 1)
  BY <1>8, <1>9, <1>10 DEF PassesAll
<1>12. Unbound \in Params
  BY Nothing DEF Unbound, Params
<1>13. Enter(1, path, Unbound) = [node |-> 1, kid |-> 1, path |-> Trim(path), params |-> Unbound]
  BY DEF Enter
<1> QED BY <1>1, <1>11, <1>12, <1>13 DEF FailsFrom

\* A file that matches a path of segments that cannot be taken for others is
\* apart from all of them.
LEMMA MatchApart ==
  ASSUME TypeOK, NEW segs \in Requested, Unmistakable(segs), NEW i \in DOMAIN routes, Matches(routes[i], segs)
  PROVE  Apart(i)
<1> SUFFICES ASSUME NEW f \in DOMAIN routes
             PROVE  /\ Discernible(Pieces(routes[i]), Pieces(routes[f]))
                    /\ Discernible(Pieces(routes[f]), Pieces(routes[i]))
  BY DEF Apart
<1> DEFINE d == Pieces(routes[i])
           e == Pieces(routes[f])
<1>1. routes[i] \in ToSet(Files) /\ routes[f] \in ToSet(Files) /\ routes[f] \in ToSet(routes)
  BY RouteFile DEF ToSet
<1>2. Fits(d, segs)
  BY <1>1, MatchFits
<1>3. IsSegments(segs) /\ DOMAIN segs = 1 .. Len(segs) /\ Len(segs) \in Nat
  BY RequestedType
<1>4. Len(d) \in Nat /\ IsPieces(d) /\ IsPieces(e)
  BY <1>1, PlacePieces
<1>5. ASSUME NEW k \in 1 .. Len(d), NEW j \in 1 .. Len(e), IsPlain(d[k]), IsPlain(e[j])
      PROVE  e[j] = d[k] \/ ~(IsPrefix(e[j], d[k]) \/ IsPrefix(d[k], e[j]))
  <2>1. d[k] = segs[k] /\ k \in DOMAIN segs
    BY <1>2, <1>3, <1>4, <1>5 DEF Fits
  <2>2. /\ Len(e) = Len(Place(routes[f])) /\ DOMAIN Place(routes[f]) = 1 .. Len(Place(routes[f]))
        /\ \A l \in DOMAIN Place(routes[f]) : e[l] = Normalize(Place(routes[f])[l]) /\ Made(Place(routes[f])[l])
    BY <1>1, PlacePieces
  <2> DEFINE dir == Place(routes[f])[j]
  <2>3. j \in DOMAIN Place(routes[f]) /\ e[j] = Normalize(dir) /\ Made(dir)
    BY <2>2
  <2>4. \/ IsHole(dir) \/ dir.name = segs[k]
        \/ ~(IsPrefix(dir.name, segs[k]) \/ IsPrefix(segs[k], dir.name))
    BY <2>1, <2>3, <1>1 DEF Unmistakable
  <2> HIDE DEF dir, d, e
  <2>5. ~IsHole(dir)
    BY <2>3, <1>5 DEF Made
  <2>6. e[j] = dir.name
    BY <2>3, <2>5 DEF Made
  <2> QED BY <2>1, <2>4, <2>5, <2>6
<1> HIDE DEF d, e
<1>6. Discernible(d, e) /\ Discernible(e, d)
  BY <1>5 DEF Discernible
<1> QED BY <1>6 DEF d, e

\* Lookup finds something on a path that a reachable route matches.
LEMMA ReachableFound ==
  ASSUME TreeSpelled, StaticMap, KidsFew, Orderly, Ways, Built, NEW segs \in Requested, Unmistakable(segs),
         NEW i \in Reachable, Matches(routes[i], segs)
  PROVE  Lookup(Path(segs)).route # 0
<1> DEFINE file == routes[i]
           p == Pattern(file)
           path == Path(segs)
<1>1. TypeOK /\ IsTree
  BY DEF TreeSpelled
<1>2. i \in DOMAIN routes /\ (IsDynamic(p) => ~Torn(i) /\ ~BehindRest(p))
  BY DEF Reachable
<1>3. file \in ToSet(Files) /\ p \in Seq(Signs)
  BY <1>1, <1>2, RouteFile, PatternType
<1>4. path \in Seq(Characters)
  BY PathType
<1>5. CASE path \in DOMAIN static
  <2>1. static[path] \in DOMAIN routes
    BY <1>5 DEF StaticMap
  <2>2. Lookup(path).route = static[path]
    BY <1>5 DEF Lookup, Result
  <2>3. 0 \notin DOMAIN routes
    BY <1>1 DEF TypeOK
  <2> QED BY <2>1, <2>2, <2>3
<1>6. CASE path \notin DOMAIN static
  <2>1. IsDynamic(p)
    <3> SUFFICES ASSUME ~IsDynamic(p) PROVE FALSE
      OBVIOUS
    <3>1. p = path
      BY <1>3, <1>4, StaticPath
    <3>2. p \in DOMAIN static
      BY <1>2 DEF StaticMap
    <3> QED BY <3>1, <3>2, <1>6
  <2>2. Fair(i)
    BY <2>1, <1>1, <1>2, MatchApart DEF Fair
  <2> DEFINE C == Clean(i)
             H == Holders(i)
  <2>3. HasWay(nodes, text, p, C, H, 0, <<>>)
    <3>1. i \in 1 .. begun /\ at = 0
      BY <1>1, <1>2 DEF Built, TypeOK
    <3> QED BY <3>1, <2>2 DEF Ways, WaysKept, WayOf
  <2>4. Place(file) # <<>>
    <3> SUFFICES ASSUME Place(file) = <<>> PROVE FALSE
      OBVIOUS
    <3>1. p = <<Slash>>
      BY <1>3, PatternPieces
    <3>2. DOMAIN p = {1} /\ p[1] = Slash
      BY <3>1
    <3> QED BY <3>2, <2>1, SlashIsNoHole DEF IsDynamic
  <2>5. Aligned(file, segs)
    BY <2>4, <1>3, MatchAligned
  <2>7. \A k \in H : nodes[k].handler # 0
    <3>1. i \in Nat /\ i # 0
      BY <1>1, <1>2 DEF TypeOK
    <3>2. \A k \in Ids : nodes[k].handler \in Nat
      <4>1. \A k \in Ids : nodes[k] \in NodeType
        BY <1>1 DEF TypeOK, Ids
      <4> QED BY <4>1 DEF NodeType
    <3>3. \A a \in Nat : a >= i => a # 0
      BY <3>1
    <3> QED BY <3>2, <3>3 DEF Holders
  <2> HIDE DEF file, p, path, C, H
  <2>6. SearchTree(path).route # 0
    BY <2>1, <2>3, <2>5, <2>7, <1>1, <1>2, <1>3, <1>4, WayIsFound DEF p, path
  <2> QED BY <2>6, <1>6 DEF Lookup, path
<1> QED BY <1>5, <1>6

\* A path that the file of a route matches is found, whatever the tree was
\* split into and whatever branches end nowhere, except where the route is
\* static no longer and torn, or goes on behind a rest (router.go:244-250,
\* radix.go:32-158, 160-217).
THEOREM LookupIsComplete == Spec => []LookupComplete
<1>1. TreeSpelled /\ StaticMap /\ KidsFew /\ (Orderly => Ways) => LookupComplete
  BY ReachableFound DEF LookupComplete
<1> QED BY <1>1, TreeIsSpelled, StaticMapHolds, FewAlways, WaysAlways, PTL

-----------------------------------------------------------------------------
(* Where an answer comes from                                              *)

\* A search answers f at a node in front of a child.
AnswersFrom(go, n, path, k, f) == \E p \in Params :
  go[[node |-> n, kid |-> k, path |-> path, params |-> p]].route = f

\* The child k answers f.
FromChild(go, n, path, k, f) ==
  \E left \in Seq(Characters) : IntoChild(n, path, nodes[n].kids[k], left) /\ AnswersFrom(go, nodes[n].kids[k], left, 1, f)

\* The children in front of k fail.
FailedTo(go, n, path, k) == \A i \in 1 .. k - 1 : \A left :
  IntoChild(n, path, nodes[n].kids[i], left) => FailsFrom(go, nodes[n].kids[i], left, 1)

\* The wildcard answers f.
FromWild(go, n, path, f) ==
  LET wild == nodes[n].wild
  IN  /\ wild # 0
      /\ \/ nodes[wild].hole \in CatchAlls /\ f = nodes[wild].handler
         \/ \E left \in Seq(Characters) : IntoWild(n, path, wild, left) /\ AnswersFrom(go, wild, left, 1, f)

\* A child answers, or it fails and those behind it answer.
LEMMA AnsweredHere ==
  ASSUME TypeOK, IsTree, NEW go \in Searches, NEW n \in Ids, NEW path \in Seq(Characters), NEW k \in Nat \ {0},
         NEW f, f # 0, AnswersFrom(go, n, path, k, f), path # <<>>, k <= Len(nodes[n].kids)
  PROVE  \/ FromChild(go, n, path, k, f)
         \/ /\ AnswersFrom(go, n, path, k + 1, f)
            /\ \A left : IntoChild(n, path, nodes[n].kids[k], left) => FailsFrom(go, nodes[n].kids[k], left, 1)
<1>1. PICK p \in Params : go[[node |-> n, kid |-> k, path |-> path, params |-> p]].route = f
  BY DEF AnswersFrom
<1> DEFINE call == [node |-> n, kid |-> k, path |-> path, params |-> p]
           id == nodes[n].kids[k]
           low == Below(call, id)
           below == go[low]
           fails == nodes[id].path = <<>> \/ ~IsPrefix(nodes[id].path, path)
           next(q) == [node |-> n, kid |-> k + 1, path |-> path, params |-> q]
<1>2. call \in Calls /\ call.node = n /\ call.kid = k /\ call.path = path /\ call.params = p
  BY DEF Calls, Ids
<1>3. id \in Kids(n)
  <2>1. nodes[n] \in NodeType
    BY DEF TypeOK, Ids
  <2>2. nodes[n].kids \in Seq(Nat)
    BY <2>1, NodeKids
  <2>3. k \in DOMAIN nodes[n].kids
    BY <2>2
  <2> QED BY <2>3 DEF Kids, ToSet
<1>4. go[call] = SearchChild(call, go)
  BY <1>2 DEF Searches, Search
<1>5. go[call] = IF fails THEN go[next(p)] ELSE IF below.route # 0 THEN below ELSE go[next(below.params)]
  <2>1. [call EXCEPT !.kid = @ + 1, !.params = below.params] = next(below.params)
    <3> DEFINE b == below.params
               h == [call EXCEPT !.kid = @ + 1, !.params = b]
    <3> HIDE DEF b, call
    <3>1. DOMAIN h = {"node", "kid", "path", "params"}
      BY <1>2 DEF Calls
    <3>2. h.node = n /\ h.kid = k + 1 /\ h.path = path /\ h.params = b
      BY <1>2 DEF Calls
    <3>3. h = [x \in DOMAIN h |-> h[x]]
      OBVIOUS
    <3> HIDE DEF h
    <3>4. h = next(b)
      BY <3>1, <3>2, <3>3
    <3> QED BY <3>4 DEF b, h
  <2>2. [call EXCEPT !.kid = @ + 1] = next(p)
    OBVIOUS
  <2> HIDE DEF next
  <2> QED BY <1>2, <1>4, <2>1, <2>2 DEF SearchChild, Below
<1>6. go[call].route = f
  BY <1>1
<1>7. \A q : go[next(q)].route = f /\ q \in Params => AnswersFrom(go, n, path, k + 1, f)
  BY DEF AnswersFrom
<1> HIDE DEF call, id, low, next
<1>8. CASE fails
  <2>1. AnswersFrom(go, n, path, k + 1, f)
    BY <1>5, <1>6, <1>7, <1>8
  <2> QED BY <2>1, <1>8 DEF IntoChild, id
<1>9. CASE ~fails
  <2>1. low \in Calls
    BY <1>2, <1>3, <1>9, AnswerBelow DEF low
  <2>2. below \in Results
    BY <2>1 DEF Searches
  <2>3. below.params \in Params
    BY <2>2, ResultFields
  <2> DEFINE l == Trim(Trim(Drop(path, Len(nodes[id].path))))
  <2>5. low = [node |-> id, kid |-> 1, path |-> l, params |-> p]
    BY <1>2 DEF low, Below, Enter
  <2>6. l \in Seq(Characters)
    <3>1. low.path = l
      BY <2>5
    <3> HIDE DEF l
    <3> QED BY <2>1, <3>1, CallFields
  <2>9. IntoChild(n, path, id, l)
    BY <1>3, <1>9 DEF IntoChild
  <2> HIDE DEF l
  <2>8. \A left : IntoChild(n, path, id, left) => left = l
    BY DEF IntoChild, l
  <2>10. CASE below.route # 0
    <3>1. below.route = f
      BY <2>10, <1>5, <1>6, <1>9
    <3>2. AnswersFrom(go, id, l, 1, f)
      BY <3>1, <2>5 DEF AnswersFrom
    <3> QED BY <3>2, <2>6, <2>9 DEF FromChild, id
  <2>11. CASE below.route = 0
    <3>1. AnswersFrom(go, n, path, k + 1, f)
      BY <2>3, <2>11, <1>5, <1>6, <1>7, <1>9
    <3>2. FailsFrom(go, id, l, 1)
      BY <2>11, <2>5 DEF FailsFrom
    <3> QED BY <3>1, <3>2, <2>8 DEF id
  <2> QED BY <2>10, <2>11
<1> QED BY <1>8, <1>9

\* Behind the children the wildcard answers.
LEMMA AnsweredWild ==
  ASSUME TypeOK, IsTree, NEW go \in Searches, NEW n \in Ids, NEW path \in Seq(Characters), NEW k \in Nat \ {0},
         NEW f, f # 0, AnswersFrom(go, n, path, k, f), path # <<>>, ~(k <= Len(nodes[n].kids))
  PROVE  FromWild(go, n, path, f)
<1>1. PICK p \in Params : go[[node |-> n, kid |-> k, path |-> path, params |-> p]].route = f
  BY DEF AnswersFrom
<1> DEFINE call == [node |-> n, kid |-> k, path |-> path, params |-> p]
           id == nodes[n].wild
           hole == nodes[id].hole
           value == Segment(path)
           q == Bind(p, hole, value)
           l == Trim(Drop(path, Len(value) + 1))
           low == [node |-> id, kid |-> 1, path |-> l, params |-> q]
<1>2. call \in Calls /\ call.node = n /\ call.kid = k /\ call.path = path /\ call.params = p
  BY DEF Calls, Ids
<1>3. go[call] = SearchWild(call, go)
  BY <1>2 DEF Searches, Search
<1>4. IF id = 0 \/ (hole \notin CatchAlls /\ value = <<>>) THEN go[call].route = 0
      ELSE IF hole \in CatchAlls THEN go[call].route = nodes[id].handler ELSE go[call] = go[low]
  BY <1>2, <1>3 DEF SearchWild, Result, Enter
<1>5. go[call].route = f
  BY <1>1
<1> HIDE DEF call
<1>6. /\ id # 0
      /\ \/ hole \in CatchAlls /\ f = nodes[id].handler
         \/ hole \notin CatchAlls /\ value # <<>> /\ go[low].route = f
  <2> HIDE DEF id, hole, value, low
  <2> QED BY <1>4, <1>5
<1>7. ASSUME hole \notin CatchAlls, value # <<>>, go[low].route = f
      PROVE  l \in Seq(Characters) /\ AnswersFrom(go, id, l, 1, f)
  <2>1. hole \in Holes
    BY <1>6 DEF IsTree
  <2>2. value \in Seq(Letter) /\ Drop(path, Len(value) + 1) \in Seq(Characters)
    BY SegmentFacts
  <2>3. l \in Seq(Characters)
    <3> DEFINE d == Drop(path, Len(value) + 1)
    <3> HIDE DEF d
    <3> QED BY <2>2, TrimLetters DEF d
  <2>4. value \in Seq(Characters)
    <3> HIDE DEF value
    <3> QED BY <2>2 DEF Letter
  <2>5. q \in Params
    <3> HIDE DEF value, hole
    <3> QED BY <2>1, <2>4, BindType
  <2> QED BY <2>3, <2>5, <1>7 DEF AnswersFrom
<1>8. hole \notin CatchAlls /\ value # <<>> => IntoWild(n, path, id, l)
  BY <1>6 DEF IntoWild
<1> HIDE DEF hole, value, l, low
<1> QED BY <1>6, <1>7, <1>8 DEF FromWild, hole

\* An answer comes from the first child that has one, or from the wildcard.
Comes(go, n, path, f) ==
  \/ \E k \in 1 .. Len(nodes[n].kids) : FromChild(go, n, path, k, f) /\ FailedTo(go, n, path, k)
  \/ FromWild(go, n, path, f) /\ FailedTo(go, n, path, Len(nodes[n].kids) + 1)

LEMMA AnswerComes ==
  ASSUME TypeOK, IsTree, NEW go \in Searches, NEW n \in Ids, NEW path \in Seq(Characters), path # <<>>,
         NEW f, f # 0, AnswersFrom(go, n, path, 1, f)
  PROVE  Comes(go, n, path, f)
<1> DEFINE kids == nodes[n].kids
           m == Len(kids)
           T == {j \in Nat : \A k \in 1 .. m + 1 :
                   m + 1 - k <= j /\ AnswersFrom(go, n, path, k, f) /\ FailedTo(go, n, path, k) => Comes(go, n, path, f)}
<1>1. kids \in Seq(Nat) /\ m \in Nat
  BY NodeKids DEF TypeOK, Ids
<1> HIDE DEF m, kids
<1>2. ASSUME NEW k \in 1 .. m + 1, k = m + 1, AnswersFrom(go, n, path, k, f), FailedTo(go, n, path, k)
      PROVE  Comes(go, n, path, f)
  <2>1. k \in Nat \ {0} /\ ~(k <= Len(nodes[n].kids))
    BY <1>1, <1>2 DEF m, kids
  <2>2. FromWild(go, n, path, f)
    BY <2>1, <1>2, AnsweredWild
  <2> QED BY <2>2, <1>2 DEF Comes, m, kids
<1>3. 0 \in T
  <2> SUFFICES ASSUME NEW k \in 1 .. m + 1, m + 1 - k <= 0, AnswersFrom(go, n, path, k, f), FailedTo(go, n, path, k)
               PROVE  Comes(go, n, path, f)
    BY DEF T
  <2>1. k = m + 1
    BY <1>1
  <2> QED BY <2>1, <1>2
<1>4. ASSUME NEW j \in Nat, j \in T PROVE j + 1 \in T
  <2> SUFFICES ASSUME NEW k \in 1 .. m + 1, m + 1 - k <= j + 1, AnswersFrom(go, n, path, k, f), FailedTo(go, n, path, k)
               PROVE  Comes(go, n, path, f)
    BY DEF T
  <2>1. CASE k = m + 1
    BY <2>1, <1>2
  <2>2. CASE k # m + 1
    <3> DEFINE e == k + 1
    <3>1. k \in 1 .. m /\ k \in Nat \ {0} /\ e \in 1 .. m + 1 /\ m + 1 - e <= j
      <4>1. m + 1 - k <= j + 1 /\ k \in 1 .. m + 1 /\ m \in Nat /\ k # m + 1 /\ j \in Nat
        BY <1>1, <2>2
      <4> QED BY ONLY <4>1
    <3>2. k <= Len(nodes[n].kids)
      BY <3>1, <1>1 DEF m, kids
    <3>3. CASE FromChild(go, n, path, k, f)
      BY <3>1, <3>3 DEF Comes, m, kids
    <3>4. CASE /\ AnswersFrom(go, n, path, e, f)
               /\ \A left : IntoChild(n, path, nodes[n].kids[k], left) => FailsFrom(go, nodes[n].kids[k], left, 1)
      <4>1. \A i \in 1 .. e - 1 : i = k \/ i \in 1 .. k - 1
        BY <3>1
      <4>2. FailedTo(go, n, path, e)
        <5> HIDE DEF e
        <5> QED BY <4>1, <3>4 DEF FailedTo
      <4> HIDE DEF e
      <4> QED BY <4>2, <3>1, <3>4, <1>4 DEF T
    <3> HIDE DEF e
    <3> QED BY <3>1, <3>2, <3>3, <3>4, AnsweredHere DEF e
  <2> QED BY <2>1, <2>2
<1>5. T = Nat
  <2>1. T \in SUBSET Nat
    BY DEF T
  <2> HIDE DEF T
  <2> QED BY <2>1, <1>3, <1>4, Induction
<1>6. m \in T /\ 1 \in 1 .. m + 1 /\ m + 1 - 1 <= m
  <2> HIDE DEF T
  <2> QED BY <1>1, <1>5
<1>7. FailedTo(go, n, path, 1)
  BY DEF FailedTo
<1> QED BY <1>6, <1>7 DEF T

\* A branch uses up some of the path.
LEMMA BranchLess ==
  ASSUME TypeOK, IsTree, NEW n \in Ids, NEW path \in Seq(Characters), path # <<>>, NEW id \in Ids, NEW left,
         IntoChild(n, path, id, left) \/ IntoWild(n, path, id, left)
  PROVE  left \in Seq(Characters) /\ Len(left) < Len(path)
<1>1. Len(path) \in Nat /\ Len(path) > 0
  OBVIOUS
<1>2. ASSUME NEW m \in 1 .. Len(path), left = Trim(Trim(Drop(path, m)))
      PROVE  left \in Seq(Characters) /\ Len(left) < Len(path)
  <2> DEFINE d == Drop(path, m)
             e == Trim(d)
  <2>1. d \in Seq(Characters) /\ Len(d) = Len(path) - m
    <3>1. m \in 0 .. Len(path)
      BY <1>1
    <3> QED BY <3>1, Cut DEF IsCut
  <2> HIDE DEF d
  <2>2. e \in Seq(Characters) /\ Len(e) <= Len(d)
    BY <2>1, TrimLetters, TrimLength
  <2> HIDE DEF e
  <2>3. Trim(e) \in Seq(Characters) /\ Len(Trim(e)) <= Len(e) /\ Len(Trim(e)) \in Nat
    BY <2>2, TrimLetters, TrimLength
  <2>4. left = Trim(e)
    BY <1>2 DEF d, e
  <2> QED BY <2>1, <2>2, <2>3, <2>4, <1>1
<1>3. CASE IntoChild(n, path, id, left)
  <2> DEFINE c == nodes[id].path
  <2>1. c # <<>> /\ IsPrefix(c, path) /\ left = Trim(Trim(Drop(path, Len(c))))
    BY <1>3 DEF IntoChild
  <2>2. c \in Seq(Characters)
    <3>1. nodes[id] \in NodeType
      BY DEF TypeOK, Ids
    <3> QED BY <3>1 DEF NodeType
  <2> HIDE DEF c
  <2>3. Len(c) \in 1 .. Len(path)
    BY <2>1, <2>2 DEF IsPrefix
  <2> QED BY <2>1, <2>3, <1>2
<1>4. CASE IntoWild(n, path, id, left)
  <2> DEFINE v == Segment(path)
             m == Len(v) + 1
             d == Drop(path, m)
  <2>1. v # <<>> /\ left = Trim(d)
    BY <1>4 DEF IntoWild
  <2>2. v \in Seq(Letter) /\ d \in Seq(Characters)
    BY SegmentFacts
  <2> HIDE DEF v
  <2>3. Len(v) \in Nat /\ m \in Nat /\ m >= 2
    BY <2>1, <2>2
  <2>4. Len(d) < Len(path)
    <3>1. CASE m <= Len(path)
      <4>1. m \in 0 .. Len(path)
        BY <3>1, <2>3, <1>1
      <4> HIDE DEF m
      <4>2. Len(d) = Len(path) - m
        BY <4>1, Cut DEF IsCut
      <4> QED BY <4>1, <4>2, <2>3, <1>1
    <3>2. CASE m > Len(path)
      <4> HIDE DEF m
      <4>1. d = <<>>
        BY <3>2, <2>3, <1>1 DEF Drop
      <4> QED BY <4>1, <1>1, NoItems
    <3> QED BY <3>1, <3>2, <2>3, <1>1
  <2> HIDE DEF d
  <2>5. Trim(d) \in Seq(Characters) /\ Len(Trim(d)) <= Len(d) /\ Len(Trim(d)) \in Nat
    BY <2>2, TrimLetters, TrimLength
  <2> QED BY <2>1, <2>2, <2>4, <2>5, <1>1
<1> QED BY <1>3, <1>4

\* What search answers at a node is at one of those below it.
LEMMA AnswerInside ==
  ASSUME TypeOK, IsTree, NEW go \in Searches, NEW S \in SUBSET Ids, Closed(S),
         NEW n \in S, NEW q \in Seq(Characters), NEW f, f # 0, AnswersFrom(go, n, q, 1, f)
  PROVE  \E m \in S : nodes[m].handler = f
<1> DEFINE T == {l \in Nat : \A k \in S, r \in Seq(Characters) :
                  Len(r) < l /\ AnswersFrom(go, k, r, 1, f) => \E m \in S : nodes[m].handler = f}
<1>1. 0 \in T
  <2>1. \A r \in Seq(Characters) : ~(Len(r) < 0)
    OBVIOUS
  <2> QED BY <2>1
<1>2. ASSUME NEW l \in Nat, l \in T PROVE l + 1 \in T
  <2> SUFFICES ASSUME NEW k \in S, NEW r \in Seq(Characters), Len(r) < l + 1, AnswersFrom(go, k, r, 1, f)
               PROVE  \E m \in S : nodes[m].handler = f
    OBVIOUS
  <2>1. CASE r = <<>>
    <3>1. PICK p \in Params : go[[node |-> k, kid |-> 1, path |-> r, params |-> p]].route = f
      BY DEF AnswersFrom
    <3> DEFINE call == [node |-> k, kid |-> 1, path |-> r, params |-> p]
    <3>2. call \in Calls /\ call.node = k /\ call.path = <<>>
      BY <2>1 DEF Calls, Ids
    <3>3. go[call].route = nodes[k].handler
      <4> HIDE DEF call
      <4> QED BY <3>2 DEF Searches, Search, Result
    <3> QED BY <3>1, <3>3
  <2>2. CASE r # <<>>
    <3>0. k \in Ids
      OBVIOUS
    <3>1. Comes(go, k, r, f)
      BY <3>0, <2>2, AnswerComes
    <3>2. ASSUME NEW id \in S, NEW left, IntoChild(k, r, id, left) \/ IntoWild(k, r, id, left),
                 AnswersFrom(go, id, left, 1, f)
          PROVE  \E m \in S : nodes[m].handler = f
      <4>1. left \in Seq(Characters) /\ Len(left) < Len(r)
        BY <3>0, <3>2, <2>2, BranchLess
      <4>2. Len(left) < l
        <5>1. Len(left) \in Nat /\ Len(r) \in Nat
          BY <4>1
        <5> QED BY <5>1, <4>1
      <4> QED BY <4>1, <4>2, <3>2, <1>2
    <3>3. Kids(k) \subseteq S /\ (nodes[k].wild # 0 => nodes[k].wild \in S)
      BY DEF Closed
    <3>4. ASSUME NEW i \in 1 .. Len(nodes[k].kids), FromChild(go, k, r, i, f) PROVE \E m \in S : nodes[m].handler = f
      <4>1. PICK left \in Seq(Characters) :
              IntoChild(k, r, nodes[k].kids[i], left) /\ AnswersFrom(go, nodes[k].kids[i], left, 1, f)
        BY <3>4 DEF FromChild
      <4>2. nodes[k].kids[i] \in S
        BY <4>1, <3>3 DEF IntoChild
      <4> QED BY <4>1, <4>2, <3>2
    <3>5. ASSUME FromWild(go, k, r, f) PROVE \E m \in S : nodes[m].handler = f
      <4>1. nodes[k].wild \in S
        BY <3>3, <3>5 DEF FromWild
      <4>2. CASE f = nodes[nodes[k].wild].handler
        BY <4>1, <4>2
      <4>3. CASE \E left \in Seq(Characters) :
                   IntoWild(k, r, nodes[k].wild, left) /\ AnswersFrom(go, nodes[k].wild, left, 1, f)
        BY <4>1, <4>3, <3>2
      <4> QED BY <3>5, <4>2, <4>3 DEF FromWild
    <3> QED BY <3>1, <3>4, <3>5 DEF Comes
  <2> QED BY <2>1, <2>2
<1>3. T = Nat
  <2>1. T \in SUBSET Nat
    OBVIOUS
  <2> HIDE DEF T
  <2> QED BY <2>1, <1>1, <1>2, Induction
<1>4. Len(q) + 1 \in T /\ Len(q) < Len(q) + 1
  <2>1. Len(q) \in Nat
    OBVIOUS
  <2> HIDE DEF T
  <2> QED BY <2>1, <1>3
<1> QED BY <1>4

-----------------------------------------------------------------------------
(* The answer along the way of another route                               *)

\* Where the letters s and t part first, s has no placeholder unless t has.
Lenient(s, t) == \A k \in DOMAIN s \cap DOMAIN t :
  (\A j \in 1 .. k - 1 : s[j] = t[j]) /\ s[k] \in Holes => t[k] \in Holes

\* What both begin with does not matter.
LenientBehind(a, s, t) == Lenient(a \o s, a \o t)

LEMMA LenientFront ==
  ASSUME NEW E, NEW a \in Seq(E), NEW s \in Seq(E), NEW t \in Seq(E), Lenient(s, t)
  PROVE  LenientBehind(a, s, t)
<1> DEFINE u == a \o s
           v == a \o t
           n == Len(a)
<1>1. Joins(E, u, a, s) /\ Joins(E, v, a, t)
  BY ConcatItems
<1>2. /\ n \in Nat /\ Len(s) \in Nat /\ Len(t) \in Nat /\ Len(u) = n + Len(s) /\ Len(v) = n + Len(t)
      /\ DOMAIN u = 1 .. Len(u) /\ DOMAIN v = 1 .. Len(v) /\ DOMAIN s = 1 .. Len(s) /\ DOMAIN t = 1 .. Len(t)
  BY <1>1 DEF Joins
<1>3. /\ \A k \in 1 .. n : u[k] = a[k] /\ v[k] = a[k]
      /\ \A k \in 1 .. Len(s) : u[n + k] = s[k]
      /\ \A k \in 1 .. Len(t) : v[n + k] = t[k]
  BY <1>1 DEF Joins
<1> HIDE DEF u, v, n
<1>4. ASSUME NEW k \in DOMAIN u \cap DOMAIN v, \A j \in 1 .. k - 1 : u[j] = v[j], u[k] \in Holes PROVE v[k] \in Holes
  <2>1. CASE k \in 1 .. n
    BY <2>1, <1>3, <1>4
  <2>2. CASE k \notin 1 .. n
    <3> DEFINE l == k - n
    <3>1. l \in 1 .. Len(s) /\ l \in 1 .. Len(t) /\ k = n + l
      BY <2>2, <1>2
    <3>2. ASSUME NEW j \in 1 .. l - 1 PROVE s[j] = t[j]
      <4>1. n + j \in 1 .. k - 1 /\ j \in 1 .. Len(s) /\ j \in 1 .. Len(t)
        BY <3>1, <1>2
      <4> HIDE DEF l
      <4> QED BY <4>1, <1>3, <1>4
    <3> HIDE DEF l
    <3>3. s[l] \in Holes
      BY <3>1, <1>3, <1>4
    <3>4. t[l] \in Holes
      BY <3>1, <3>2, <3>3, <1>2 DEF Lenient
    <3> QED BY <3>1, <3>4, <1>3
  <2> QED BY <2>1, <2>2
<1>5. Lenient(u, v)
  BY <1>4 DEF Lenient
<1> QED BY <1>5 DEF LenientBehind, u, v

\* Letters that begin with a letter of a plain name, and some with a placeholder.
LEMMA LenientHere ==
  ASSUME NEW s, NEW t, s[1] \notin Holes, t[1] \in Holes, NEW m \in Nat, DOMAIN s = 1 .. m
  PROVE  Lenient(s, t)
<1> SUFFICES ASSUME NEW k \in 1 .. m, \A j \in 1 .. k - 1 : s[j] = t[j], s[k] \in Holes PROVE FALSE
  BY DEF Lenient
<1>1. k # 1 => 1 \in 1 .. k - 1
  OBVIOUS
<1> QED BY <1>1

\* The place of a letter in a text.
Placed(p, a, c) == \E r, w : AtLetter(p, r, c, w) /\ Letters(r) = a

\* A letter of the letters of a text is one of the text.
LEMMA LetterPlaced ==
  ASSUME NEW p \in Seq(Signs), NEW a \in Seq(Alphabet), NEW c \in Alphabet, NEW v \in Seq(Alphabet),
         Letters(p) = a \o (<< c >> \o v)
  PROVE  Placed(p, a, c)
<1> DEFINE o == << c >>
           cv == o \o v
           T == {n \in Nat : \A s \in Seq(Signs), b \in Seq(Alphabet) : Len(s) = n /\ Letters(s) = b \o cv => Placed(s, b, c)}
<1>0. o \in Seq(Alphabet) /\ cv \in Seq(Alphabet) /\ cv # <<>> /\ Head(cv) = c /\ c \in Signs
  BY DEF Alphabet
<1> HIDE DEF cv
<1>1. 0 \in T
  <2> SUFFICES ASSUME NEW s \in Seq(Signs), NEW b \in Seq(Alphabet), Len(s) = 0, Letters(s) = b \o cv PROVE FALSE
    OBVIOUS
  <2>1. Letters(s) = <<>>
    <3>1. s = <<>>
      OBVIOUS
    <3> QED BY <3>1, LettersFew
  <2>2. Len(b \o cv) = Len(b) + Len(cv) /\ Len(b) \in Nat /\ Len(cv) \in Nat /\ Len(cv) # 0
    BY <1>0
  <2>3. Len(b \o cv) = 0
    BY <2>1, NoItems
  <2> QED BY <2>2, <2>3
<1>2. ASSUME NEW n \in Nat, n \in T PROVE n + 1 \in T
  <2> SUFFICES ASSUME NEW s \in Seq(Signs), NEW b \in Seq(Alphabet), Len(s) = n + 1, Letters(s) = b \o cv
               PROVE  Placed(s, b, c)
    <3>1. n + 1 \in Nat
      OBVIOUS
    <3>2. (\A s \in Seq(Signs), b \in Seq(Alphabet) : Len(s) = n + 1 /\ Letters(s) = b \o cv => Placed(s, b, c)) => n + 1 \in T
      BY <3>1, Zenon
    <3> HIDE DEF T
    <3> QED BY <3>2
  <2> DEFINE x == Head(s)
             z == << x >>
             f == Tail(s)
             g == Letters(f)
  <2>1. x \in Signs /\ z \in Seq(Signs) /\ f \in Seq(Signs) /\ Len(f) = n /\ s = z \o f
    OBVIOUS
  <2> HIDE DEF f, x
  <2>2. Letters(s) = Letters(z) \o g /\ g \in Seq(Alphabet)
    <3> HIDE DEF z
    <3> QED BY <2>1, LettersConcat, LettersOfText
  <2> HIDE DEF g
  \* A place behind the first sign.
  <2>3. ASSUME NEW d \in Seq(Alphabet), Placed(f, d, c), Letters(z) \o d = b PROVE Placed(s, b, c)
    <3>1. PICK r, w : AtLetter(f, r, c, w) /\ Letters(r) = d
      BY <2>3 DEF Placed
    <3>2. r \in Seq(Signs) /\ w \in Seq(Signs) /\ f = r \o (o \o w)
      BY <3>1 DEF AtLetter
    <3> HIDE DEF z, o
    <3> DEFINE ow == o \o w
               q == z \o r
    <3>3. o \in Seq(Signs)
      BY <1>0 DEF o
    <3>4. ow \in Seq(Signs) /\ q \in Seq(Signs)
      BY <3>2, <3>3, <2>1
    <3> HIDE DEF ow
    <3>5. s = q \o ow
      <4>1. Assoc(Signs, z, r, ow)
        BY <2>1, <3>2, <3>4, Associates
      <4> QED BY <4>1, <2>1, <3>2 DEF Assoc, ow
    <3>6. Letters(q) = b
      BY <3>1, <3>2, <2>1, <2>3, LettersConcat
    <3> HIDE DEF q
    <3>7. AtLetter(s, q, c, w)
      BY <3>2, <3>4, <3>5 DEF AtLetter, ow, o
    <3> QED BY <3>6, <3>7 DEF Placed
  <2>4. CASE x = Slash
    <3>1. Letters(z) = <<>> /\ <<>> \o g = g /\ <<>> \o b = b
      BY <2>2, <2>4, LettersFew
    <3>2. g = b \o cv
      BY <3>1, <2>2
    <3>3. Placed(f, b, c)
      BY <3>2, <2>1, <1>2 DEF g
    <3> HIDE DEF z
    <3> QED BY <3>1, <3>3, <2>3
  <2>5. CASE x # Slash
    <3>1. Letters(z) = z
      BY <2>5, LettersFew
    <3>2. z \o g = b \o cv
      BY <3>1, <2>2
    <3>3. x \in Alphabet /\ z \in Seq(Alphabet)
      BY <2>1, <2>5 DEF Alphabet
    <3>4. CASE b = <<>>
      <4>1. z \o g = cv
        BY <3>2, <3>4, <1>0
      <4>2. x = c
        <5>1. Head(z \o g) = x
          BY <2>2
        <5> QED BY <5>1, <4>1, <1>0
      <4>3. s = <<>> \o (o \o f) /\ <<>> \in Seq(Signs)
        <5>1. o \o f \in Seq(Signs)
          BY <2>1, <1>0
        <5> QED BY <5>1, <2>1, <4>2
      <4> DEFINE e == <<>>
      <4>4. Letters(e) = b
        BY <3>4, LettersFew
      <4>5. AtLetter(s, e, c, f)
        BY <4>3, <2>1 DEF AtLetter
      <4> HIDE DEF e
      <4> QED BY <4>4, <4>5 DEF Placed
    <3>5. CASE b # <<>>
      <4> DEFINE d == Tail(b)
                 y == << Head(b) >>
      <4>1. d \in Seq(Alphabet) /\ b = y \o d /\ y \in Seq(Alphabet) /\ Head(b) \in Alphabet
        BY <3>5
      <4> HIDE DEF d
      <4>2. b \o cv = y \o (d \o cv)
        <5> HIDE DEF y
        <5>1. Assoc(Alphabet, y, d, cv)
          BY <4>1, <1>0, Associates
        <5> QED BY <5>1, <4>1 DEF Assoc
      <4> DEFINE dc == d \o cv
      <4>3. dc \in Seq(Alphabet)
        BY <4>1, <1>0
      <4> HIDE DEF dc
      <4>4. z \o g = y \o dc
        BY <3>2, <4>2 DEF dc
      <4>5. Head(z \o g) = x /\ Tail(z \o g) = g /\ Head(y \o dc) = Head(b) /\ Tail(y \o dc) = dc
        BY ONLY <2>2, <4>3
      <4>6. x = Head(b) /\ g = dc
        BY <4>4, <4>5
      <4>7. Placed(f, d, c)
        BY <4>1, <4>6, <2>1, <1>2 DEF g, dc
      <4>8. Letters(z) \o d = b
        BY <3>1, <4>1, <4>6
      <4> HIDE DEF z
      <4> QED BY <4>1, <4>7, <4>8, <2>3
    <3> QED BY <3>4, <3>5
  <2> QED BY <2>4, <2>5
<1>3. T = Nat
  <2>1. T \in SUBSET Nat
    OBVIOUS
  <2> HIDE DEF T
  <2> QED BY <2>1, <1>1, <1>2, Induction
<1>4. Len(p) \in T
  <2> HIDE DEF T
  <2> QED BY <1>3
<1> QED BY <1>4 DEF cv

-----------------------------------------------------------------------------
(* What the search on the way of a route answers                           *)

\* The letters of a text behind its first sign, which is no slash.
SpeltOn(s, v) == v \in Seq(Alphabet) /\ Head(s) \in Alphabet /\ Letters(s) = << Head(s) >> \o v

LEMMA FirstSpelt ==
  ASSUME NEW s \in Seq(Signs), s # <<>>, Head(s) # Slash
  PROVE  \E v : SpeltOn(s, v)
<1> DEFINE x == Head(s)
           z == << x >>
           t == Tail(s)
<1>1. x \in Signs /\ z \in Seq(Signs) /\ t \in Seq(Signs) /\ s = z \o t /\ x # Slash
  OBVIOUS
<1> HIDE DEF x, t
<1>2. Letters(z) = z
  BY <1>1, LettersFew
<1> HIDE DEF z
<1>3. Letters(s) = z \o Letters(t)
  BY <1>1, <1>2, LettersConcat
<1>4. Letters(t) \in Seq(Alphabet)
  BY <1>1, LettersOfText
<1> QED BY <1>1, <1>3, <1>4 DEF SpeltOn, Alphabet, x, z

\* A route has the letter c behind the text of n.
GoesWith(n, c, f) == \E v \in Seq(Alphabet) : Letters(Pattern(routes[f])) = text[n] \o (<< c >> \o v)

\* What the search of a child answers.
LEMMA ChildGoesWith ==
  ASSUME TypeOK, IsTree, TextsSpelled, NEW go \in Searches, NEW n \in Ids, NEW k \in Kids(n),
         nodes[k].path # <<>>, Head(nodes[k].path) # Slash,
         NEW q \in Seq(Characters), NEW f, f # 0, AnswersFrom(go, k, q, 1, f)
  PROVE  GoesWith(n, Head(nodes[k].path), f) /\ f \in 1 .. begun
<1> DEFINE c == nodes[k].path
           b == text[n]
<1>1. k \in Ids /\ c \in Seq(Characters) /\ c \in Seq(Signs)
  <2>1. k \in Ids /\ nodes[k] \in NodeType
    BY KidIsNode
  <2>2. c \in Seq(Characters)
    BY <2>1 DEF NodeType
  <2> HIDE DEF c
  <2> QED BY <2>1, <2>2 DEF Signs
<1>2. Closed(Beneath(k)) /\ k \in Beneath(k) /\ Beneath(k) \in SUBSET Ids
  BY <1>1, BeneathClosed DEF Beneath
<1>3. PICK m \in Beneath(k) : nodes[m].handler = f
  BY <1>2, AnswerInside
<1>4. m \in Ids /\ text[k] \in Seq(Alphabet) /\ b \in Seq(Alphabet)
  BY <1>1, TextType DEF Beneath
<1>5. Letters(Pattern(routes[f])) = text[m] /\ text[k] = b \o Letters(c)
  BY <1>3, <1>4 DEF TextsSpelled
<1>6. PICK u \in Seq(Alphabet) : text[m] = text[k] \o u
  BY DEF Beneath
<1>7. PICK v : SpeltOn(c, v)
  <2> HIDE DEF c
  <2> QED BY <1>1, FirstSpelt DEF c
<1>8. f \in 1 .. begun
  <2>1. nodes[m].handler \in 0 .. begun /\ begun \in Nat
    BY <1>4 DEF IsTree, TypeOK
  <2> QED BY <2>1, <1>3
<1> DEFINE x == Head(c)
           z == << x >>
           zv == z \o v
           vu == v \o u
<1>9. Letters(c) = zv /\ z \in Seq(Alphabet) /\ v \in Seq(Alphabet) /\ zv \in Seq(Alphabet) /\ vu \in Seq(Alphabet)
  BY <1>7 DEF SpeltOn
<1> HIDE DEF z, b, zv, vu, c, x
<1>10. Assoc(Alphabet, b, zv, u) /\ Assoc(Alphabet, z, v, u)
  BY <1>4, <1>9, Associates
<1>11. (b \o zv) \o u = b \o (zv \o u) /\ zv \o u = z \o vu
  BY <1>10 DEF Assoc, zv, vu
<1>12. Letters(Pattern(routes[f])) = b \o (z \o vu)
  BY <1>5, <1>6, <1>9, <1>11
<1> QED BY <1>8, <1>9, <1>12 DEF GoesWith, b, z, x, c

\* f is later than i, or i is behind it for what it doubles, or f is as near.
Nearer(f, i) == /\ Lenient(Letters(Pattern(routes[f])), Letters(Pattern(routes[i])))
                /\ Pattern(routes[i]) = Pattern(routes[f]) => i <= f
Better(f, i) == (f < i /\ Doubled(f, i)) \/ Nearer(f, i)

\* The way of a route.
OnWay(i, D, way) ==
  /\ i \in Nat /\ ~BehindRest(Pattern(routes[i]))
  /\ Leads(nodes, text, Pattern(routes[i]), Clean(i), Holders(i), D, way, 0, <<>>)

\* What is left on the way.
IsLeft(i, n, s) == n \in Ids /\ s \in Seq(Signs) /\ Letters(Pattern(routes[i])) = text[n] \o Letters(s)

LEMMA WayLetters ==
  ASSUME TypeOK, NEW i, NEW D, NEW way, OnWay(i, D, way), NEW n \in D
  PROVE  IsLeft(i, n, way[n])
<1>1. PICK q \in Seq(Signs) : Pattern(routes[i]) = q \o way[n] /\ Letters(q) = text[n]
  BY DEF OnWay, Leads, Leaves
<1>2. n \in Ids /\ way[n] \in Seq(Signs)
  BY DEF OnWay, Leads, Ids
<1> QED BY <1>1, <1>2, LettersConcat DEF IsLeft

\* A node where the way ends.
LEMMA EndBetter ==
  ASSUME TypeOK, TextsSpelled, NEW i, NEW D, NEW way, OnWay(i, D, way), NEW n \in D,
         way[n] = <<>>, n \in Holders(i), NEW f, f # 0, f = nodes[n].handler
  PROVE  Better(f, i)
<1> DEFINE s == Letters(Pattern(routes[f]))
           t == Letters(Pattern(routes[i]))
<1>1. n \in Ids /\ t = text[n] \o Letters(<<>>)
  <2>1. IsLeft(i, n, way[n])
    BY WayLetters
  <2> QED BY <2>1 DEF IsLeft
<1>2. text[n] \o <<>> = text[n]
  BY <1>1, TextType
<1>3. s = text[n] /\ i <= f
  BY <1>1 DEF TextsSpelled, Holders
<1>4. s = t
  BY <1>1, <1>2, <1>3, LettersFew
<1> HIDE DEF s, t
<1>5. Lenient(s, t)
  BY <1>4 DEF Lenient
<1> QED BY <1>3, <1>5 DEF Better, Nearer, s, t

\* Letters that part where the second have a placeholder and the first have none.
PartHere(b, c, v, h, w) ==
  /\ b \in Seq(Alphabet) /\ v \in Seq(Alphabet) /\ w \in Seq(Alphabet)
  /\ c \in Alphabet \ Holes /\ h \in Alphabet \cap Holes

LEMMA PlainIsNearer ==
  ASSUME NEW b, NEW c, NEW v, NEW h, NEW w, PartHere(b, c, v, h, w), NEW f, NEW i,
         Letters(Pattern(routes[f])) = b \o (<< c >> \o v), Letters(Pattern(routes[i])) = b \o (<< h >> \o w)
  PROVE  Nearer(f, i)
<1> DEFINE s == << c >> \o v
           t == << h >> \o w
           bs == b \o s
           bt == b \o t
<1>1. b \in Seq(Alphabet) /\ s \in Seq(Alphabet) /\ t \in Seq(Alphabet)
  BY DEF PartHere
<1>2. s[1] = c /\ t[1] = h /\ DOMAIN s = 1 .. Len(s) /\ Len(s) \in Nat
  BY DEF PartHere
<1>3. c \notin Holes /\ h \in Holes
  BY DEF PartHere
<1>4. Letters(Pattern(routes[f])) = bs /\ Letters(Pattern(routes[i])) = bt
  OBVIOUS
<1> HIDE DEF s, t
<1>5. Lenient(s, t)
  BY <1>2, <1>3, LenientHere
<1>6. Lenient(bs, bt)
  BY <1>1, <1>5, LenientFront DEF LenientBehind
<1>7. bs # bt
  BY <1>1, <1>2, <1>3, CancelLeft
<1> HIDE DEF bs, bt
<1>8. Pattern(routes[f]) # Pattern(routes[i])
  BY <1>4, <1>7
<1> QED BY <1>4, <1>6, <1>8 DEF Nearer

\* A path that begins with an edge begins with its first sign.
LEMMA PrefixHead ==
  ASSUME NEW E, NEW c \in Seq(E), NEW q \in Seq(E), c # <<>>, IsPrefix(c, q)
  PROVE  Head(c) = Head(q) /\ q # <<>>
<1> DEFINE d == Drop(q, Len(c))
<1>1. q = c \o d /\ d \in Seq(E)
  BY PrefixFacts
<1> HIDE DEF d
<1>2. Head(c \o d) = Head(c) /\ Len(c \o d) = Len(c) + Len(d) /\ Len(c) > 0 /\ Len(d) \in Nat
  BY <1>1
<1>3. q # <<>>
  BY <1>1, <1>2
<1> QED BY <1>1, <1>2, <1>3

\* What comes from below m, with what is left on the way, is better.
Trusted(go, d, A, segs, B, way, m, f, i) ==
  \A r \in Seq(Characters) : Abreast(d, A, segs, B, way[m], r) /\ AnswersFrom(go, m, r, 1, f) => Better(f, i)

\* A node where the way goes on by the wildcard.
LEMMA WildBetter ==
  ASSUME TypeOK, IsTree, TextsSpelled, NEW go \in Searches, NEW d, NEW A, NEW segs, NEW B, Lined(d, A, segs, B),
         NEW i, NEW D, NEW way, OnWay(i, D, way),
         NEW n \in D, NEW m \in D, NEW t \in Seq(Signs), m # 0, m = nodes[n].wild,
         way[n] = << nodes[m].hole >> \o t, way[m] = Trim(Trim(t)),
         NEW q \in Seq(Characters), Abreast(d, A, segs, B, way[n], q),
         NEW f, f # 0, AnswersFrom(go, n, q, 1, f), Trusted(go, d, A, segs, B, way, m, f, i)
  PROVE  Better(f, i)
<1> DEFINE h == nodes[m].hole
<1>1. n \in Ids /\ IsLeft(i, n, way[n]) /\ h \in Holes /\ h \in Signs
  <2>1. IsLeft(i, n, way[n])
    BY WayLetters
  <2>2. n \in Ids
    BY <2>1 DEF IsLeft
  <2> QED BY <2>1, <2>2 DEF IsTree, Signs
<1>2. q # <<>> /\ Head(q) # Slash /\ (h \notin CatchAlls => TakesSegment(d, A, segs, B, t, q))
  <2>1. Abreast(d, A, segs, B, << h >> \o t, q)
    OBVIOUS
  <2> HIDE DEF h
  <2> QED BY <2>1, <1>1, AbreastHole
<1>3. Comes(go, n, q, f)
  BY <1>1, <1>2, AnswerComes
<1>4. ASSUME NEW y \in 1 .. Len(nodes[n].kids), FromChild(go, n, q, y, f) PROVE Better(f, i)
  <2> DEFINE k == nodes[n].kids[y]
             c == nodes[k].path
             x == Head(c)
             b == text[n]
  <2>1. PICK left \in Seq(Characters) : IntoChild(n, q, k, left) /\ AnswersFrom(go, k, left, 1, f)
    BY <1>4 DEF FromChild
  <2>2. k \in Kids(n) /\ c # <<>> /\ IsPrefix(c, q)
    BY <2>1 DEF IntoChild
  <2>3. c \in Seq(Characters)
    <3>1. nodes[k] \in NodeType
      BY <1>1, <2>2, KidIsNode
    <3> HIDE DEF k
    <3> QED BY <3>1 DEF NodeType
  <2>4. x = Head(q) /\ x \in Characters
    <3> HIDE DEF c
    <3> QED BY <2>2, <2>3, PrefixHead
  <2>5. GoesWith(n, x, f)
    <3> HIDE DEF k
    <3> QED BY <2>1, <2>2, <2>4, <1>1, <1>2, ChildGoesWith
  <2> HIDE DEF k, c, x
  <2>6. PICK v \in Seq(Alphabet) : Letters(Pattern(routes[f])) = b \o (<< x >> \o v)
    BY <2>5 DEF GoesWith
  <2> DEFINE s == << h >> \o t
  <2>7. s # <<>> /\ Head(s) = h /\ s \in Seq(Signs)
    <3> HIDE DEF h
    <3> QED BY <1>1
  <2>8. Letters(Pattern(routes[i])) = b \o Letters(s) /\ h # Slash
    BY <1>1, SlashIsNoHole DEF IsLeft
  <2> HIDE DEF s, h
  <2>9. PICK w : SpeltOn(s, w)
    BY <2>7, <2>8, FirstSpelt
  <2>10. Letters(Pattern(routes[i])) = b \o (<< h >> \o w) /\ w \in Seq(Alphabet) /\ h \in Alphabet
    BY <2>7, <2>8, <2>9 DEF SpeltOn
  <2>11. b \in Seq(Alphabet)
    BY <1>1, TextType
  <2> HIDE DEF b
  <2>12. PartHere(b, x, v, h, w)
    <3>1. x \in Alphabet \ Holes
      BY <2>4, <1>2, SlashIsNoHole DEF Alphabet, Signs
    <3> QED BY <3>1, <2>10, <2>11, <1>1 DEF PartHere
  <2>13. Nearer(f, i)
    BY <2>6, <2>10, <2>12, PlainIsNearer
  <2> QED BY <2>13 DEF Better
<1>5. ASSUME FromWild(go, n, q, f) PROVE Better(f, i)
  <2>1. CASE h \in CatchAlls /\ f = nodes[m].handler
    <3>1. RestAhead(way, n, m, t)
      BY <1>1, <2>1 DEF RestAhead
    <3>2. way[m] = <<>> /\ m \in Holders(i)
      BY <3>1, RestEndsWay DEF OnWay
    <3> QED BY <3>2, <2>1, EndBetter
  <2>2. CASE \E left \in Seq(Characters) : IntoWild(n, q, m, left) /\ AnswersFrom(go, m, left, 1, f)
    <3>1. PICK left \in Seq(Characters) : IntoWild(n, q, m, left) /\ AnswersFrom(go, m, left, 1, f)
      BY <2>2
    <3>2. h \notin CatchAlls /\ left = Trim(Drop(q, Len(Segment(q)) + 1))
      BY <3>1 DEF IntoWild
    <3>3. Abreast(d, A, segs, B, way[m], left)
      BY <3>2, <1>2 DEF TakesSegment
    <3> QED BY <3>1, <3>3 DEF Trusted
  <2> QED BY <1>5, <2>1, <2>2 DEF FromWild
<1> QED BY <1>3, <1>4, <1>5 DEF Comes

\* The letters of a text, parted at one of them.
SpeltAt(p, q, c) == \E v \in Seq(Alphabet) : Letters(p) = Letters(q) \o (<< c >> \o v)

LEMMA LettersAt == ASSUME NEW p, NEW q, NEW c, NEW b, AtLetter(p, q, c, b) PROVE SpeltAt(p, q, c)
<1> DEFINE z == << c >>
           v == Letters(b)
           zb == z \o b
<1>1. q \in Seq(Signs) /\ z \in Seq(Signs) /\ b \in Seq(Signs) /\ p = q \o zb /\ c # Slash
  BY DEF AtLetter, Alphabet
<1>2. Letters(z) = z
  BY <1>1, LettersFew
<1> HIDE DEF z
<1>3. Letters(zb) = z \o v
  BY <1>1, <1>2, LettersConcat
<1>4. zb \in Seq(Signs) /\ v \in Seq(Alphabet)
  BY <1>1, LettersOfText
<1> HIDE DEF zb, v
<1>5. Letters(p) = Letters(q) \o (z \o v)
  BY <1>1, <1>3, <1>4, LettersConcat
<1> QED BY <1>4, <1>5 DEF z, SpeltAt

\* What has no placeholders, behind a common text.
LEMMA PlainlyIsNearer ==
  ASSUME NEW f, NEW i, NEW n, text[n] \in Seq(Alphabet), Plainly(f, n), i <= f, NEW s, IsLeft(i, n, s)
  PROVE  Nearer(f, i)
<1> DEFINE b == text[n]
<1>1. PICK r \in Seq(Characters) : Letters(Pattern(routes[f])) = b \o Letters(r)
  BY DEF Plainly
<1> DEFINE u == Letters(r)
           v == Letters(s)
           bu == b \o u
           bv == b \o v
<1>2. u \in Seq(Letter) /\ Letters(Pattern(routes[i])) = bv /\ s \in Seq(Signs)
  BY LettersType DEF Letter, IsLeft
<1>3. v \in Seq(Alphabet)
  BY <1>2, LettersOfText
<1>4. Letters(Pattern(routes[f])) = bu
  BY <1>1
<1> HIDE DEF u, v
<1>5. u \in Seq(Alphabet) /\ \A k \in DOMAIN u : u[k] \notin Holes
  <2>1. Letter \subseteq Alphabet /\ \A c \in Letter : c \notin Holes
    BY Letterwise, SlashIsNoHole DEF Letter
  <2>2. u \in Seq(Alphabet)
    BY <2>1, <1>2
  <2>3. \A k \in DOMAIN u : u[k] \in Letter
    BY <1>2
  <2> QED BY <2>1, <2>2, <2>3
<1>6. Lenient(u, v)
  BY <1>5 DEF Lenient
<1> HIDE DEF b
<1>7. b \in Seq(Alphabet)
  BY DEF b
<1>8. Lenient(bu, bv)
  BY <1>3, <1>5, <1>6, <1>7, LenientFront DEF LenientBehind
<1> HIDE DEF bu, bv
<1> QED BY <1>2, <1>4, <1>8 DEF Nearer

\* A route with the letter of i where those that have it are doubled by i.
LEMMA PartedDoubles ==
  ASSUME TypeOK, NEW i \in DOMAIN routes, NEW f \in DOMAIN routes, Apart(i), NEW n, text[n] \in Seq(Alphabet),
         Parted(i, n), NEW s, IsLeft(i, n, s), s # <<>>, Head(s) # Slash, GoesWith(n, Head(s), f)
  PROVE  Doubled(f, i)
<1> DEFINE b == text[n]
           c == Head(s)
           z == << c >>
<1>1. PICK q, x, e : /\ AtLetter(Pattern(routes[i]), q, x, e) /\ Letters(q) = b
                     /\ \A g \in DOMAIN routes : HasSign(q, x, g) => Doubled(g, i)
  BY DEF Parted
<1>2. PICK v \in Seq(Alphabet) : Letters(Pattern(routes[i])) = b \o (<< x >> \o v)
  <2> DEFINE p == Pattern(routes[i])
  <2>1. AtLetter(p, q, x, e) /\ Letters(q) = b
    BY <1>1
  <2> HIDE DEF p, b
  <2>2. PICK v \in Seq(Alphabet) : Letters(p) = Letters(q) \o (<< x >> \o v)
    <3>1. SpeltAt(p, q, x)
      BY <2>1, LettersAt
    <3> QED BY <3>1 DEF SpeltAt
  <2> QED BY <2>1, <2>2 DEF p
<1>3. PICK w : SpeltOn(s, w)
  BY FirstSpelt DEF IsLeft
<1>4. Letters(Pattern(routes[i])) = b \o (z \o w) /\ z \in Seq(Alphabet) /\ w \in Seq(Alphabet) /\ c \in Alphabet
  BY <1>3 DEF SpeltOn, IsLeft
<1>5. x = c
  <2> DEFINE xv == << x >> \o v
             zw == z \o w
  <2>1. xv \in Seq(Alphabet) /\ zw \in Seq(Alphabet) /\ xv[1] = x /\ zw[1] = c
    <3>1. x \in Alphabet
      BY <1>1 DEF AtLetter
    <3> HIDE DEF c
    <3> QED BY <3>1, <1>4
  <2>2. b \o xv = b \o zw
    BY <1>2, <1>4
  <2> HIDE DEF xv, zw, z, b
  <2>3. xv = zw
    BY <2>1, <2>2, CancelLeft DEF b
  <2> QED BY <2>1, <2>3
<1>6. PICK u \in Seq(Alphabet) : Letters(Pattern(routes[f])) = b \o (z \o u)
  BY DEF GoesWith
<1>7. Pattern(routes[f]) \in Seq(Signs)
  BY RouteFile, PatternType
<1>8. Placed(Pattern(routes[f]), b, c)
  <2> HIDE DEF b, c
  <2>1. b \in Seq(Alphabet)
    BY DEF b
  <2> QED BY <2>1, <1>4, <1>6, <1>7, LetterPlaced
<1>9. PICK r, y : AtLetter(Pattern(routes[f]), r, c, y) /\ Letters(r) = b
  BY <1>8 DEF Placed
<1> HIDE DEF b, c
<1>10. q = r
  BY <1>1, <1>5, <1>9, SameFront
<1>11. HasSign(q, x, f)
  <2>1. r \in Seq(Signs) /\ z \in Seq(Signs) /\ y \in Seq(Signs) /\ Pattern(routes[f]) = r \o (z \o y)
    BY <1>9 DEF AtLetter, Alphabet
  <2> HIDE DEF z
  <2>2. Pattern(routes[f]) = (r \o z) \o y
    <3>1. Assoc(Signs, r, z, y)
      BY <2>1, Associates
    <3> QED BY <3>1, <2>1 DEF Assoc
  <2> DEFINE rz == r \o z
  <2>3. rz \in Seq(Signs)
    BY <2>1
  <2>4. Pattern(routes[f]) = rz \o y
    BY <2>2
  <2> HIDE DEF rz
  <2>5. IsPrefix(rz, Pattern(routes[f]))
    BY <2>1, <2>3, <2>4, PrefixOf
  <2> QED BY <2>5, <1>5, <1>10 DEF HasSign, rz, z
<1> QED BY <1>1, <1>11

\* A child in front of the one on the way that begins like it.
LEMMA RivalBetter ==
  ASSUME TypeOK, IsTree, TextsSpelled, NEW go \in Searches, NEW i \in DOMAIN routes, Apart(i),
         1 .. begun \subseteq DOMAIN routes, NEW n \in Ids, NEW x, NEW y, Rivals(n, x, y), nodes[n].kids[x] \in Clean(i),
         NEW s, IsLeft(i, n, s), s # <<>>, Head(s) # Slash, Head(s) = Head(nodes[nodes[n].kids[x]].path),
         NEW q, NEW f, f # 0, FromChild(go, n, q, y, f)
  PROVE  Better(f, i)
<1> DEFINE k == nodes[n].kids[y]
<1>1. x \in Nat /\ y \in Nat /\ Head(nodes[k].path) = Head(s)
  <2>1. nodes[n] \in NodeType
    BY DEF TypeOK, Ids
  <2>2. Len(nodes[n].kids) \in Nat
    BY <2>1, NodeKids
  <2> QED BY <2>2 DEF Rivals
<1>2. Screened(i, n, k) /\ Parted(i, n)
  BY <1>1 DEF Clean
<1>3. PICK S : Screens(S, i, n, k)
  BY <1>2 DEF Screened
<1>4. S \in SUBSET Ids /\ Closed(S) /\ k \in S
  BY <1>3 DEF Screens, Encloses, Closed
<1>5. PICK left \in Seq(Characters) : IntoChild(n, q, k, left) /\ AnswersFrom(go, k, left, 1, f)
  BY DEF FromChild
<1>6. k \in Kids(n) /\ nodes[k].path # <<>>
  BY <1>5 DEF IntoChild
<1> HIDE DEF k
<1>7. GoesWith(n, Head(s), f) /\ f \in 1 .. begun
  BY <1>1, <1>5, <1>6, ChildGoesWith
<1>8. PICK m \in S : nodes[m].handler = f
  BY <1>4, <1>5, AnswerInside
<1>9. Before(f, i, n)
  BY <1>3, <1>8 DEF Screens
<1>10. f \in DOMAIN routes /\ f \in Nat /\ i \in Nat /\ text[n] \in Seq(Alphabet)
  <2>1. DOMAIN routes \subseteq Nat
    BY DEF TypeOK
  <2> QED BY <2>1, <1>7, TextType
<1>11. CASE f < i
  <2>1. Doubled(f, i)
    BY <1>2, <1>7, <1>10, PartedDoubles
  <2> QED BY <2>1, <1>11 DEF Better
<1>12. CASE ~(f < i)
  <2>1. Plainly(f, n) /\ i <= f
    BY <1>9, <1>10, <1>12 DEF Before
  <2>2. Nearer(f, i)
    BY <2>1, <1>10, PlainlyIsNearer
  <2> QED BY <2>2 DEF Better
<1> QED BY <1>11, <1>12

\* A node where the way goes on by a child.
LEMMA KidBetter ==
  ASSUME TypeOK, IsTree, TextsSpelled, NEW go \in Searches, NEW d, NEW A, NEW segs, NEW B, Lined(d, A, segs, B),
         NEW i \in DOMAIN routes, Apart(i), 1 .. begun \subseteq DOMAIN routes, NEW D, NEW way, OnWay(i, D, way),
         PassesAll(go, D, way, d, A, segs, B),
         NEW n \in D, NEW m \in D, NEW t \in Seq(Signs), m \in Kids(n), nodes[m].path # <<>>,
         way[n] = nodes[m].path \o t, way[m] = Trim(Trim(t)), Trimmed(way[n]),
         NEW q \in Seq(Characters), Abreast(d, A, segs, B, way[n], q),
         NEW f, f # 0, AnswersFrom(go, n, q, 1, f), Trusted(go, d, A, segs, B, way, m, f, i)
  PROVE  Better(f, i)
<1> DEFINE s == way[n]
           c == nodes[m].path
<1>1. n \in Ids /\ IsLeft(i, n, s)
  <2>1. IsLeft(i, n, way[n])
    BY WayLetters
  <2> QED BY <2>1 DEF IsLeft
<1>2. LeadsOn(d, A, segs, B, n, m, t, q)
  BY <1>1, ChildLeadsOn
<1>3. PICK left \in Seq(Characters) : IntoChild(n, q, m, left) /\ Abreast(d, A, segs, B, way[m], left)
  BY <1>2 DEF LeadsOn
<1>4. q # <<>> /\ Head(q) = Head(c) /\ ~FailsFrom(go, m, left, 1)
  BY <1>2, <1>3 DEF LeadsOn, PassesAll
<1>5. c \in Seq(Characters) /\ nodes[n].kids \in Seq(Nat)
  <2>1. nodes[m] \in NodeType /\ nodes[n] \in NodeType
    BY <1>1, KidIsNode
  <2> QED BY <2>1 DEF NodeType
<1>6. s # <<>> /\ Head(s) = Head(c) /\ Head(s) # Slash
  <2>1. s = c \o t /\ Trimmed(s) /\ c # <<>>
    OBVIOUS
  <2> HIDE DEF s, c
  <2>2. c \in Seq(Signs)
    BY <1>5 DEF Signs
  <2>3. Len(c \o t) = Len(c) + Len(t) /\ Len(c) > 0 /\ Len(t) \in Nat /\ Head(c \o t) = Head(c)
    BY <2>1, <2>2
  <2>4. s # <<>>
    BY <2>1, <2>3
  <2> QED BY <2>1, <2>3, <2>4 DEF Trimmed
<1>7. PICK x \in 1 .. Len(nodes[n].kids) : nodes[n].kids[x] = m
  BY <1>5 DEF Kids, ToSet
<1>8. Comes(go, n, q, f)
  BY <1>1, <1>4, AnswerComes
<1> HIDE DEF s
<1>9. ASSUME NEW l \in Nat, x < l, FailedTo(go, n, q, l) PROVE FALSE
  <2>1. x \in 1 .. l - 1
    BY <1>9
  <2> QED BY <2>1, <1>3, <1>4, <1>7, <1>9 DEF FailedTo
<1>10. ASSUME NEW y \in 1 .. Len(nodes[n].kids), FromChild(go, n, q, y, f), FailedTo(go, n, q, y) PROVE Better(f, i)
  <2> DEFINE k == nodes[n].kids[y]
  <2>1. CASE y = x
    <3>1. PICK l : IntoChild(n, q, m, l) /\ AnswersFrom(go, m, l, 1, f)
      BY <2>1, <1>7, <1>10 DEF FromChild
    <3>2. l = left
      BY <3>1, <1>3 DEF IntoChild
    <3> QED BY <3>1, <3>2, <1>3 DEF Trusted
  <2>2. CASE y < x
    <3>1. Head(nodes[k].path) = Head(c)
      <4>1. k \in Kids(n) /\ nodes[k].path # <<>> /\ IsPrefix(nodes[k].path, q)
        BY <1>10 DEF FromChild, IntoChild
      <4> DEFINE e == nodes[k].path
      <4>2. e \in Seq(Characters)
        <5>1. nodes[k] \in NodeType
          BY <4>1, <1>1, KidIsNode
        <5> QED BY <5>1 DEF NodeType
      <4> HIDE DEF e
      <4>3. Head(e) = Head(q)
        BY <4>1, <4>2, PrefixHead DEF e
      <4> QED BY <4>3, <1>4 DEF e
    <3>2. Rivals(n, x, y)
      <4>1. y \in 1 .. x - 1
        BY <2>2
      <4> QED BY <4>1, <3>1, <1>7 DEF Rivals
    <3>3. m \in Clean(i)
      BY DEF OnWay, Leads
    <3> QED BY <3>2, <3>3, <1>1, <1>6, <1>7, <1>10, RivalBetter
  <2>3. CASE x < y
    BY <2>3, <1>9, <1>10
  <2> QED BY <2>1, <2>2, <2>3
<1>11. ASSUME FailedTo(go, n, q, Len(nodes[n].kids) + 1) PROVE FALSE
  <2>1. Len(nodes[n].kids) \in Nat
    BY <1>5
  <2>2. x < Len(nodes[n].kids) + 1 /\ Len(nodes[n].kids) + 1 \in Nat
    BY <2>1
  <2> QED BY <2>2, <1>9, <1>11
<1> QED BY <1>8, <1>10, <1>11 DEF Comes

\* What the search answers with less than l left of the pattern is better.
Follows(go, d, A, segs, B, D, way, f, i, l) ==
  \A n \in D : Len(way[n]) < l /\ Trimmed(way[n]) => Trusted(go, d, A, segs, B, way, n, f, i)

\* What is behind a beginning of an end is an end.
LEMMA EndOfEnd ==
  ASSUME NEW p, NEW c \in Seq(Signs), NEW t \in Seq(Signs), EndsWith(Signs, p, c \o t)
  PROVE  EndsWith(Signs, p, t)
<1>1. PICK q \in Seq(Signs) : p = q \o (c \o t)
  BY DEF EndsWith
<1>2. Assoc(Signs, q, c, t)
  BY Associates
<1>3. p = (q \o c) \o t /\ q \o c \in Seq(Signs)
  BY <1>1, <1>2 DEF Assoc
<1> QED BY <1>3 DEF EndsWith

\* What is left on the way behind an edge does not begin with a slash.
LEMMA NextIsTrimmed ==
  ASSUME NEW i \in DOMAIN routes, TypeOK, NEW D, NEW way, OnWay(i, D, way), NEW n \in D,
         NEW c \in Seq(Signs), NEW t \in Seq(Signs), way[n] = c \o t
  PROVE  Trimmed(Trim(Trim(t)))
<1> DEFINE p == Pattern(routes[i])
           u == Trim(t)
<1>1. EndsWith(Signs, p, c \o t)
  BY DEF OnWay, Leads, Leaves, EndsWith
<1>2. EndsWith(Signs, p, t)
  <2> HIDE DEF p
  <2> QED BY <1>1, EndOfEnd
<1>3. Trimmed(u)
  BY <1>2, RouteFile, EndIsTrimmed
<1> HIDE DEF u
<1>4. Trim(u) = u
  BY <1>3 DEF Trim, Trimmed
<1> QED BY <1>3, <1>4 DEF u

\* So it is with whatever is left.
LEMMA WayFollows ==
  ASSUME TypeOK, IsTree, TextsSpelled, NEW go \in Searches, NEW d, NEW A, NEW segs, NEW B, Lined(d, A, segs, B),
         NEW i \in DOMAIN routes, Apart(i), 1 .. begun \subseteq DOMAIN routes, NEW D, NEW way, OnWay(i, D, way),
         PassesAll(go, D, way, d, A, segs, B), NEW f, f # 0, NEW l \in Nat, Follows(go, d, A, segs, B, D, way, f, i, l)
  PROVE  Follows(go, d, A, segs, B, D, way, f, i, l + 1)
<1> SUFFICES ASSUME NEW n \in D, Len(way[n]) < l + 1, Trimmed(way[n]),
                    NEW q \in Seq(Characters), Abreast(d, A, segs, B, way[n], q), AnswersFrom(go, n, q, 1, f)
             PROVE  Better(f, i)
  BY DEF Follows, Trusted
<1>1. /\ D \subseteq Ids /\ way \in [D -> Seq(Signs)]
      /\ \/ way[n] = <<>> /\ n \in Holders(i)
         \/ \E m \in D : On(nodes, n, way[n], m, way[m])
  <2>1. 0 \notin Ids
    BY DEF TypeOK, Ids
  <2> QED BY <2>1 DEF OnWay, Leads, Ids
<1>2. CASE way[n] = <<>> /\ n \in Holders(i)
  <2>1. q = <<>>
    BY <1>2, AbreastEnd
  <2>2. PICK p \in Params : go[[node |-> n, kid |-> 1, path |-> q, params |-> p]].route = f
    BY DEF AnswersFrom
  <2> DEFINE call == [node |-> n, kid |-> 1, path |-> q, params |-> p]
  <2>3. call \in Calls /\ call.node = n /\ call.path = <<>>
    BY <2>1, <1>1 DEF Calls, Ids
  <2>4. go[call].route = nodes[n].handler
    <3> HIDE DEF call
    <3> QED BY <2>3 DEF Searches, Search, Result
  <2> QED BY <2>2, <2>4, <1>2, EndBetter
<1>3. CASE \E m \in D : On(nodes, n, way[n], m, way[m])
  <2>1. PICK m \in D : On(nodes, n, way[n], m, way[m])
    BY <1>3
  <2>2. PICK t \in Seq(Signs) :
          /\ way[m] = Trim(Trim(t))
          /\ \/ m \in Kids(n) /\ nodes[m].path # <<>> /\ way[n] = nodes[m].path \o t
             \/ m # 0 /\ m = nodes[n].wild /\ way[n] = << nodes[m].hole >> \o t
    BY <2>1 DEF On, Kids
  <2>3. Len(way[m]) <= Len(t) /\ Len(way[m]) \in Nat /\ Len(t) \in Nat /\ m \in Ids /\ n \in Ids
    BY <2>2, <1>1, TrimsLength
  \* An edge from n to m.
  <2>4. ASSUME NEW c \in Seq(Signs), c # <<>>, way[n] = c \o t PROVE Trusted(go, d, A, segs, B, way, m, f, i)
    <3>1. Trimmed(way[m])
      BY <2>2, <2>4, NextIsTrimmed
    <3>2. Len(c \o t) = Len(c) + Len(t) /\ Len(c) > 0 /\ Len(c) \in Nat
      BY <2>4
    <3>3. Len(way[m]) < l
      BY <3>2, <2>3, <2>4
    <3> QED BY <3>1, <3>3 DEF Follows
  <2>5. CASE m \in Kids(n) /\ nodes[m].path # <<>> /\ way[n] = nodes[m].path \o t
    <3>1. nodes[m].path \in Seq(Signs)
      <4>1. nodes[m] \in NodeType
        BY <2>3 DEF TypeOK, Ids
      <4> DEFINE c == nodes[m].path
      <4>2. c \in Seq(Characters)
        BY <4>1 DEF NodeType
      <4> HIDE DEF c
      <4>3. c \in Seq(Signs)
        BY <4>2 DEF Signs
      <4> QED BY <4>3 DEF c
    <3>2. Trusted(go, d, A, segs, B, way, m, f, i)
      BY <3>1, <2>4, <2>5
    <3> QED BY <3>2, <2>2, <2>5, KidBetter
  <2>6. CASE m # 0 /\ m = nodes[n].wild /\ way[n] = << nodes[m].hole >> \o t
    <3> DEFINE c == << nodes[m].hole >>
    <3>1. c \in Seq(Signs) /\ c # <<>>
      <4>1. nodes[m].hole \in Holes
        BY <2>3, <2>6 DEF IsTree
      <4>2. nodes[m].hole \in Signs
        BY <4>1 DEF Signs
      <4> QED BY <4>2
    <3>2. way[n] = c \o t
      BY <2>6
    <3> HIDE DEF c
    <3>3. Trusted(go, d, A, segs, B, way, m, f, i)
      BY <3>1, <3>2, <2>4
    <3> QED BY <3>3, <2>2, <2>6, WildBetter
  <2> QED BY <2>2, <2>5, <2>6
<1> QED BY <1>1, <1>2, <1>3

\* What the search from the root answers.
LEMMA WayIsBetter ==
  ASSUME TypeOK, IsTree, TextsSpelled, NEW go \in Searches, NEW d, NEW A, NEW segs, NEW B, Lined(d, A, segs, B),
         NEW i \in DOMAIN routes, Apart(i), 1 .. begun \subseteq DOMAIN routes, NEW D, NEW way, OnWay(i, D, way),
         PassesAll(go, D, way, d, A, segs, B), NEW f, f # 0, NEW path \in Seq(Characters),
         Abreast(d, A, segs, B, Pattern(routes[i]), path), AnswersFrom(go, 1, Trim(path), 1, f)
  PROVE  Better(f, i)
<1> DEFINE T == {l \in Nat : Follows(go, d, A, segs, B, D, way, f, i, l)}
           p == Pattern(routes[i])
           tp == Trim(p)
           tq == Trim(path)
           m == Len(tp) + 1
<1>1. \A n \in D : way[n] \in Seq(Signs)
  BY DEF OnWay, Leads
<1>2. 0 \in T
  <2> SUFFICES ASSUME NEW n \in D, Len(way[n]) < 0 PROVE FALSE
    BY DEF Follows
  <2> QED BY <1>1
<1>3. ASSUME NEW l \in Nat, l \in T PROVE l + 1 \in T
  BY <1>3, WayFollows
<1>4. T = Nat
  <2>1. T \in SUBSET Nat
    OBVIOUS
  <2> HIDE DEF T
  <2> QED BY <2>1, <1>2, <1>3, Induction
<1>5. p \in Seq(Signs)
  BY RouteFile, PatternType
<1> HIDE DEF p
<1>6. Abreast(d, A, segs, B, tp, tq) /\ tp \in Seq(Signs) /\ tq \in Seq(Characters)
  BY <1>5, AbreastTrim DEF p
<1>7. 1 \in D /\ way[1] = tp
  BY DEF OnWay, Leads, p
<1>8. Trimmed(tp)
  <2>1. EndsWith(Signs, p, p)
    <3>1. <<>> \in Seq(Signs) /\ p = <<>> \o p
      BY <1>5
    <3> QED BY <3>1 DEF EndsWith
  <2> QED BY <2>1, <1>5, RouteFile, EndIsTrimmed DEF p
<1> HIDE DEF tp, tq
<1>9. m \in Nat /\ Len(tp) < m
  BY <1>6
<1> HIDE DEF m
<1>10. Follows(go, d, A, segs, B, D, way, f, i, m)
  BY <1>4, <1>9
<1> QED BY <1>6, <1>7, <1>8, <1>9, <1>10 DEF Follows, Trusted, tq

-----------------------------------------------------------------------------
(* The most specific of the files that match                               *)

\* What a directory of a file that matches puts into the pattern.
DirFits(file, segs, k) ==
  LET dir == Place(file)[k]
  IN  \/ Rank(dir) = 0 /\ Pieces(file)[k] = segs[k] /\ segs[k] \in Seq(Letter) /\ segs[k] # <<>>
      \/ \E h \in Holes : Pieces(file)[k] = << h >> /\ Rank(dir) = IF h \in CatchAlls THEN 2 ELSE 1

LEMMA MatchDirs ==
  ASSUME NEW file \in ToSet(Files), NEW segs, Matches(file, segs), NEW k \in DOMAIN Place(file)
  PROVE  DirFits(file, segs, k)
<1> DEFINE dir == Place(file)[k]
<1>1. Pieces(file)[k] = Normalize(dir) /\ Made(dir)
  BY PlacePieces
<1>2. IsHole(dir) \/ dir.name = segs[k]
  BY DEF Matches
<1> HIDE DEF dir
<1>3. CASE IsHole(dir)
  <2>1. Braced[dir.name] \in Holes /\ Pieces(file)[k] = << Braced[dir.name] >>
    BY <1>1, <1>3 DEF Made
  <2>2. Rank(dir) = IF Braced[dir.name] \in CatchAlls THEN 2 ELSE 1
    BY <1>3 DEF Rank, IsRest
  <2> QED BY <2>1, <2>2 DEF DirFits, dir
<1>4. CASE ~IsHole(dir)
  <2>1. Pieces(file)[k] = segs[k] /\ IsPlain(segs[k])
    BY <1>1, <1>2, <1>4 DEF Made
  <2>2. Rank(dir) = 0
    BY <1>4 DEF Rank, IsRest
  <2> QED BY <2>1, <2>2 DEF DirFits, dir, IsPlain
<1> QED BY <1>3, <1>4

\* The letters a, a sign x behind them, and something else.
SignAt(s, a, x) == \E v \in Seq(Alphabet) : s = a \o (<< x >> \o v)

LEMMA AtSign ==
  ASSUME NEW a \in Seq(Alphabet), NEW x \in Alphabet, NEW s, SignAt(s, a, x)
  PROVE  /\ s \in Seq(Alphabet) /\ Len(a) + 1 \in DOMAIN s /\ s[Len(a) + 1] = x
         /\ SubSeq(s, 1, Len(a)) = a /\ \A j \in 1 .. Len(a) : s[j] = a[j]
<1>1. PICK v \in Seq(Alphabet) : s = a \o (<< x >> \o v)
  BY DEF SignAt
<1> DEFINE b == << x >> \o v
<1>2. b \in Seq(Alphabet) /\ b[1] = x /\ Len(b) = 1 + Len(v) /\ Len(v) \in Nat
  OBVIOUS
<1> HIDE DEF b
<1>3. s = a \o b
  BY <1>1 DEF b
<1>4. s \in Seq(Alphabet) /\ Len(s) = Len(a) + Len(b) /\ Len(a) \in Nat /\ (\A j \in 1 .. Len(a) : s[j] = a[j])
      /\ \A j \in 1 .. Len(b) : s[Len(a) + j] = b[j]
  <2>1. Joins(Alphabet, a \o b, a, b)
    BY <1>2, ConcatItems
  <2> QED BY <2>1, <1>3 DEF Joins
<1>5. 1 \in 1 .. Len(b)
  BY <1>2
<1>6. SubSeq(s, 1, Len(a)) = a
  BY <1>4
<1> QED BY <1>2, <1>4, <1>5, <1>6

\* Behind one text comes one placeholder.
LEMMA SameHoleNext ==
  ASSUME Orderly, NEW f \in DOMAIN routes, NEW g \in DOMAIN routes, NEW a \in Seq(Alphabet),
         NEW x \in Holes, NEW y \in Holes,
         SignAt(Letters(Pattern(routes[f])), a, x), SignAt(Letters(Pattern(routes[g])), a, y)
  PROVE  x = y
<1> DEFINE s == Letters(Pattern(routes[f]))
           t == Letters(Pattern(routes[g]))
           k == Len(a) + 1
<1>1. x \in Alphabet /\ y \in Alphabet
  BY Letterwise
<1>2. k \in DOMAIN s /\ s[k] = x /\ SubSeq(s, 1, Len(a)) = a
  <2> HIDE DEF s
  <2> QED BY <1>1, AtSign DEF s
<1>3. k \in DOMAIN t /\ t[k] = y /\ SubSeq(t, 1, Len(a)) = a
  <2> HIDE DEF t
  <2> QED BY <1>1, AtSign DEF t
<1>4. k - 1 = Len(a)
  OBVIOUS
<1> HIDE DEF k
<1>5. \A i \in DOMAIN s : (i \in DOMAIN s /\ s[i] \in Holes) /\ (i \in DOMAIN t /\ t[i] \in Holes)
                          /\ SubSeq(s, 1, i - 1) = SubSeq(t, 1, i - 1) => s[i] = t[i]
  BY DEF Orderly
<1> QED BY <1>2, <1>3, <1>4, <1>5

\* Where a plain name comes in one and a placeholder in the other.
LEMMA NoHoleFirst ==
  ASSUME NEW a \in Seq(Alphabet), NEW x \in Holes, NEW c \in Letter, NEW s, NEW t,
         SignAt(s, a, x), SignAt(t, a, c), Lenient(s, t)
  PROVE  FALSE
<1>1. x \in Alphabet /\ c \in Alphabet /\ c \notin Holes
  BY Letterwise, SlashIsNoHole DEF Letter
<1> DEFINE k == Len(a) + 1
<1>2. k \in DOMAIN s /\ s[k] = x /\ \A j \in 1 .. Len(a) : s[j] = a[j]
  BY <1>1, AtSign
<1>3. k \in DOMAIN t /\ t[k] = c /\ \A j \in 1 .. Len(a) : t[j] = a[j]
  BY <1>1, AtSign
<1>4. k - 1 = Len(a)
  OBVIOUS
<1> HIDE DEF k
<1> QED BY <1>1, <1>2, <1>3, <1>4 DEF Lenient

RankAt(f, k) == Rank(Place(routes[f])[k])

\* The letters of a route's pattern, piece by piece.
Spelling(f, u) == /\ Steps(Alphabet, Pieces(routes[f]), u)
                  /\ u[Len(Pieces(routes[f]))] = Letters(Pattern(routes[f]))

\* A piece is the segment or a placeholder, behind the letters in front of it.
StepFacts(f, segs, u, k) ==
  LET piece == Pieces(routes[f])[k]
      whole == Letters(Pattern(routes[f]))
  IN  /\ u[k - 1] \in Seq(Alphabet) /\ u[k] = u[k - 1] \o piece
      /\ \/ RankAt(f, k) = 0 /\ piece = segs[k] /\ Head(segs[k]) \in Letter /\ SignAt(whole, u[k - 1], Head(segs[k]))
         \/ \E h \in Holes : /\ piece = << h >> /\ RankAt(f, k) = IF h \in CatchAlls THEN 2 ELSE 1
                             /\ SignAt(whole, u[k - 1], h)

\* The first letter of a piece is there.
LEMMA PieceSign ==
  ASSUME NEW a \in Seq(Alphabet), NEW x \in Seq(Alphabet), x # <<>>, NEW r \in Seq(Alphabet), NEW s, s = a \o (x \o r)
  PROVE  SignAt(s, a, Head(x))
<1> DEFINE c == Head(x)
           y == Tail(x)
           o == << c >>
           yr == y \o r
<1>1. x = o \o y /\ y \in Seq(Alphabet) /\ o \in Seq(Alphabet)
  OBVIOUS
<1> HIDE DEF o, y
<1>2. x \o r = o \o yr
  <2>1. Assoc(Alphabet, o, y, r)
    BY <1>1, Associates
  <2> QED BY <2>1, <1>1 DEF Assoc
<1>3. yr \in Seq(Alphabet)
  BY <1>1
<1> HIDE DEF yr
<1>4. s = a \o (o \o yr)
  BY <1>2
<1> QED BY <1>3, <1>4 DEF SignAt, o

LEMMA PieceStep ==
  ASSUME TypeOK, NEW f \in DOMAIN routes, NEW segs, Matches(routes[f], segs), NEW u, Spelling(f, u),
         NEW k \in DOMAIN Place(routes[f])
  PROVE  StepFacts(f, segs, u, k)
<1> DEFINE file == routes[f]
           d == Pieces(file)
           x == d[k]
           whole == Letters(Pattern(file))
           a == u[k - 1]
<1>1. file \in ToSet(Files)
  BY RouteFile
<1>2. /\ IsPieces(d) /\ k \in 1 .. Len(d) /\ Len(d) \in Nat /\ DirFits(file, segs, k)
  BY <1>1, PlacePieces, MatchDirs
<1>3. Steps(Alphabet, d, u) /\ u[Len(d)] = whole
  BY DEF Spelling
<1> HIDE DEF file, d, whole
<1>4. d \in Seq(Seq(Alphabet)) /\ x \in Seq(Alphabet)
  BY <1>2 DEF IsPieces
<1>5. GoesOn(Alphabet, whole, a, x, u[k])
  BY <1>2, <1>3, <1>4, StepsOn
<1>6. a \in Seq(Alphabet) /\ u[k] = a \o x
  <2>1. k - 1 \in 0 .. Len(d)
    BY <1>2
  <2> QED BY <2>1, <1>2, <1>3 DEF Steps
<1>7. PICK r \in Seq(Alphabet) : whole = a \o (x \o r)
  BY <1>5 DEF GoesOn
<1> HIDE DEF a, x
<1>8. x # <<>> => SignAt(whole, a, Head(x))
  BY <1>4, <1>6, <1>7, PieceSign
<1>9. CASE Rank(Place(file)[k]) = 0 /\ x = segs[k] /\ segs[k] \in Seq(Letter) /\ segs[k] # <<>>
  <2>1. Head(segs[k]) \in Letter
    BY <1>9
  <2>2. RankAt(f, k) = 0 /\ x = segs[k] /\ Head(segs[k]) \in Letter /\ SignAt(whole, a, Head(segs[k]))
    BY <2>1, <1>8, <1>9 DEF RankAt, file
  <2> QED BY <2>2, <1>6 DEF StepFacts, file, d, x, a, whole
<1>10. CASE \E h \in Holes : x = << h >> /\ Rank(Place(file)[k]) = IF h \in CatchAlls THEN 2 ELSE 1
  <2>1. PICK h \in Holes : x = << h >> /\ Rank(Place(file)[k]) = IF h \in CatchAlls THEN 2 ELSE 1
    BY <1>10
  <2>2. x # <<>> /\ Head(x) = h
    BY <2>1
  <2>3. x = << h >> /\ SignAt(whole, a, h) /\ RankAt(f, k) = IF h \in CatchAlls THEN 2 ELSE 1
    BY <2>1, <2>2, <1>8 DEF RankAt, file
  <2> QED BY <2>3, <1>6 DEF StepFacts, file, d, x, a, whole
<1> QED BY <1>2, <1>9, <1>10 DEF DirFits, x, d

\* The ranks of two files that match, where they come from the same letters.
RankStands(f, g, u, v, k) == RankAt(f, k) <= RankAt(g, k) /\ (RankAt(f, k) = RankAt(g, k) => u[k] = v[k])

LEMMA RankStep ==
  ASSUME TypeOK, Orderly, NEW f \in DOMAIN routes, NEW g \in DOMAIN routes, NEW segs,
         NEW u, NEW v, NEW k, StepFacts(f, segs, u, k), StepFacts(g, segs, v, k), u[k - 1] = v[k - 1],
         Lenient(Letters(Pattern(routes[f])), Letters(Pattern(routes[g])))
  PROVE  RankStands(f, g, u, v, k)
<1> DEFINE d == Pieces(routes[f])
           e == Pieces(routes[g])
           s == Letters(Pattern(routes[f]))
           t == Letters(Pattern(routes[g]))
           a == u[k - 1]
           c == Head(segs[k])
           PlainAt(m, x, w) == RankAt(m, k) = 0 /\ x = segs[k] /\ c \in Letter /\ SignAt(w, a, c)
           HoleAt(m, x, w, h) == x = << h >> /\ RankAt(m, k) = (IF h \in CatchAlls THEN 2 ELSE 1) /\ SignAt(w, a, h)
<1>1. /\ a \in Seq(Alphabet) /\ u[k] = a \o d[k] /\ v[k] = a \o e[k]
      /\ PlainAt(f, d[k], s) \/ \E h \in Holes : HoleAt(f, d[k], s, h)
      /\ PlainAt(g, e[k], t) \/ \E h \in Holes : HoleAt(g, e[k], t, h)
  BY DEF StepFacts
<1>2. CASE PlainAt(f, d[k], s) /\ PlainAt(g, e[k], t)
  BY <1>1, <1>2 DEF RankStands
<1>3. ASSUME NEW h \in Holes, PlainAt(f, d[k], s), HoleAt(g, e[k], t, h) PROVE RankStands(f, g, u, v, k)
  BY <1>3 DEF RankStands
<1>4. ASSUME NEW h \in Holes, HoleAt(f, d[k], s, h), PlainAt(g, e[k], t) PROVE FALSE
  <2>1. SignAt(s, a, h) /\ SignAt(t, a, c) /\ c \in Letter
    BY <1>4
  <2> HIDE DEF s, t, a, c
  <2>2. Lenient(s, t)
    BY DEF s, t
  <2> QED BY <2>1, <2>2, <1>1, NoHoleFirst
<1>5. ASSUME NEW h \in Holes, NEW i \in Holes, HoleAt(f, d[k], s, h), HoleAt(g, e[k], t, i)
      PROVE  RankStands(f, g, u, v, k)
  <2>1. h = i
    <3>1. SignAt(s, a, h) /\ SignAt(t, a, i)
      BY <1>5
    <3> HIDE DEF a
    <3> QED BY <3>1, <1>1, SameHoleNext
  <2> QED BY <2>1, <1>1, <1>5 DEF RankStands
<1> QED BY <1>1, <1>2, <1>3, <1>4, <1>5

\* A route whose letters are as near is preferred.
LEMMA LenientPreferred ==
  ASSUME TypeOK, Orderly, NEW f \in DOMAIN routes, NEW g \in DOMAIN routes, NEW segs,
         Matches(routes[f], segs), Matches(routes[g], segs),
         Lenient(Letters(Pattern(routes[f])), Letters(Pattern(routes[g])))
  PROVE  Preferred(routes[f], routes[g])
<1>1. routes[f] \in ToSet(Files) /\ routes[g] \in ToSet(Files)
  BY RouteFile
<1>2. PICK u : Spelling(f, u)
  BY <1>1, PatternSteps DEF Spelling
<1>3. PICK v : Spelling(g, v)
  BY <1>1, PatternSteps DEF Spelling
<1> DEFINE p == Place(routes[f])
           q == Place(routes[g])
           m == Len(p)
           n == Len(q)
           R(k) == RankAt(f, k)
           S(k) == RankAt(g, k)
           T == {k \in Nat : k <= m /\ k <= n /\ (\A j \in 1 .. k : ~(R(j) < S(j))) => u[k] = v[k]}
<1>4. m \in Nat /\ n \in Nat /\ DOMAIN p = 1 .. m /\ DOMAIN q = 1 .. n
  BY <1>1, PlacePieces
<1> HIDE DEF m, n
<1>5. ASSUME NEW k \in DOMAIN p \cap DOMAIN q, u[k - 1] = v[k - 1] PROVE RankStands(f, g, u, v, k)
  <2>1. StepFacts(f, segs, u, k) /\ StepFacts(g, segs, v, k)
    BY <1>2, <1>3, PieceStep
  <2> QED BY <2>1, <1>5, RankStep
<1>6. \A k : R(k) \in 0 .. 2 /\ S(k) \in 0 .. 2
  BY DEF RankAt, Rank
<1>7. 0 \in T
  <2>1. u[0] = v[0]
    BY <1>2, <1>3 DEF Spelling, Steps
  <2> QED BY <2>1
<1> HIDE DEF p, q
<1>8. ASSUME NEW k \in Nat, k \in T PROVE k + 1 \in T
  <2> DEFINE l == k + 1
  <2> SUFFICES ASSUME l <= m, l <= n, \A j \in 1 .. l : ~(R(j) < S(j)) PROVE u[l] = v[l]
    OBVIOUS
  <2>1. l \in DOMAIN p \cap DOMAIN q /\ l - 1 = k /\ l \in 1 .. l /\ 1 .. k \subseteq 1 .. l /\ k <= m /\ k <= n
    BY <1>4
  <2> HIDE DEF l
  <2>2. u[k] = v[k]
    BY <2>1, <1>8
  <2>3. RankStands(f, g, u, v, l)
    BY <2>1, <2>2, <1>5
  <2>4. ~(R(l) < S(l))
    BY <2>1
  <2>5. R(l) = S(l)
    BY <2>3, <2>4, <1>6 DEF RankStands
  <2> QED BY <2>3, <2>5 DEF RankStands
<1>9. T = Nat
  <2>1. T \in SUBSET Nat
    OBVIOUS
  <2> HIDE DEF T
  <2> QED BY <2>1, <1>7, <1>8, Induction
<1>10. ASSUME NEW k \in DOMAIN p \cap DOMAIN q, \A j \in 1 .. k - 1 : ~(R(j) < S(j)) PROVE R(k) <= S(k)
  <2> DEFINE l == k - 1
  <2>1. l \in Nat /\ l <= m /\ l <= n
    BY <1>4
  <2> HIDE DEF l
  <2>2. \A j \in 1 .. l : ~(R(j) < S(j))
    BY <1>10 DEF l
  <2>3. u[l] = v[l]
    BY <2>1, <2>2, <1>9
  <2>4. RankStands(f, g, u, v, k)
    BY <2>3, <1>5 DEF l
  <2> QED BY <2>4 DEF RankStands
<1> QED BY <1>10 DEF Preferred, RankAt, p, q

\* A static pattern has no placeholder to be less preferred for.
LEMMA StaticPreferred ==
  ASSUME TypeOK, NEW f \in DOMAIN routes, NEW segs, Matches(routes[f], segs), NEW other,
         Pattern(routes[f]) \in Seq(Characters)
  PROVE  Preferred(routes[f], other)
<1>1. routes[f] \in ToSet(Files)
  BY RouteFile
<1>2. PICK u : Spelling(f, u)
  BY <1>1, PatternSteps DEF Spelling
<1> DEFINE s == Letters(Pattern(routes[f]))
<1>3. s \in Seq(Letter)
  BY LettersType DEF Letter
<1> HIDE DEF s
<1>4. ASSUME NEW k \in DOMAIN Place(routes[f]) PROVE RankAt(f, k) = 0
  <2>1. StepFacts(f, segs, u, k)
    BY <1>2, PieceStep
  <2>2. ASSUME NEW h \in Holes, SignAt(s, u[k - 1], h), u[k - 1] \in Seq(Alphabet) PROVE FALSE
    <3>1. h \in Alphabet
      BY Letterwise
    <3>2. \E j \in DOMAIN s : s[j] = h
      BY <3>1, <2>2, AtSign
    <3>3. h \in Letter
      BY <3>2, <1>3
    <3> QED BY <3>3, SlashIsNoHole DEF Letter
  <2> QED BY <2>1, <2>2 DEF StepFacts, s
<1>5. \A dir : Rank(dir) >= 0
  BY DEF Rank
<1> QED BY <1>4, <1>5 DEF Preferred, RankAt

\* What search answers on a path that a route with a way matches.
LEMMA TreeAnswersBetter ==
  ASSUME TypeOK, IsTree, TextsSpelled, KidsFew, NEW segs \in Requested, NEW i \in DOMAIN routes, Apart(i),
         1 .. begun \subseteq DOMAIN routes, Aligned(routes[i], segs), ~BehindRest(Pattern(routes[i])),
         HasWay(nodes, text, Pattern(routes[i]), Clean(i), Holders(i), 0, <<>>),
         NEW f, f # 0, SearchTree(Path(segs)).route = f
  PROVE  Better(f, i)
<1> DEFINE path == Path(segs)
           p == Pattern(routes[i])
           C == Clean(i)
           H == Holders(i)
           d == Pieces(routes[i])
<1>1. path \in Seq(Characters)
  BY PathType
<1> HIDE DEF path, d
<1>2. PICK go \in Searches : SearchTree(path) = go[Enter(1, path, Unbound)]
  BY <1>1, SearchDecided DEF SearchIsDecided
<1>3. PICK A, B : Lined(d, A, segs, B) /\ Abreast(d, A, segs, B, p, path)
  BY DEF Aligned, d, path
<1>4. PICK D, way : Leads(nodes, text, p, C, H, D, way, 0, <<>>)
  BY DEF HasWay
<1>5. \A k \in H : nodes[k].handler # 0
  <2>1. i \in Nat /\ i # 0
    BY DEF TypeOK
  <2>2. \A k \in Ids : nodes[k].handler \in Nat
    <3>1. \A k \in Ids : nodes[k] \in NodeType
      BY DEF TypeOK, Ids
    <3> QED BY <3>1 DEF NodeType
  <2>3. \A a \in Nat : a >= i => a # 0
    BY <2>1
  <2> QED BY <2>2, <2>3 DEF Holders
<1>6. OnWay(i, D, way)
  <2>1. i \in Nat
    BY DEF TypeOK
  <2> QED BY <2>1, <1>4 DEF OnWay
<1> HIDE DEF p, C, H
<1>7. PassesAll(go, D, way, d, A, segs, B)
  <2>1. ~BehindRest(p)
    BY DEF p
  <2> QED BY <2>1, <1>3, <1>4, <1>5, WayPasses
<1>8. AnswersFrom(go, 1, Trim(path), 1, f)
  <2>1. Unbound \in Params
    BY Nothing DEF Unbound, Params
  <2>2. Enter(1, path, Unbound) = [node |-> 1, kid |-> 1, path |-> Trim(path), params |-> Unbound]
    BY DEF Enter
  <2>3. SearchTree(path).route = f
    BY DEF path
  <2> QED BY <2>1, <2>2, <2>3, <1>2 DEF AnswersFrom
<1>9. Abreast(d, A, segs, B, Pattern(routes[i]), path)
  BY <1>3 DEF p
<1> QED BY <1>1, <1>3, <1>6, <1>7, <1>8, <1>9, WayIsBetter

\* What Lookup finds on a path that a reachable route matches.
ComesFirst(f, i) ==
  /\ Preferred(routes[f], routes[i])
  /\ Pattern(routes[i]) = Pattern(routes[f]) => i <= f

LEMMA FoundIsFirst ==
  ASSUME TreeSpelled, StaticMap, KidsFew, Orderly, Ways, Built, NEW segs \in Requested, Unmistakable(segs),
         NEW f, f = Lookup(Path(segs)).route, f # 0,
         NEW i \in Reachable, Matches(routes[i], segs), ~(f < i /\ Doubled(f, i))
  PROVE  ComesFirst(f, i)
<1> DEFINE file == routes[i]
           p == Pattern(file)
           path == Path(segs)
<1>1. TypeOK /\ IsTree /\ TextsSpelled
  BY DEF TreeSpelled
<1>2. i \in DOMAIN routes /\ (IsDynamic(p) => ~Torn(i) /\ ~BehindRest(p))
  BY DEF Reachable
<1>3. file \in ToSet(Files) /\ p \in Seq(Signs)
  BY <1>1, <1>2, RouteFile, PatternType
<1>4. path \in Seq(Characters)
  BY PathType
<1>5. f \in DOMAIN routes
  <2> HIDE DEF path
  <2>1. Lookup(path).route = f
    BY DEF path
  <2> QED BY <2>1, <1>4, LookupReads
<1>6. Matches(routes[f], segs)
  BY LookupMatches
<1>7. CASE path \in DOMAIN static
  <2>1. f = static[path]
    BY <1>7 DEF Lookup, Result
  <2>2. Pattern(routes[f]) = path /\ ~IsDynamic(path)
    BY <2>1, <1>7 DEF StaticMap
  <2> HIDE DEF path
  <2>3. Preferred(routes[f], routes[i])
    BY <2>2, <1>1, <1>4, <1>5, <1>6, StaticPreferred
  <2>4. p = Pattern(routes[f]) => i <= f
    <3> SUFFICES ASSUME p = path PROVE i <= f
      BY <2>2
    <3>1. i <= static[p]
      BY <2>2, <1>2 DEF StaticMap
    <3> QED BY <3>1, <2>1
  <2> QED BY <2>3, <2>4 DEF ComesFirst
<1>8. CASE path \notin DOMAIN static
  <2>1. IsDynamic(p)
    <3> SUFFICES ASSUME ~IsDynamic(p) PROVE FALSE
      OBVIOUS
    <3>1. p = path
      BY <1>3, <1>4, StaticPath
    <3>2. p \in DOMAIN static
      BY <1>2 DEF StaticMap
    <3> QED BY <3>1, <3>2, <1>8
  <2>2. Apart(i) /\ Fair(i)
    BY <2>1, <1>1, <1>2, MatchApart DEF Fair
  <2>3. HasWay(nodes, text, p, Clean(i), Holders(i), 0, <<>>)
    <3>1. i \in 1 .. begun /\ at = 0
      BY <1>1, <1>2 DEF Built, TypeOK
    <3> QED BY <3>1, <2>2 DEF Ways, WaysKept, WayOf
  <2>4. Place(file) # <<>>
    <3> SUFFICES ASSUME Place(file) = <<>> PROVE FALSE
      OBVIOUS
    <3>1. p = <<Slash>>
      BY <1>3, PatternPieces
    <3>2. DOMAIN p = {1} /\ p[1] = Slash
      BY <3>1
    <3> QED BY <3>2, <2>1, SlashIsNoHole DEF IsDynamic
  <2>5. Aligned(file, segs)
    BY <2>4, <1>3, MatchAligned
  <2>6. 1 .. begun \subseteq DOMAIN routes
    BY <1>1 DEF Built, TypeOK
  <2>7. SearchTree(Path(segs)).route = f
    BY <1>8 DEF Lookup
  <2> HIDE DEF path
  <2>8. Better(f, i)
    BY <2>1, <2>2, <2>3, <2>5, <2>6, <2>7, <1>1, <1>2, TreeAnswersBetter
  <2>9. Nearer(f, i)
    BY <2>8 DEF Better
  <2>10. Preferred(routes[f], routes[i])
    BY <2>9, <1>1, <1>2, <1>5, <1>6, LenientPreferred DEF Nearer
  <2> QED BY <2>9, <2>10 DEF ComesFirst, Nearer
<1> QED BY <1>7, <1>8

\* What is found is the most specific of the files that match, whatever the
\* order of the walk and whatever insert split on the way: a child in front of
\* the right one ends where it began or has a route that is doubled, and search
\* tries the wildcard last (search, radix.go:166-217).  Of two routes with one
\* pattern the later one answers (insert, radix.go:93-95; addPageRoute,
\* router.go:165-170).
THEOREM StaticIsFirst == Spec => []StaticFirst
<1>1. TreeSpelled /\ StaticMap /\ KidsFew /\ (Orderly => Ways) => StaticFirst
  BY FoundIsFirst DEF StaticFirst, ComesFirst
<1> QED BY <1>1, TreeIsSpelled, StaticMapHolds, FewAlways, WaysAlways, PTL
=============================================================================
