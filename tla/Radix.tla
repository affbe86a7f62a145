-------------------------------- MODULE Radix --------------------------------
(***************************************************************************)
(* The router of internal/app/router: New walks the application directory, *)
(* makes a route of every page and API file, enters the static ones into a *)
(* map and all of them into a radix tree; Lookup asks the map first.       *)
(*                                                                         *)
(* A file is the directories it is in and its own name.  A directory has a *)
(* form, its spelling, and a name.  The tree splits patterns between       *)
(* characters, so plain names and patterns are sequences of them; a        *)
(* placeholder in a pattern is one sign.  Nodes are numbered as they are   *)
(* made, the root is 1 and nil is 0.                                       *)
(***************************************************************************)
EXTENDS Naturals, Sequences, SequencesExt

CONSTANTS
  Files,      \* the files an application may have, in the order of the walk
  Characters, \* what plain names, patterns and paths are made of
  Braced,     \* the placeholder a pattern has for a name, [x |-> "{x}"]
  Param,      \* the parameter a placeholder enters, without its three dots
  CatchAlls,  \* the placeholders with three dots
  Words,      \* segments of the paths that are looked up
  MaxDepth,   \* bound: segments of those paths
  MaxFiles    \* bound: routes of an application

Slash  == "/"
Api    == <<"a", "p", "i">>
Holes  == DOMAIN Param
Signs  == Characters \cup Holes
IsHole(dir) == dir.form # "plain"

ASSUME SignsAssumption ==
  /\ {Slash} \cup ToSet(Api) \subseteq Characters
  /\ Holes \cap Characters = {}
  /\ Braced \in [DOMAIN Braced -> Holes]
  /\ Words \subseteq Seq(Characters \ {Slash}) \ {<<>>} /\ MaxDepth \in Nat

ASSUME FilesAssumption ==
  /\ Files \in Seq(ToSet(Files))
  /\ \A file \in ToSet(Files) :
       /\ file.dirs \in Seq(ToSet(file.dirs))
       /\ \A dir \in ToSet(file.dirs) :
            IF IsHole(dir) THEN dir.name \in DOMAIN Braced
                           ELSE dir.name \in Seq(Characters \ {Slash}) \ {<<>>}

VARIABLES
  walked,    \* how much of Files the walk has passed
  routes,    \* the routes in the order of the walk
  layouts,   \* the layouts
  static,    \* the map from static patterns to positions in routes
  nodes,     \* the nodes of the tree
  begun,     \* how many routes buildTree has begun to insert
  at,        \* the node that the last of them is being inserted into, or 0
  rest,      \* what is left of its pattern there
  text       \* for each node the text that leads to it (history)

vars == <<walked, routes, layouts, static, nodes, begun, at, rest, text>>
tree == <<nodes, begun, at, rest, text>>

Node(path, hole) ==
  [path |-> path, kids |-> <<>>, wild |-> 0, hole |-> hole, handler |-> 0]

Trim(s) == IF s # <<>> /\ Head(s) = Slash THEN Tail(s) ELSE s
Drop(s, n) == SubSeq(s, n + 1, Len(s))

\* The first position of s where P holds, 1 behind the end if there is none.
First(s, P(_)) == CHOOSE i \in 1 .. Len(s) + 1 :
                    /\ i <= Len(s) => P(i)
                    /\ \A j \in 1 .. i - 1 : ~P(j)

\* The length of longestCommonPrefix, and the characters before the first
\* slash or placeholder.
Common(s, t) == First(s, LAMBDA i : i > Len(t) \/ s[i] # t[i]) - 1
Segment(s)   == SubSeq(s, 1, First(s, LAMBDA i : s[i] = Slash) - 1)
Fixed(s)     == SubSeq(s, 1, First(s, LAMBDA i : s[i] \in Holes) - 1)

\* A text without its slashes.
Letters(s) == FlattenSeq([i \in DOMAIN s |-> IF s[i] = Slash THEN <<>> ELSE << s[i] >>])

-----------------------------------------------------------------------------
(* From the place of a file to a pattern                                   *)

\* The regular expressions of normalizePattern make {x} of [x], {x}, _x, x_.
Normalize(dir) == IF IsHole(dir) THEN << Braced[dir.name] >> ELSE dir.name

\* addAPIRoute: an API route in the root answers /api.
Pattern(file) ==
  IF file.dirs = <<>> THEN IF file.base = "route.go" THEN <<Slash>> \o Api ELSE <<Slash>>
  ELSE FlattenSeq([i \in DOMAIN file.dirs |-> <<Slash>> \o Normalize(file.dirs[i])])

IsDynamic(pattern) == \E i \in DOMAIN pattern : pattern[i] \in Holes
IsPrivate(file)    == \E i \in DOMAIN file.dirs : file.dirs[i].form = "_x"
IsPage(file)       == file.base \in {"page.go", "page.templ"}

-----------------------------------------------------------------------------
(* New: the walk                                                           *)

Init ==
  /\ walked = 0
  /\ routes = <<>>
  /\ layouts = <<>>
  /\ static = [p \in {} |-> 0]
  /\ nodes = << Node(<<>>, "") >>
  /\ begun = 0
  /\ at = 0
  /\ rest = <<>>
  /\ text = << <<>> >>

Put(map, key, value) ==
  [x \in DOMAIN map \cup {key} |-> IF x = key THEN value ELSE map[x]]

\* The walk passes the next of Files.
Pass == walked < Len(Files) /\ walked' = walked + 1 /\ UNCHANGED tree
New  == Files[walked + 1]
\* The application has it, and the walk has entered its directory.
Found == Pass /\ Len(routes) < MaxFiles /\ ~IsPrivate(New)

AddRouteOnce ==   \* wrong: the first route of a static pattern stays
  /\ Found
  /\ IsPage(New) \/ New.base = "route.go"
  /\ routes' = Append(routes, New)
  /\ static' = IF IsDynamic(Pattern(New)) \/ Pattern(New) \in DOMAIN static THEN static
               ELSE Put(static, Pattern(New), Len(routes) + 1)
  /\ UNCHANGED layouts

\* addPageRoute and addAPIRoute: a later route takes a static pattern over.
AddRoute ==
  /\ Found
  /\ IsPage(New) \/ New.base = "route.go"
  /\ routes' = Append(routes, New)
  /\ static' = IF IsDynamic(Pattern(New)) THEN static
               ELSE Put(static, Pattern(New), Len(routes) + 1)
  /\ UNCHANGED layouts

\* addLayoutRoute: the directory stays as it is spelled.
AddLayout ==
  /\ Found
  /\ New.base = "layout.templ"
  /\ layouts' = Append(layouts, New.dirs)
  /\ UNCHANGED <<routes, static>>

\* The application does not have it, or the walk skips its directory.
NoFile == Pass /\ UNCHANGED <<routes, layouts, static>>

-----------------------------------------------------------------------------
(* New: buildTree, call by call of insert                                  *)

\* buildTree takes the next route.
Begin ==
  /\ walked = Len(Files) /\ at = 0 /\ begun < Len(routes)
  /\ begun' = begun + 1
  /\ at' = 1
  /\ rest' = Pattern(routes[begun + 1])
  /\ UNCHANGED <<nodes, text>>

\* What the call of insert at hand starts with, and what follows that.
Own   == Fixed(Trim(rest))
After == Drop(Trim(rest), Len(Own))

\* The first child that shares a prefix with Own, if any.
Position == First(nodes[at].kids, LAMBDA i : Common(Own, nodes[nodes[at].kids[i]].path) > 0)
Shares   == Position <= Len(nodes[at].kids)
Child    == nodes[at].kids[Position]
Shared   == Common(Own, nodes[Child].path)
\* What Own has beyond that prefix.
Left     == Trim(Drop(Own, Shared))

Inserting == at # 0 /\ UNCHANGED begun
OnText    == Inserting /\ rest \notin {<<>>, <<Slash>>} /\ Own # <<>>
\* insert calls itself for a node and a pattern.
Call(node, pattern) == at' = node /\ rest' = pattern

InsertHere ==
  /\ Inserting /\ rest \in {<<>>, <<Slash>>}
  /\ nodes' = [nodes EXCEPT ![at].handler = begun]
  /\ Call(0, <<>>)
  /\ UNCHANGED text

\* A pattern that begins with a placeholder goes into the wildcard, which is
\* made when there is none and else keeps its name and its kind.
InsertWild ==
  /\ Inserting /\ rest \notin {<<>>, <<Slash>>} /\ Own = <<>>
  /\ LET hole == Head(After)
     IN  IF nodes[at].wild # 0
           THEN Call(nodes[at].wild, Trim(Tail(After))) /\ UNCHANGED <<nodes, text>>
           ELSE /\ nodes' = Append([nodes EXCEPT ![at].wild = Len(nodes) + 1],
                                   Node(<<>>, hole))
                /\ text' = Append(text, Append(text[at], hole))
                /\ Call(Len(nodes) + 1, Trim(Tail(After)))

\* A new node for path under parent, and the call of insert for it.
Add(parent, path) ==
  /\ nodes' = Append([nodes EXCEPT ![parent].kids = Append(@, Len(nodes) + 1)],
                     Node(path, ""))
  /\ text' = Append(text, text[parent] \o Letters(path))
  /\ Call(Len(nodes) + 1, After)

AddChild == OnText /\ ~Shares /\ Add(at, Own)

\* splitChild: the child keeps the shared prefix, a new node gets the rest
\* and all that the child had.
SplitKeepsHandler ==   \* wrong: the child keeps its handler too
  /\ OnText /\ Shares /\ Shared < Len(nodes[Child].path)
  /\ LET child == nodes[Child]
         upper == [child EXCEPT !.path = SubSeq(@, 1, Shared), !.wild = 0, !.hole = "",
                                !.kids = << Len(nodes) + 1 >>]
     IN  nodes' = Append([nodes EXCEPT ![Child] = upper],
                         [child EXCEPT !.path = Drop(@, Shared)])
  /\ text' = Append([text EXCEPT ![Child] = text[at] \o Letters(SubSeq(nodes[Child].path, 1, Shared))],
                    text[Child])
  /\ UNCHANGED <<at, rest>>

SplitChild ==
  /\ OnText /\ Shares /\ Shared < Len(nodes[Child].path)
  /\ LET child == nodes[Child]
         upper == [Node(SubSeq(child.path, 1, Shared), "") EXCEPT !.kids = << Len(nodes) + 1 >>]
     IN  nodes' = Append([nodes EXCEPT ![Child] = upper],
                         [child EXCEPT !.path = Drop(@, Shared)])
  /\ text' = Append([text EXCEPT ![Child] = text[at] \o Letters(SubSeq(nodes[Child].path, 1, Shared))],
                    text[Child])
  /\ UNCHANGED <<at, rest>>

\* The child's path is used up by Own: insert goes on below it ...
Descend ==
  /\ OnText /\ Shares /\ Shared = Len(nodes[Child].path)
  /\ Left = <<>> \/ After = <<>>
  /\ Call(Child, Left \o After)
  /\ UNCHANGED <<nodes, text>>

\* ... but with text left before a placeholder it makes a new child there,
\* without a look at those it has.
AddBelow ==
  /\ OnText /\ Shares /\ Shared = Len(nodes[Child].path)
  /\ Left # <<>> /\ After # <<>>
  /\ Add(Child, Left)

Build ==
  /\ Begin \/ InsertHere \/ InsertWild \/ AddChild \/ SplitChild \/ Descend \/ AddBelow
  /\ UNCHANGED <<walked, routes, layouts, static>>

Next == AddRoute \/ AddLayout \/ NoFile \/ Build

Spec == Init /\ [][Next]_vars

\* New has returned.
Built == walked = Len(Files) /\ begun = Len(routes) /\ at = 0

-----------------------------------------------------------------------------
(* Lookup                                                                  *)

Params  == [{Param[h] : h \in Holes} -> Seq(Characters)]
Unbound == [x \in {Param[h] : h \in Holes} |-> <<>>]

FirstStays(params, hole, value) ==   \* wrong: a failed branch's value stays
  IF params[Param[hole]] = <<>> THEN [params EXCEPT ![Param[hole]] = value] ELSE params

Bind(params, hole, value) == [params EXCEPT ![Param[hole]] = value]

\* A point of search: in front of a child of a node, with what is left of the
\* path and the parameters entered so far, and what search returns.
Calls   == [node : DOMAIN nodes, kid : Nat \ {0}, path : Seq(Characters), params : Params]
Results == [route : 0 .. Len(routes), params : Params]
Enter(node, path, params) ==
  [node |-> node, kid |-> 1, path |-> Trim(path), params |-> params]
Result(route, params) == [route |-> route, params |-> params]

NoWayBack(call, go) ==   \* wrong: a child that matches is final
  LET id    == nodes[call.node].kids[call.kid]
      child == nodes[id]
      below == go[Enter(id, Trim(Drop(call.path, Len(child.path))), call.params)]
  IN  IF child.path = <<>> \/ ~IsPrefix(child.path, call.path)
        THEN go[[call EXCEPT !.kid = @ + 1]]
        ELSE below

\* A child, then those after it until the search below one succeeds; what
\* the failed ones have entered into the parameters stays there.
SearchChild(call, go) ==
  LET id    == nodes[call.node].kids[call.kid]
      child == nodes[id]
      below == go[Enter(id, Trim(Drop(call.path, Len(child.path))), call.params)]
  IN  IF child.path = <<>> \/ ~IsPrefix(child.path, call.path)
        THEN go[[call EXCEPT !.kid = @ + 1]]
        ELSE IF below.route # 0 THEN below
             ELSE go[[call EXCEPT !.kid = @ + 1, !.params = below.params]]

\* The wildcard takes the rest or a segment.
SearchWild(call, go) ==
  LET id    == nodes[call.node].wild
      hole  == nodes[id].hole
      value == Segment(call.path)
  IN  IF id = 0 THEN Result(0, call.params)
      ELSE IF hole \in CatchAlls
        THEN Result(nodes[id].handler, Bind(call.params, hole, call.path))
      ELSE IF value = <<>> THEN Result(0, call.params)
      ELSE go[Enter(id, Drop(call.path, Len(value) + 1), Bind(call.params, hole, value))]

WildFirst(call, go) ==   \* wrong: the wildcard before the children
  LET other == SearchWild(call, go)
  IN  IF call.path = <<>> THEN Result(nodes[call.node].handler, call.params)
      ELSE IF other.route # 0 THEN other
      ELSE IF call.kid <= Len(nodes[call.node].kids) THEN SearchChild(call, go)
      ELSE other

Search(call, go) ==
  IF call.path = <<>> THEN Result(nodes[call.node].handler, call.params)
  ELSE IF call.kid <= Len(nodes[call.node].kids) THEN SearchChild(call, go)
  ELSE SearchWild(call, go)

\* A move to another node takes at least a character of the path.
Fuel(path) == (Len(path) + 1) * (Len(nodes) + 1)

\* search, with a bound on how deep its calls are nested.
SearchTree(path) ==
  LET found[depth \in 0 .. Fuel(path)] ==
        [call \in Calls |-> IF depth = 0 THEN Result(0, call.params)
                            ELSE Search(call, found[depth - 1])]
  IN  found[Fuel(path)][Enter(1, path, Unbound)]

Lookup(path) ==
  IF path \in DOMAIN static THEN Result(static[path], Unbound) ELSE SearchTree(path)

-----------------------------------------------------------------------------
(* What the place of a file means                                          *)

\* The directories a file answers for.
Place(file) ==
  IF file.dirs = <<>> /\ file.base = "route.go"
    THEN << [form |-> "plain", name |-> Api] >> ELSE file.dirs

IsRest(dir) == IsHole(dir) /\ Braced[dir.name] \in CatchAlls
EndsOpen(place) == place # <<>> /\ IsRest(Last(place))

\* The file answers the path with these segments, one per directory.
Matches(file, segs) ==
  LET place == Place(file)
  IN  /\ IF EndsOpen(place) THEN Len(segs) >= Len(place) ELSE Len(segs) = Len(place)
      /\ \A i \in DOMAIN place : IsHole(place[i]) \/ place[i].name = segs[i]

Requested == BoundedSeq(Words, MaxDepth)
Path(segs) == IF segs = <<>> THEN <<Slash>>
              ELSE FlattenSeq([i \in DOMAIN segs |-> <<Slash>> \o segs[i]])

\* Of two files that match, the one with a plain directory where they part is
\* preferred, and a placeholder of one segment to one of the rest.
Rank(dir) == IF IsRest(dir) THEN 2 ELSE IF IsHole(dir) THEN 1 ELSE 0

Preferred(file, other) ==
  LET p == Place(file)
      q == Place(other)
  IN  \A i \in DOMAIN p \cap DOMAIN q :
        Rank(p[i]) <= Rank(q[i]) \/ \E j \in 1 .. i - 1 : Rank(p[j]) < Rank(q[j])

\* A later route parts from the one at position in front of the slash at k, and
\* may cut the node there.  search strips that slash before it compares.
Torn(position) ==
  LET pattern(i) == Pattern(routes[i])
      own        == pattern(position)
  IN  \E k \in 3 .. Len(own), i \in position + 1 .. Len(routes) :
        /\ own[k] = Slash /\ own[k - 1] \notin Holes
        /\ IsPrefix(SubSeq(own, 1, k - 1), pattern(i))
        /\ ~IsPrefix(SubSeq(own, 1, k), pattern(i))

\* A rest is searched no further, so what is behind it is not reached.
BehindRest(pattern) == \E k \in 1 .. Len(pattern) - 1 : pattern[k] \in CatchAlls

\* A route parts from the later one at k, inside the characters before one of
\* its placeholders, where the earlier one goes on with it.  The later one gets
\* a node of its own there, behind the node of the earlier one.
Doubled(earlier, later) ==
  LET pattern(i) == Pattern(routes[i])
      own        == pattern(later)
      parts(i, k) == /\ IsPrefix(SubSeq(own, 1, k), pattern(i))
                     /\ ~IsPrefix(SubSeq(own, 1, k + 1), pattern(i))
  IN  \E h \in DOMAIN own :
        /\ own[h] \in Holes
        /\ \E k \in 2 .. h - 2 :
             /\ \A j \in k - 1 .. h - 1 : own[j] \notin Holes
             /\ Trim(SubSeq(own, k + 1, h - 1)) # <<>>
             /\ IsPrefix(SubSeq(own, 1, k + 1), pattern(earlier))
             /\ \E i \in 1 .. later - 1 : parts(i, k)

\* Behind one text comes one placeholder, whatever the slashes between, and
\* no pattern has two of one name.
Orderly ==
  LET letters(i) == Letters(Pattern(routes[i]))
      hole(s, i) == i \in DOMAIN s /\ s[i] \in Holes
  IN  \A f, g \in DOMAIN routes :
        LET s == letters(f)
            t == letters(g)
        IN  /\ \A i \in DOMAIN s :
                 hole(s, i) /\ hole(t, i) /\ SubSeq(s, 1, i - 1) = SubSeq(t, 1, i - 1)
                 => s[i] = t[i]
            /\ \A i, j \in DOMAIN s : 
                 hole(s, i) /\ hole(s, j) /\ Param[s[i]] = Param[s[j]] => i = j

\* No segment begins with a plain name or is a beginning of one.
Unmistakable(segs) ==
  \A f \in ToSet(routes) : \A i \in DOMAIN Place(f), k \in DOMAIN segs :
    LET dir == Place(f)[i]
    IN  IsHole(dir) \/ dir.name = segs[k]
          \/ ~(IsPrefix(dir.name, segs[k]) \/ IsPrefix(segs[k], dir.name))

\* The letters of a pattern, with those of the values for its placeholders.
Spelled(s, params) ==
  FlattenSeq([i \in DOMAIN s |-> IF s[i] \in Holes THEN Letters(params[Param[s[i]]])
                                                  ELSE << s[i] >>])

-----------------------------------------------------------------------------
(* Properties of the finished router                                       *)

(* A lookup finds no route but a page or an API file of the application    *)
(* outside private directories, and only one that the path spells: the     *)
(* letters of the path are those of its pattern with the values of its     *)
(* placeholders, which are not empty and, but for the rest of a path, one  *)
(* segment each.  Branches that were searched in vain leave no wrong value *)
(* (Router.Lookup, router.go:244-250; search, radix.go:166-217).  Slashes  *)
(* are not compared, as search strips those it meets between two nodes;    *)
(* but segments that cannot be taken for each other match one by one.      *)
LookupSound ==
  Built /\ Orderly => \A segs \in Requested :
    LET found   == Lookup(Path(segs))
        letters == Letters(Pattern(routes[found.route]))
    IN  found.route # 0 =>
          /\ found.route \in DOMAIN routes /\ ~IsPrivate(routes[found.route])
          /\ Spelled(letters, found.params) = Letters(Path(segs))
          /\ \A hole \in ToSet(letters) \cap Holes :
               /\ found.params[Param[hole]] # <<>>
               /\ hole \in CatchAlls \/ ~Contains(found.params[Param[hole]], Slash)
          /\ Unmistakable(segs) => Matches(routes[found.route], segs)

(* When several files claim one static pattern, through page.go,           *)
(* page.templ and route.go or through /api, the last of the walk answers   *)
(* (addPageRoute and addAPIRoute, router.go:165-170, 222-227).             *)
LastFileAnswers ==
  Built => \A i \in DOMAIN routes :
    LET pattern == Pattern(routes[i])
        found   == Lookup(pattern).route
    IN  ~IsDynamic(pattern) =>
          /\ found \in DOMAIN routes /\ Pattern(routes[found]) = pattern
          /\ \A j \in DOMAIN routes : Pattern(routes[j]) = pattern => j <= found

Reachable == {i \in DOMAIN routes :
  LET pattern == Pattern(routes[i])
  IN  IsDynamic(pattern) => ~Torn(i) /\ ~BehindRest(pattern)}

(* A path that some file matches is found: no branch that ends nowhere and *)
(* no split of a node hides a route (splitChild, search,                   *)
(* radix.go:133-217), but for dynamic routes that are Torn, and those that *)
(* go on behind a rest (radix.go:194-197).                                 *)
LookupComplete ==
  Built /\ Orderly => \A segs \in Requested :
    Unmistakable(segs) /\ Lookup(Path(segs)).route = 0 =>
      \A i \in Reachable : ~Matches(routes[i], segs)

(* The file that is found is the most specific of those that match, and of *)
(* those with its pattern the last of the walk, whatever the order of the  *)
(* walk (search, radix.go:173-214).  The exceptions are the routes that    *)
(* are Torn, and a later route that is Doubled by the one found.           *)
StaticFirst ==
  Built /\ Orderly => \A segs \in Requested : Unmistakable(segs) =>
    LET found == Lookup(Path(segs)).route
    IN  found # 0 => \A i \in Reachable :
          Matches(routes[i], segs) /\ ~(found < i /\ Doubled(found, i)) =>
            /\ Preferred(routes[found], routes[i])
            /\ Pattern(routes[i]) = Pattern(routes[found]) => i <= found

-----------------------------------------------------------------------------
(* The tree                                                                *)

Ids     == DOMAIN nodes
Kids(n) == ToSet(nodes[n].kids)

NodeType == [path : Seq(Characters), kids : Seq(Nat), wild : Nat,
             hole : {""} \cup Holes, handler : Nat]

TypeOK ==
  /\ walked \in 0 .. Len(Files)
  /\ routes \in Seq({file \in ToSet(Files) : ~IsPrivate(file)})
  /\ nodes \in Seq(NodeType)
  /\ text \in Seq(Seq(Signs \ {Slash})) /\ Len(text) = Len(nodes)
  /\ begun \in 0 .. Len(routes)
  /\ at \in {0} \cup Ids
  /\ rest \in Seq(Signs)

\* The tree is touched when the walk is over.
AfterWalk ==
  IF begun = 0 THEN nodes = << Node(<<>>, "") >> /\ text = << <<>> >> /\ at = 0
               ELSE walked = Len(Files)

\* Each node but the root is the child or the wildcard of one node.
IsTree ==
  /\ 1 \in Ids
  /\ \A n \in Ids :
       /\ Kids(n) \subseteq Ids \ {1, n}
       /\ nodes[n].wild \in {0} \cup (Ids \ {1, n})
       /\ nodes[n].wild # 0 => nodes[nodes[n].wild].hole \in Holes
       /\ nodes[n].handler \in 0 .. begun
  /\ \A n, m \in Ids :
       /\ nodes[m].wild \notin Kids(n)
       /\ n # m => Kids(n) \cap Kids(m) = {} /\ (nodes[n].wild # 0 => nodes[n].wild # nodes[m].wild)

\* The edges spell the texts, and a text with a route is its pattern.
TextsSpelled ==
  /\ text[1] = <<>>
  /\ \A n \in Ids :
       LET node == nodes[n]
       IN  /\ \A kid \in Kids(n) : text[kid] = text[n] \o Letters(nodes[kid].path)
           /\ node.wild # 0 => text[node.wild] = Append(text[n], nodes[node.wild].hole)
           /\ node.handler # 0 => text[n] = Letters(Pattern(routes[node.handler]))
           /\ n # 1 => \E i \in 1 .. begun : IsPrefix(text[n], Letters(Pattern(routes[i])))
  /\ at # 0 => text[at] \o Letters(rest) = Letters(Pattern(routes[begun]))

\* A route that was inserted is where its pattern ends, or a later one with
\* the same letters has taken its place.
RoutesKept ==
  \A i \in 1 .. begun : \/ i = begun /\ at # 0
                        \/ \E n \in Ids : /\ text[n] = Letters(Pattern(routes[i]))
                                          /\ nodes[n].handler >= i

(* At every call of insert the nodes are a tree, their edges spell the     *)
(* text that leads to them, each text is the beginning of an inserted      *)
(* pattern, a route is nowhere but where its whole pattern ends, and there *)
(* it is, whatever was split or entered after it (insert, splitChild,      *)
(* addChild, radix.go:32-158); nothing is inserted before the walk is over *)
(* (router.go:54-80).                                                      *)
TreeSound == TypeOK /\ AfterWalk /\ IsTree /\ (Orderly => TextsSpelled /\ RoutesKept)

=============================================================================
