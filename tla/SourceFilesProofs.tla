------------------------- MODULE SourceFilesProofs -------------------------
(***************************************************************************)
(* Proofs about SourceFiles for every disk, every content and every order  *)
(* of the calls: what stays true of the directories, of the temporary      *)
(* files and of a compressed one when system calls fail, what decoding     *)
(* makes of a content, and how the stream's lines agree with the file's.   *)
(***************************************************************************)
EXTENDS SourceFiles, SequenceTheorems, FiniteSetTheorems, WellFoundedInduction, TLAPS

Contents == Seq(0 .. 255)

NodeStates == [kind : {"absent", "dir", "file", "gzip"}, bytes : Contents]

There(d, node) == d[node].kind # "absent"

\* Every node that is there lies in a directory.
Tree(d) ==
  /\ d \in [Nodes -> NodeStates]
  /\ \A node \in Nodes : There(d, node) => InDirectory(d, node)

\* Nothing that is there lies in the node.
Childless(d, node) ==
  \A child \in Nodes :
    Len(child) > 1 /\ Front(child) = node => ~ There(d, child)

-----------------------------------------------------------------------------
(* Sequences of names *)

\* A nonempty set of naturals has a least element.
LEMMA Least ==
  ASSUME NEW T, T \subseteq Nat, T # {}
  PROVE  \E x \in T : \A y \in T : x <= y
<1>1. PICK x \in T : \A y \in T : ~ (<<y, x>> \in OpToRel(<, Nat))
  BY NatLessThanWellFounded, WFMin, Zenon
<1>2. ASSUME NEW y \in T PROVE ~ (y < x)
  BY <1>1, <1>2 DEF OpToRel
<1>3. \A y \in T : x <= y
  BY <1>2
<1>4. QED
  BY <1>3

LEMMA NodeFacts ==
  ASSUME NEW n \in Nodes
  PROVE  /\ n \in Seq(STRING) /\ Len(n) \in Nat /\ Len(n) >= 1
         /\ Front(n) \in Seq(STRING) /\ Len(Front(n)) = Len(n) - 1
         /\ \A i \in 1 .. Len(n) - 1 : Front(n)[i] = n[i]
         /\ Len(n) > 1 => Front(n) \in Nodes
<1>1. n \in Seq(STRING) /\ n # << >> /\ (Len(n) > 1 => Front(n) \in Nodes)
  BY DiskAssumption
<1>2. Len(n) \in Nat /\ Len(n) >= 1
  BY <1>1
<1>3. Front(n) = SubSeq(n, 1, Len(n) - 1)
  BY DEF Front
<1> DEFINE m == Len(n) - 1
<1>4. m \in Int /\ 1 \in Int /\ m - 1 + 1 = m /\ m >= 0
  BY <1>2
<1>5. \A i \in 1 .. m : n[i] \in STRING
  BY <1>1, <1>2
<1>6. /\ SubSeq(n, 1, m) \in Seq(STRING)
      /\ Len(SubSeq(n, 1, m)) = IF 1 <= m THEN m - 1 + 1 ELSE 0
      /\ \A i \in 1 .. m - 1 + 1 : SubSeq(n, 1, m)[i] = n[1 + i - 1]
  BY <1>4, <1>5, SubSeqProperties
<1>7. /\ Front(n) \in Seq(STRING) /\ Len(Front(n)) = Len(n) - 1
      /\ \A i \in 1 .. Len(n) - 1 : Front(n)[i] = n[i]
  BY <1>3, <1>4, <1>6
<1>8. QED
  BY <1>1, <1>2, <1>7

LEMMA PrefixIs ==
  ASSUME NEW s \in Seq(STRING), NEW t \in Seq(STRING)
  PROVE  IsPrefix(s, t) <=> /\ Len(s) <= Len(t)
                            /\ \A i \in 1 .. Len(s) : s[i] = t[i]
<1>1. Len(s) \in Nat /\ Len(t) \in Nat
  OBVIOUS
<1>2. SubSeq(s, 1, Len(s)) = s
  BY <1>1
<1>3. ASSUME Len(s) <= Len(t)
      PROVE  s = SubSeq(t, 1, Len(s)) <=> \A i \in 1 .. Len(s) : s[i] = t[i]
  <2> DEFINE u == SubSeq(t, 1, Len(s))
  <2>1. /\ u \in Seq(STRING) /\ Len(u) = Len(s)
        /\ \A i \in 1 .. Len(s) : u[i] = t[i]
    BY <1>1, <1>3
  <2> HIDE DEF u
  <2>2. s = u <=> \A i \in 1 .. Len(s) : s[i] = u[i]
    BY <2>1
  <2>3. QED
    BY <2>1, <2>2 DEF u
<1>4. QED
  BY <1>2, <1>3 DEF IsPrefix

\* The node one step down: inside, and behind its parent.
LEMMA InsideIs ==
  ASSUME NEW dir \in Nodes, NEW n \in Nodes
  PROVE  n \in Inside(dir) <=> /\ Len(dir) < Len(n)
                               /\ \A i \in 1 .. Len(dir) : dir[i] = n[i]
<1>1. /\ dir \in Seq(STRING) /\ n \in Seq(STRING)
      /\ Len(dir) \in Nat /\ Len(n) \in Nat
  BY NodeFacts
<1>2. n \in Inside(dir) <=> IsPrefix(dir, n) /\ dir # n
  BY DEF Inside, IsStrictPrefix
<1>3. dir = n <=> Len(dir) = Len(n) /\ \A i \in 1 .. Len(dir) : dir[i] = n[i]
  BY <1>1
<1>4. QED
  BY <1>1, <1>2, <1>3, PrefixIs

-----------------------------------------------------------------------------
(* One node of the disk is written *)

LEMMA PutTree ==
  ASSUME NEW d, Tree(d), NEW node, NEW v \in NodeStates,
         node \in Nodes /\ v.kind # "absent" => InDirectory(d, node),
         v.kind # "dir" => Childless(d, node)
  PROVE  /\ Tree([d EXCEPT ![node] = v])
         /\ \A n \in Nodes : [d EXCEPT ![node] = v][n] = IF n = node THEN v ELSE d[n]
<1> DEFINE e == [d EXCEPT ![node] = v]
<1>1. e \in [Nodes -> NodeStates]
      /\ \A n \in Nodes : e[n] = IF n = node THEN v ELSE d[n]
  BY DEF Tree
<1> HIDE DEF e
<1>2. ASSUME NEW n \in Nodes, There(e, n) PROVE InDirectory(e, n)
  <2> SUFFICES ASSUME Len(n) # 1 PROVE e[Front(n)].kind = "dir"
    BY DEF InDirectory
  <2>1. Len(n) > 1 /\ Front(n) \in Nodes /\ Front(n) # n
    <3>1. /\ Len(n) \in Nat /\ Len(n) >= 1 /\ Len(Front(n)) = Len(n) - 1
          /\ Len(n) > 1 => Front(n) \in Nodes
      BY NodeFacts
    <3>2. QED
      BY <3>1
  <2>2. CASE n = node
    BY <1>1, <1>2, <2>1, <2>2 DEF There, InDirectory
  <2>3. CASE n # node
    <3>1. There(d, n) /\ d[Front(n)].kind = "dir"
      BY <1>1, <1>2, <2>1, <2>3 DEF There, Tree, InDirectory
    <3>2. CASE Front(n) = node
      BY <1>1, <2>1, <3>1, <3>2 DEF Childless
    <3>3. CASE Front(n) # node
      BY <1>1, <2>1, <3>1, <3>3
    <3>4. QED
      BY <3>2, <3>3
  <2>4. QED
    BY <2>2, <2>3
<1>3. QED
  BY <1>1, <1>2 DEF e, Tree

\* Nothing lies in what is no directory, nor in an empty one.
LEMMA NoDirectoryIsChildless ==
  ASSUME NEW d, Tree(d), NEW node \in Nodes, d[node].kind # "dir"
  PROVE  Childless(d, node)
<1> SUFFICES ASSUME NEW child \in Nodes, Len(child) > 1, Front(child) = node,
                    There(d, child)
             PROVE  FALSE
  BY DEF Childless
<1>1. Len(child) # 1
  BY NodeFacts
<1>2. QED
  BY <1>1 DEF Tree, InDirectory

LEMMA EmptyIsChildless ==
  ASSUME NEW node \in Nodes, ListFiles(node) = {}
  PROVE  Childless(disk, node)
<1> SUFFICES ASSUME NEW child \in Nodes, Len(child) > 1, Front(child) = node,
                    There(disk, child)
             PROVE  FALSE
  BY DEF Childless
<1>1. Len(child) \in Nat /\ Len(node) = Len(child) - 1
      /\ \A i \in 1 .. Len(node) : node[i] = child[i]
  BY NodeFacts
<1>2. child \in Inside(node) /\ Len(child) = Len(node) + 1
  BY <1>1, InsideIs
<1>3. Last(child) \in ListFiles(node)
  BY <1>2 DEF ListFiles, Exists, There
<1>4. QED
  BY <1>3

-----------------------------------------------------------------------------
(* A directory is renamed with all it holds *)

\* What is behind a node has its parent behind it, or is its child.
LEMMA ParentInside ==
  ASSUME NEW dir \in Nodes, NEW n \in Inside(dir)
  PROVE  /\ n \in Nodes /\ Len(n) > 1 /\ Front(n) \in Nodes
         /\ Front(n) = dir \/ Front(n) \in Inside(dir)
<1>1. n \in Nodes
  BY DEF Inside
<1>2. /\ Len(dir) \in Nat /\ Len(n) \in Nat /\ Len(dir) >= 1
      /\ dir \in Seq(STRING)
      /\ Len(Front(n)) = Len(n) - 1 /\ Front(n) \in Seq(STRING)
      /\ \A i \in 1 .. Len(n) - 1 : Front(n)[i] = n[i]
      /\ Len(n) > 1 => Front(n) \in Nodes
  BY <1>1, NodeFacts
<1>3. Len(dir) < Len(n) /\ \A i \in 1 .. Len(dir) : dir[i] = n[i]
  BY <1>1, InsideIs
<1>4. Len(n) > 1 /\ Front(n) \in Nodes
  BY <1>2, <1>3
<1>5. \A i \in 1 .. Len(dir) : dir[i] = Front(n)[i]
  BY <1>2, <1>3
<1>6. CASE Len(n) = Len(dir) + 1
  <2>1. Len(Front(n)) = Len(dir)
    BY <1>2, <1>6
  <2>2. Front(n) = dir
    BY <1>2, <1>5, <2>1
  <2>3. QED
    BY <1>1, <1>4, <2>2
<1>7. CASE Len(n) # Len(dir) + 1
  <2>1. Len(dir) < Len(Front(n))
    BY <1>2, <1>3, <1>7
  <2>2. Front(n) \in Inside(dir)
    BY <1>4, <1>5, <2>1, InsideIs
  <2>3. QED
    BY <1>1, <1>4, <2>2
<1>8. QED
  BY <1>6, <1>7

\* What is behind a parent is behind what it is behind.
LEMMA InsideDown ==
  ASSUME NEW dir \in Nodes, NEW n \in Nodes, Len(n) > 1,
         Front(n) = dir \/ Front(n) \in Inside(dir)
  PROVE  n \in Inside(dir)
<1>1. /\ Len(dir) \in Nat /\ Len(n) \in Nat
      /\ Len(Front(n)) = Len(n) - 1 /\ Front(n) \in Nodes
      /\ \A i \in 1 .. Len(n) - 1 : Front(n)[i] = n[i]
  BY NodeFacts
<1>2. Len(dir) <= Len(Front(n)) /\ \A i \in 1 .. Len(dir) : dir[i] = Front(n)[i]
  <2>1. CASE Front(n) = dir
    BY <1>1, <2>1
  <2>2. CASE Front(n) \in Inside(dir)
    BY <1>1, <2>2, InsideIs
  <2>3. QED
    BY <2>1, <2>2
<1>3. Len(dir) < Len(n) /\ \A i \in 1 .. Len(dir) : dir[i] = n[i]
  BY <1>1, <1>2
<1>4. QED
  BY <1>3, InsideIs

\* Behind a node without a child nothing is there, however deep: the parent of
\* the shortest that were there would be there.
LEMMA NoneInside ==
  ASSUME NEW d, Tree(d), NEW dir \in Nodes, Childless(d, dir)
  PROVE  \A n \in Inside(dir) : ~ There(d, n)
<1> DEFINE T == {Len(n) : n \in {m \in Inside(dir) : There(d, m)}}
<1> SUFFICES ASSUME T # {} PROVE FALSE
  OBVIOUS
<1>1. T \subseteq Nat
  BY NodeFacts DEF Inside
<1>2. PICK k \in T : \A y \in T : k <= y
  <2> HIDE DEF T
  <2>1. QED
    BY <1>1, Least
<1>3. PICK n \in Inside(dir) : There(d, n) /\ k = Len(n)
  OBVIOUS
<1>4. /\ n \in Nodes /\ Len(n) > 1 /\ Front(n) \in Nodes
      /\ Front(n) = dir \/ Front(n) \in Inside(dir)
  BY ParentInside
<1>5. Len(n) \in Nat /\ Len(Front(n)) = Len(n) - 1
  BY <1>4, NodeFacts
<1>6. Front(n) # dir
  BY <1>3, <1>4 DEF Childless
<1>7. There(d, Front(n))
  <2>1. InDirectory(d, n) /\ Len(n) # 1
    BY <1>3, <1>4, <1>5 DEF Tree
  <2>2. QED
    BY <2>1 DEF InDirectory, There
<1>8. Len(Front(n)) \in T
  BY <1>4, <1>6, <1>7
<1>9. k <= Len(Front(n))
  BY <1>2, <1>8
<1>10. QED
  BY <1>3, <1>5, <1>9

LEMMA MovedIs ==
  ASSUME NEW old \in Nodes, NEW new \in Nodes, NEW n \in {old} \cup Inside(old)
  PROVE  LET m == MovedNode(old, new, n)
         IN  /\ m \in Seq(STRING)
             /\ Len(m) = Len(new) + (Len(n) - Len(old))
             /\ \A i \in 1 .. Len(new) : m[i] = new[i]
             /\ \A i \in 1 .. Len(n) - Len(old) :
                  m[Len(new) + i] = n[Len(old) + i]
             /\ n \in Nodes /\ Len(old) <= Len(n)
             /\ \A i \in 1 .. Len(old) : old[i] = n[i]
<1>1. n \in Nodes
  BY DEF Inside
<1>2. /\ old \in Seq(STRING) /\ new \in Seq(STRING) /\ n \in Seq(STRING)
      /\ Len(old) \in Nat /\ Len(new) \in Nat /\ Len(n) \in Nat
  BY <1>1, NodeFacts
<1>3. Len(old) <= Len(n) /\ \A i \in 1 .. Len(old) : old[i] = n[i]
  <2>1. CASE n = old
    BY <1>2, <2>1
  <2>2. CASE n \in Inside(old)
    BY <1>1, <1>2, <2>2, InsideIs
  <2>3. QED
    BY <2>1, <2>2
<1> DEFINE a == Len(old) + 1
           b == Len(n)
           tail == SubSeq(n, a, b)
<1>4. a \in Int /\ b \in Int /\ \A i \in a .. b : n[i] \in STRING
  BY <1>2
<1>5. /\ tail \in Seq(STRING)
      /\ Len(tail) = IF a <= b THEN b - a + 1 ELSE 0
      /\ \A i \in 1 .. b - a + 1 : tail[i] = n[a + i - 1]
  BY <1>4, SubSeqProperties
<1>6. Len(tail) = Len(n) - Len(old)
  BY <1>2, <1>3, <1>5
<1>7. \A i \in 1 .. Len(n) - Len(old) : tail[i] = n[Len(old) + i]
  <2> TAKE i \in 1 .. Len(n) - Len(old)
  <2>1. i \in 1 .. b - a + 1 /\ a + i - 1 = Len(old) + i
    BY <1>2
  <2>2. QED
    BY <1>5, <2>1
<1>8. tail \in Seq(STRING)
  BY <1>5
<1> HIDE DEF tail
<1> DEFINE m == new \o tail
<1>9. /\ m \in Seq(STRING) /\ Len(m) = Len(new) + Len(tail)
      /\ \A i \in 1 .. Len(m) :
           m[i] = IF i <= Len(new) THEN new[i] ELSE tail[i - Len(new)]
  BY <1>2, <1>8, ConcatProperties
<1> HIDE DEF m
<1>10. \A i \in 1 .. Len(new) : m[i] = new[i]
  BY <1>2, <1>3, <1>6, <1>9
<1>11. \A i \in 1 .. Len(n) - Len(old) : m[Len(new) + i] = n[Len(old) + i]
  <2> TAKE i \in 1 .. Len(n) - Len(old)
  <2>1. /\ Len(new) + i \in 1 .. Len(m) /\ ~ (Len(new) + i <= Len(new))
        /\ (Len(new) + i) - Len(new) = i
    BY <1>2, <1>3, <1>6, <1>9
  <2>2. m[Len(new) + i] = tail[i]
    BY <1>9, <2>1
  <2>3. QED
    BY <1>7, <2>2
<1>12. m = MovedNode(old, new, n)
  BY DEF m, tail, MovedNode, From
<1>13. QED
  BY <1>1, <1>3, <1>6, <1>9, <1>10, <1>11, <1>12

\* No two nodes are moved to one place.
LEMMA MovedOnce ==
  ASSUME NEW old \in Nodes, NEW new \in Nodes,
         NEW m \in {old} \cup Inside(old), NEW n \in {old} \cup Inside(old),
         MovedNode(old, new, m) = MovedNode(old, new, n)
  PROVE  m = n
<1> DEFINE x == MovedNode(old, new, m)
           y == MovedNode(old, new, n)
<1>1. /\ Len(x) = Len(new) + (Len(m) - Len(old)) /\ Len(old) <= Len(m)
      /\ \A i \in 1 .. Len(m) - Len(old) : x[Len(new) + i] = m[Len(old) + i]
      /\ m \in Nodes /\ \A i \in 1 .. Len(old) : old[i] = m[i]
  BY MovedIs, ZenonT(60)
<1>2. /\ Len(y) = Len(new) + (Len(n) - Len(old)) /\ Len(old) <= Len(n)
      /\ \A i \in 1 .. Len(n) - Len(old) : y[Len(new) + i] = n[Len(old) + i]
      /\ n \in Nodes /\ \A i \in 1 .. Len(old) : old[i] = n[i]
  BY MovedIs, ZenonT(60)
<1>3. x = y
  OBVIOUS
<1> HIDE DEF x, y
<1>4. /\ Len(old) \in Nat /\ Len(new) \in Nat /\ Len(m) \in Nat /\ Len(n) \in Nat
      /\ m \in Seq(STRING) /\ n \in Seq(STRING)
  BY <1>1, <1>2, NodeFacts
<1>5. Len(m) = Len(n)
  BY <1>1, <1>2, <1>3, <1>4
<1>6. \A i \in 1 .. Len(m) : m[i] = n[i]
  <2> TAKE i \in 1 .. Len(m)
  <2>1. CASE i <= Len(old)
    BY <1>1, <1>2, <1>4, <2>1
  <2>2. CASE ~ (i <= Len(old))
    <3>1. i - Len(old) \in 1 .. Len(m) - Len(old) /\ Len(old) + (i - Len(old)) = i
      BY <1>4, <2>2
    <3>2. QED
      BY <1>1, <1>2, <1>3, <1>5, <3>1
  <2>3. QED
    BY <2>1, <2>2
<1>7. QED
  BY <1>4, <1>5, <1>6

LEMMA MovedWhere ==
  ASSUME NEW old \in Nodes, NEW new \in Nodes, NEW n \in {old} \cup Inside(old),
         MovedNode(old, new, n) \in Nodes
  PROVE  /\ n = old => MovedNode(old, new, n) = new
         /\ n # old => MovedNode(old, new, n) \in Inside(new)
<1> DEFINE m == MovedNode(old, new, n)
<1>1. /\ m \in Seq(STRING)
      /\ Len(m) = Len(new) + (Len(n) - Len(old)) /\ Len(old) <= Len(n)
      /\ \A i \in 1 .. Len(new) : m[i] = new[i]
  BY MovedIs
<1>2. m \in Nodes
  OBVIOUS
<1> HIDE DEF m
<1>3. /\ Len(old) \in Nat /\ Len(new) \in Nat /\ Len(n) \in Nat
      /\ new \in Seq(STRING) /\ n \in Nodes
  BY MovedIs, NodeFacts
<1>4. ASSUME n = old PROVE m = new
  <2>1. Len(m) = Len(new)
    BY <1>1, <1>3, <1>4
  <2>2. QED
    BY <1>1, <1>3, <2>1
<1>5. ASSUME n # old PROVE m \in Inside(new)
  <2>1. n \in Inside(old)
    BY <1>5
  <2>2. Len(old) < Len(n)
    BY <1>3, <2>1, InsideIs
  <2>3. Len(new) < Len(m) /\ \A i \in 1 .. Len(new) : new[i] = m[i]
    BY <1>1, <1>3, <2>2
  <2>4. QED
    BY <1>2, <2>3, InsideIs
<1>6. QED
  BY <1>4, <1>5 DEF m

\* The parent of what is moved is moved to the parent of its new place.
LEMMA MovedParent ==
  ASSUME NEW old \in Nodes, NEW new \in Nodes, NEW n \in Inside(old),
         MovedNode(old, new, n) \in Nodes
  PROVE  Front(MovedNode(old, new, n)) = MovedNode(old, new, Front(n))
<1> DEFINE m == MovedNode(old, new, n)
           p == Front(n)
           q == MovedNode(old, new, p)
<1>1. n \in Nodes /\ Len(n) > 1 /\ p \in {old} \cup Inside(old)
  BY ParentInside
<1>2. /\ Len(n) \in Nat /\ Len(p) = Len(n) - 1
      /\ \A i \in 1 .. Len(n) - 1 : p[i] = n[i]
  BY <1>1, NodeFacts
<1>3. /\ Len(m) = Len(new) + (Len(n) - Len(old))
      /\ \A i \in 1 .. Len(new) : m[i] = new[i]
      /\ \A i \in 1 .. Len(n) - Len(old) : m[Len(new) + i] = n[Len(old) + i]
  <2>1. n \in {old} \cup Inside(old)
    OBVIOUS
  <2>2. QED
    BY ONLY <2>1, MovedIs, old \in Nodes, new \in Nodes
<1>4. /\ q \in Seq(STRING)
      /\ Len(q) = Len(new) + (Len(p) - Len(old))
      /\ \A i \in 1 .. Len(new) : q[i] = new[i]
      /\ \A i \in 1 .. Len(p) - Len(old) : q[Len(new) + i] = p[Len(old) + i]
      /\ Len(old) <= Len(p)
  <2> HIDE DEF p
  <2>1. QED
    BY <1>1, MovedIs
<1>5. /\ Front(m) \in Seq(STRING) /\ Len(Front(m)) = Len(m) - 1
      /\ \A i \in 1 .. Len(m) - 1 : Front(m)[i] = m[i]
  <2>1. m \in Nodes
    OBVIOUS
  <2> HIDE DEF m
  <2>2. QED
    BY <2>1, NodeFacts
<1>6. Len(old) \in Nat /\ Len(new) \in Nat
  BY NodeFacts
<1> HIDE DEF m, p, q
<1>7. Len(Front(m)) = Len(q) /\ Len(q) \in Nat
  BY <1>2, <1>3, <1>4, <1>5, <1>6
<1>8. \A i \in 1 .. Len(q) : Front(m)[i] = q[i]
  <2> TAKE i \in 1 .. Len(q)
  <2>1. Front(m)[i] = m[i]
    BY <1>5, <1>7
  <2>2. CASE i <= Len(new)
    BY <1>3, <1>4, <1>6, <2>1, <2>2
  <2>3. CASE ~ (i <= Len(new))
    <3> DEFINE k == i - Len(new)
    <3>1. /\ k \in 1 .. Len(p) - Len(old) /\ k \in 1 .. Len(n) - Len(old)
          /\ Len(new) + k = i /\ Len(old) + k \in 1 .. Len(n) - 1
      BY <1>2, <1>4, <1>6, <2>3
    <3> HIDE DEF k
    <3>2. m[i] = n[Len(old) + k] /\ q[i] = p[Len(old) + k]
      BY <1>3, <1>4, <3>1
    <3>3. QED
      BY <1>2, <2>1, <3>1, <3>2
  <2>4. QED
    BY <2>2, <2>3
<1>9. Front(m) = q
  BY <1>4, <1>5, <1>7, <1>8
<1>10. QED
  BY <1>9 DEF m, p, q

\* What a node becomes: what was moved there, or nothing, or what it was.
LEMMA RenamedIs ==
  ASSUME NEW old \in Nodes, NEW new \in Nodes
  PROVE  LET e == Renamed(old, new)
         IN  /\ e = [node \in Nodes |-> e[node]]
             /\ \A n \in {old} \cup Inside(old) :
                  MovedNode(old, new, n) \in Nodes =>
                    e[MovedNode(old, new, n)] = disk[n]
             /\ \A node \in Nodes :
                  (\A n \in {old} \cup Inside(old) : node # MovedNode(old, new, n)) =>
                    e[node] = IF node = old \/ node \in Inside(old) THEN Absent
                              ELSE disk[node]
<1> DEFINE e == Renamed(old, new)
<1>1. e = [node \in Nodes |-> e[node]]
  BY DEF Renamed
<1>2. ASSUME NEW n \in {old} \cup Inside(old), MovedNode(old, new, n) \in Nodes
      PROVE  e[MovedNode(old, new, n)] = disk[n]
  <2> DEFINE node == MovedNode(old, new, n)
             c == CHOOSE m \in {old} \cup Inside(old) : node = MovedNode(old, new, m)
  <2>1. c \in {old} \cup Inside(old) /\ node = MovedNode(old, new, c)
    OBVIOUS
  <2>2. c = n
    <3> HIDE DEF c
    <3>1. QED
      BY <2>1, MovedOnce
  <2>3. node \in Nodes /\ \E m \in {old} \cup Inside(old) : node = MovedNode(old, new, m)
    BY <1>2
  <2>4. e[node] = disk[c]
    <3> HIDE DEF node
    <3>1. QED
      BY <2>3 DEF Renamed
  <2>5. QED
    BY <2>2, <2>4
<1>3. ASSUME NEW node \in Nodes,
             \A n \in {old} \cup Inside(old) : node # MovedNode(old, new, n)
      PROVE  e[node] = IF node = old \/ node \in Inside(old) THEN Absent ELSE disk[node]
  BY <1>3 DEF Renamed
<1> HIDE DEF e
<1>4. QED
  BY <1>1, <1>2, <1>3 DEF e

LEMMA RenameTree ==
  ASSUME Tree(disk), NEW old \in Nodes, NEW new \in Nodes,
         MayRename(old, new), old # new,
         \A n \in {old} \cup Inside(old) :
           Exists(n) => MovedNode(old, new, n) \in Nodes
  PROVE  Tree(Renamed(old, new))
<1> DEFINE e == Renamed(old, new)
           M == {old} \cup Inside(old)
           to(n) == MovedNode(old, new, n)
<1>1. /\ e = [node \in Nodes |-> e[node]]
      /\ \A n \in M : to(n) \in Nodes => e[to(n)] = disk[n]
      /\ \A node \in Nodes :
           (\A n \in M : node # to(n)) =>
             e[node] = IF node \in M THEN Absent ELSE disk[node]
  BY RenamedIs
<1>2. /\ \A n \in M : n \in Nodes
      /\ \A n \in Nodes : disk[n] \in NodeStates
  BY DEF Inside, Tree
<1>3. \A n \in M : to(n) \in Nodes =>
        (n = old => to(n) = new) /\ (n # old => to(n) \in Inside(new))
  BY MovedWhere
<1>4. \A n \in Inside(old) : to(n) \in Nodes => Front(to(n)) = to(Front(n))
  BY MovedParent
<1>5. /\ InDirectory(disk, new) /\ new \notin Inside(old)
      /\ Childless(disk, new)
  <2>1. new \notin Inside(old)
    BY DEF MayRename, Inside
  <2>2. disk[new].kind # "dir" \/ Childless(disk, new)
    <3>1. CASE IsFile(old)
      BY <3>1 DEF MayRename, IsDirectory
    <3>2. CASE ~ IsFile(old)
      BY <3>2, EmptyIsChildless DEF MayRename, MayRmdir, Exists
    <3>3. QED
      BY <3>1, <3>2
  <2>3. Childless(disk, new)
    BY <2>2, NoDirectoryIsChildless
  <2>4. QED
    BY <2>1, <2>2, <2>3 DEF MayRename
<1>7. \A n \in Inside(new) : ~ There(disk, n)
  BY <1>5, NoneInside
<1> HIDE DEF e, to
<1>8. Absent \in NodeStates /\ ~ (Absent.kind # "absent")
  BY DEF Absent, NodeStates, Contents
<1>9. ASSUME NEW node \in Nodes PROVE e[node] \in NodeStates
  <2>1. CASE \A n \in M : node # to(n)
    BY <1>1, <1>2, <1>8, <2>1
  <2>2. CASE \E n \in M : node = to(n)
    BY <1>1, <1>2, <2>2
  <2>3. QED
    BY <2>1, <2>2
<1>10. e \in [Nodes -> NodeStates]
  BY <1>1, <1>9
<1>11. ASSUME NEW node \in Nodes, There(e, node), Len(node) # 1
       PROVE  e[Front(node)].kind = "dir"
  <2>1. Len(node) > 1 /\ Front(node) \in Nodes /\ Len(Front(node)) = Len(node) - 1
        /\ Len(node) \in Nat
    <3>1. /\ Len(node) \in Nat /\ Len(node) >= 1 /\ Len(Front(node)) = Len(node) - 1
          /\ Len(node) > 1 => Front(node) \in Nodes
      BY NodeFacts
    <3>2. QED
      BY <1>11, <3>1
  <2> DEFINE p == Front(node)
  <2>2. CASE \E n \in M : node = to(n)
    <3>1. PICK n \in M : node = to(n)
      BY <2>2
    <3>2. There(disk, n)
      BY <1>1, <1>11, <3>1 DEF There
    <3>3. CASE n = old
      <4>1. node = new /\ disk[p].kind = "dir"
        BY <1>3, <1>5, <1>11, <3>1, <3>3 DEF InDirectory
      <4>2. p \notin Inside(new) /\ p # new
        <5>1. /\ Len(p) \in Nat /\ Len(new) \in Nat
              /\ ~ (Len(new) < Len(p)) /\ Len(p) # Len(new)
          BY <2>1, <4>1
        <5>2. QED
          BY <2>1, <5>1, InsideIs
      <4>3. \A m \in M : p # to(m)
        BY <1>3, <2>1, <4>2
      <4>4. p \notin M
        BY <1>5, <2>1, <4>1, InsideDown
      <4>5. QED
        BY <1>1, <2>1, <4>1, <4>3, <4>4
    <3>4. CASE n # old
      <4>1. n \in Inside(old)
        BY <3>4
      <4>2. n \in Nodes /\ Len(n) > 1 /\ Front(n) \in M /\ Len(n) \in Nat
        BY <4>1, ParentInside, NodeFacts
      <4>3. disk[Front(n)].kind = "dir"
        <5>1. Len(n) \in Nat /\ Len(n) > 1
          BY <4>2
        <5>2. Len(n) # 1
          <6>1. \A k \in Nat : k > 1 => k # 1
            BY ONLY TRUE
          <6>2. QED
            BY ONLY <5>1, <6>1, Zenon
        <5>3. QED
          BY <3>2, <4>2, <5>2 DEF Tree, InDirectory
      <4>4. p = to(Front(n))
        BY <1>4, <3>1, <4>1
      <4>5. QED
        BY <1>1, <2>1, <4>2, <4>3, <4>4
    <3>5. QED
      BY <3>3, <3>4
  <2>3. CASE \A n \in M : node # to(n)
    <3>1. node \notin M /\ e[node] = disk[node]
      BY <1>1, <1>8, <1>11, <2>3 DEF There
    <3>2. There(disk, node) /\ disk[p].kind = "dir"
      BY <1>11, <3>1 DEF There, Tree, InDirectory
    <3>3. p # new /\ p \notin Inside(new)
      <4>1. p = new \/ p \in Inside(new) => node \in Inside(new)
        BY <2>1, InsideDown
      <4>2. QED
        BY <1>7, <3>2, <4>1
    <3>4. \A m \in M : p # to(m)
      BY <1>3, <2>1, <3>3
    <3>5. p \notin M
      BY <2>1, <3>1, InsideDown
    <3>6. QED
      BY <1>1, <2>1, <3>2, <3>4, <3>5
  <2>4. QED
    BY <2>2, <2>3
<1>12. \A node \in Nodes : There(e, node) => InDirectory(e, node)
  BY <1>11 DEF InDirectory
<1>13. QED
  BY <1>10, <1>12 DEF Tree, e

-----------------------------------------------------------------------------
(* One call on the disk *)

LEMMA KindsAre ==
  /\ Absent \in NodeStates /\ Absent.kind = "absent"
  /\ Directory \in NodeStates /\ Directory.kind = "dir"
  /\ \A b \in Contents :
       /\ FileOf(b) \in NodeStates /\ FileOf(b).kind = "file" /\ FileOf(b).bytes = b
       /\ GzipOf(b) \in NodeStates /\ GzipOf(b).kind = "gzip"
BY DEF Absent, Directory, FileOf, GzipOf, NodeStates, Contents

\* A file comes where no directory is, in a directory.
LEMMA FileTree ==
  ASSUME NEW d, Tree(d), NEW node \in Nodes, InDirectory(d, node),
         d[node].kind # "dir", NEW v \in NodeStates
  PROVE  /\ Tree([d EXCEPT ![node] = v])
         /\ \A n \in Nodes : [d EXCEPT ![node] = v][n] = IF n = node THEN v ELSE d[n]
<1>1. Childless(d, node)
  BY NoDirectoryIsChildless
<1>2. QED
  BY <1>1, PutTree

\* What has nothing behind it goes away.
LEMMA AbsentTree ==
  ASSUME NEW d, Tree(d), NEW node \in Nodes, Childless(d, node)
  PROVE  /\ Tree([d EXCEPT ![node] = Absent])
         /\ \A n \in Nodes : [d EXCEPT ![node] = Absent][n] = IF n = node THEN Absent ELSE d[n]
<1>1. Absent \in NodeStates /\ Absent.kind = "absent"
  BY KindsAre
<1>2. QED
  BY <1>1, PutTree

\* The node need not be one: then nothing is made.
LEMMA MkdirTree ==
  ASSUME NEW d, Tree(d), NEW node, NEW failing
  PROVE  /\ Tree(Mkdir(d, node, failing))
         /\ \A n \in Nodes : \/ Mkdir(d, node, failing)[n] = d[n]
                             \/ Mkdir(d, node, failing)[n].kind = "dir" /\ d[n].kind = "absent"
<1>1. CASE MayMkdir(d, node) /\ ~ failing
  <2>1. Directory \in NodeStates /\ Directory.kind = "dir"
    BY KindsAre
  <2>2. InDirectory(d, node) /\ d[node].kind = "absent"
    BY <1>1 DEF MayMkdir
  <2>3. /\ Tree([d EXCEPT ![node] = Directory])
        /\ \A n \in Nodes : [d EXCEPT ![node] = Directory][n] = IF n = node THEN Directory ELSE d[n]
    BY <2>1, <2>2, PutTree
  <2>4. QED
    BY <1>1, <2>1, <2>2, <2>3 DEF Mkdir
<1>2. CASE ~ (MayMkdir(d, node) /\ ~ failing)
  BY <1>2 DEF Mkdir
<1>3. QED
  BY <1>1, <1>2

LEMMA PrefixIn ==
  ASSUME NEW b \in Contents, NEW most \in 0 .. Len(b)
  PROVE  /\ SubSeq(b, 1, most) \in Contents
         /\ most = Len(b) => SubSeq(b, 1, most) = b
<1> DEFINE S == 0 .. 255
<1>0. b \in Seq(S)
  BY DEF Contents
<1> HIDE DEF S
<1>1. /\ Len(b) \in Nat /\ most \in Int /\ 1 \in Int
      /\ \A i \in 1 .. most : b[i] \in S
  BY <1>0
<1>2. SubSeq(b, 1, most) \in Seq(S)
  BY <1>1, SubSeqProperties
<1>3. ASSUME most = Len(b) PROVE SubSeq(b, 1, most) = b
  BY <1>0, <1>3, SubSeqFull
<1>4. QED
  BY <1>2, <1>3 DEF Contents, S

LEMMA EmptyIn == << >> \in Contents
BY DEF Contents

\* Which nodes hold a file?
Files(d, S) == {node \in S : d[node].kind \in {"file", "gzip"}}

LEMMA PutFile ==
  ASSUME Tree(disk), NEW node \in Nodes, InDirectory(disk, node),
         disk[node].kind # "dir", NEW b \in Contents
  PROVE  /\ Tree([disk EXCEPT ![node] = FileOf(b)])
         /\ \A n \in Nodes : [disk EXCEPT ![node] = FileOf(b)][n]
                               = IF n = node THEN FileOf(b) ELSE disk[n]
<1>1. FileOf(b) \in NodeStates
  BY KindsAre
<1>2. QED
  BY <1>1, FileTree

LEMMA WrittenTree ==
  ASSUME Tree(disk), NEW node \in Nodes, NEW content \in Contents, NEW fault,
         NEW most \in 0 .. Len(content)
  PROVE  /\ Tree(Written(node, content, fault, most))
         /\ \A n \in Nodes : n # node => Written(node, content, fault, most)[n] = disk[n]
<1>1. CASE fault = "open" \/ ~ MayOpenForWriting(node)
  BY <1>1 DEF Written
<1>2. CASE ~ (fault = "open" \/ ~ MayOpenForWriting(node))
  <2> DEFINE b == IF fault \in {"write", "flush"} THEN SubSeq(content, 1, most)
                  ELSE content
  <2>1. b \in Contents
    BY PrefixIn
  <2>2. Written(node, content, fault, most) = [disk EXCEPT ![node] = FileOf(b)]
    BY <1>2 DEF Written
  <2> HIDE DEF b
  <2>4. InDirectory(disk, node) /\ disk[node].kind # "dir"
    BY <1>2 DEF MayOpenForWriting, IsDirectory
  <2>5. /\ Tree([disk EXCEPT ![node] = FileOf(b)])
        /\ \A n \in Nodes : [disk EXCEPT ![node] = FileOf(b)][n]
                              = IF n = node THEN FileOf(b) ELSE disk[n]
    BY <2>1, <2>4, PutFile
  <2>6. QED
    BY <2>2, <2>5
<1>3. QED
  BY <1>1, <1>2

\* Removing takes a file or an empty directory away.
LEMMA RemovedTree ==
  ASSUME Tree(disk), NEW node \in Nodes, IsFile(node) \/ MayRmdir(node)
  PROVE  /\ Tree([disk EXCEPT ![node] = Absent])
         /\ \A n \in Nodes : [disk EXCEPT ![node] = Absent][n]
                               = IF n = node THEN Absent ELSE disk[n]
<1>1. CASE IsFile(node)
  <2>1. Childless(disk, node)
    BY <1>1, NoDirectoryIsChildless DEF IsFile
  <2>2. QED
    BY <2>1, AbsentTree
<1>2. CASE MayRmdir(node)
  <2>1. Childless(disk, node)
    BY <1>2, EmptyIsChildless DEF MayRmdir
  <2>2. QED
    BY <2>1, AbsentTree
<1>3. QED
  BY <1>1, <1>2

\* At most so many calls fail.
LEMMA FaultsCounted ==
  ASSUME faults \in 0 .. MaxFaults, NEW calls_, NEW fault \in Faults(calls_),
         NEW op, NEW node, NEW dest, NEW ok, Returns(op, node, dest, ok, fault)
  PROVE  /\ faults' \in 0 .. MaxFaults /\ faults <= faults'
         /\ fault # "none" => faults' = faults + 1
<1>1. MaxFaults \in Nat
  BY DiskAssumption
<1>2. fault = "none" \/ faults < MaxFaults
  BY DEF Faults
<1>3. QED
  BY <1>1, <1>2 DEF Returns

\* The loop over the prefixes, turn by turn.
LEMMA PrefixesMadeIs ==
  ASSUME NEW whole, NEW failing, NEW top \in Nat, top = Len(whole) + 1
  PROVE  LET made == PrefixesMade(whole, failing)
         IN  \A i \in 1 .. top :
               made[i] =
                 IF i = 1 THEN [disk |-> disk, result |-> 0]
                 ELSE IF i \in PrefixEnds(whole)
                      THEN MakePrefix(made[i - 1], Resolve(SubSeq(whole, 1, i - 1)),
                                      i = failing)
                 ELSE made[i - 1]
<1> DEFINE Turn(f, i) == IF i = 1 THEN [disk |-> disk, result |-> 0]
                         ELSE IF i \in PrefixEnds(whole)
                              THEN MakePrefix(f[i - 1], Resolve(SubSeq(whole, 1, i - 1)),
                                              i = failing)
                         ELSE f[i - 1]
           Some(n) == \E f : f = [i \in 1 .. n |-> Turn(f, i)]
           Missing == {n \in Nat : ~ Some(n)}
<1>1. PrefixesMade(whole, failing) = CHOOSE f : f = [i \in 1 .. top |-> Turn(f, i)]
  BY DEF PrefixesMade
<1>2. \A f, g, i, j : f[i - 1] = g[i - 1] => Turn(f, i) = Turn(g, i)
  OBVIOUS
<1>3. \A f, g : Turn(f, 1) = Turn(g, 1)
  OBVIOUS
<1> HIDE DEF Turn
<1>4. Missing = {}
  <2> SUFFICES ASSUME Missing # {} PROVE FALSE
    OBVIOUS
  <2>1. PICK n \in Missing : \A m \in Missing : n <= m
    BY Least
  <2>2. n # 0
    <3> DEFINE f == [i \in 1 .. 0 |-> 0]
    <3>1. f = [i \in 1 .. 0 |-> Turn(f, i)]
      OBVIOUS
    <3>2. QED
      BY <2>1, <3>1
  <2>3. n \in Nat /\ n - 1 \in Nat /\ n - 1 \notin Missing
    BY <2>1, <2>2
  <2>4. PICK f : f = [i \in 1 .. n - 1 |-> Turn(f, i)]
    BY <2>3
  <2> DEFINE g == [i \in 1 .. n |-> IF i = n THEN Turn(f, n) ELSE f[i]]
  <2>5. \A i \in 1 .. n : g[i] = Turn(g, i)
    <3> SUFFICES ASSUME NEW i \in 1 .. n PROVE g[i] = Turn(g, i)
      OBVIOUS
    <3>1. Turn(g, i) = Turn(f, i)
      <4>1. CASE i = 1
        BY <1>3, <4>1
      <4>2. CASE i # 1
        <5>1. i - 1 \in 1 .. n - 1 /\ i - 1 \in 1 .. n /\ i - 1 # n
          BY <2>3, <4>2
        <5>2. g[i - 1] = f[i - 1]
          BY <5>1
        <5>3. QED
          BY <1>2, <5>2
      <4>3. QED
        BY <4>1, <4>2
    <3>2. g[i] = Turn(f, i)
      <4>1. CASE i = n
        BY <4>1
      <4>2. CASE i # n
        <5>1. i \in 1 .. n - 1
          BY <2>3, <4>2
        <5>2. QED
          BY <2>4, <4>2, <5>1
      <4>3. QED
        BY <4>1, <4>2
    <3>3. QED
      BY <3>1, <3>2
  <2>6. g = [i \in 1 .. n |-> Turn(g, i)]
    BY <2>5
  <2>7. QED
    BY <2>1, <2>6
<1>5. Some(top)
  BY <1>4
<1>6. PrefixesMade(whole, failing)
        = [i \in 1 .. top |-> Turn(PrefixesMade(whole, failing), i)]
  BY <1>1, <1>5
<1>7. \A i \in 1 .. top :
        PrefixesMade(whole, failing)[i] = Turn(PrefixesMade(whole, failing), i)
  BY <1>6
<1>8. QED
  BY <1>7 DEF Turn

\* What create_directories() has done: the directories are in order, no file is
\* changed, and the failures are counted.
MakingKept(s) ==
  /\ Tree(s.disk)
  /\ \A n \in Nodes : s.disk[n] = disk[n] \/ s.disk[n].kind = "dir"
  /\ s.result \in Nat

LEMMA MakePrefixKept ==
  ASSUME NEW s, MakingKept(s), NEW node, NEW fails
  PROVE  MakingKept(MakePrefix(s, node, fails))
<1> DEFINE e == Mkdir(s.disk, node, fails)
           t == MakePrefix(s, node, fails)
<1>1. t.disk \in {s.disk, e} /\ t.result \in {s.result, s.result + 0, s.result + 1}
  BY DEF MakePrefix
<1>2. Tree(e) /\ \A n \in Nodes : e[n] = s.disk[n] \/ e[n].kind = "dir"
  BY MkdirTree DEF MakingKept
<1> HIDE DEF e, t
<1>3. t.result \in Nat
  BY <1>1 DEF MakingKept
<1>4. Tree(t.disk) /\ \A n \in Nodes : t.disk[n] = disk[n] \/ t.disk[n].kind = "dir"
  BY <1>1, <1>2 DEF MakingKept
<1>5. MakingKept(t)
  BY <1>3, <1>4 DEF MakingKept
<1>6. QED
  BY <1>5 DEF t

\* Whatever fails of it, create_directories() leaves the directories in order
\* and changes no file.
LEMMA PrefixesTree ==
  ASSUME Tree(disk), NEW whole \in Seq(STRING), NEW failing
  PROVE  \A i \in 1 .. Len(whole) + 1 : MakingKept(PrefixesMade(whole, failing)[i])
<1> DEFINE made == PrefixesMade(whole, failing)
           top == Len(whole) + 1
           Bad == {i \in 1 .. top : ~ MakingKept(made[i])}
<1>1. top \in Nat /\ top >= 1
  OBVIOUS
<1>2. \A i \in 1 .. top :
        made[i] =
          IF i = 1 THEN [disk |-> disk, result |-> 0]
          ELSE IF i \in PrefixEnds(whole)
               THEN MakePrefix(made[i - 1], Resolve(SubSeq(whole, 1, i - 1)),
                               i = failing)
          ELSE made[i - 1]
  BY <1>1, PrefixesMadeIs
<1>4. MakingKept([disk |-> disk, result |-> 0])
  BY DEF MakingKept
<1> HIDE DEF made, top
<1>5. Bad = {}
  <2> SUFFICES ASSUME Bad # {} PROVE FALSE
    OBVIOUS
  <2>1. Bad \subseteq Nat
    BY <1>1
  <2>2. PICK i \in Bad : \A j \in Bad : i <= j
    <3> HIDE DEF Bad
    <3>1. QED
      BY <2>1, Least
  <2>3. i # 1
    <3>1. 1 \in 1 .. top /\ made[1] = [disk |-> disk, result |-> 0]
      BY <1>1, <1>2
    <3>2. QED
      BY <1>4, <3>1
  <2>4. i \in 1 .. top /\ i - 1 \in 1 .. top /\ ~ (i <= i - 1)
    BY <1>1, <2>3
  <2>5. MakingKept(made[i - 1])
    BY <2>2, <2>4
  <2>6. \/ made[i] = made[i - 1]
        \/ made[i] = MakePrefix(made[i - 1], Resolve(SubSeq(whole, 1, i - 1)), i = failing)
    BY <1>2, <2>3, <2>4
  <2>7. MakingKept(made[i])
    BY <2>5, <2>6, MakePrefixKept
  <2>8. QED
    BY <2>7
<1>6. \A i \in 1 .. top : MakingKept(made[i])
  BY <1>5
<1>7. QED
  BY <1>6 DEF made, top

\* The node of a path, name by name.
NodesTo(names, f) ==
  f = [i \in 0 .. Len(names) |->
         IF i = 0 THEN << >>
         ELSE IF names[i] = Separator THEN f[i - 1] ELSE Append(f[i - 1], names[i])]

LEMMA ResolveIs ==
  ASSUME NEW names, NEW top \in Nat, top = Len(names)
  PROVE  \E f : NodesTo(names, f) /\ Resolve(names) = f[top]
<1> DEFINE Turn(f, i) == IF i = 0 THEN << >>
                         ELSE IF names[i] = Separator THEN f[i - 1]
                              ELSE Append(f[i - 1], names[i])
           Some(n) == \E f : f = [i \in 0 .. n |-> Turn(f, i)]
           Missing == {n \in Nat : ~ Some(n)}
           node == CHOOSE f : f = [i \in 0 .. top |-> Turn(f, i)]
<1>1. Resolve(names) = node[top]
  BY DEF Resolve
<1>2. \A f, g, i : f[i - 1] = g[i - 1] => Turn(f, i) = Turn(g, i)
  OBVIOUS
<1>3. \A f, g : Turn(f, 0) = Turn(g, 0)
  OBVIOUS
<1>4. \A f : f = [i \in 0 .. top |-> Turn(f, i)] => NodesTo(names, f)
  BY DEF NodesTo
<1> HIDE DEF Turn
<1>5. Missing = {}
  <2> SUFFICES ASSUME Missing # {} PROVE FALSE
    OBVIOUS
  <2>1. PICK n \in Missing : \A m \in Missing : n <= m
    <3> HIDE DEF Some
    <3>1. QED
      BY Least
  <2>2. n # 0
    <3> DEFINE f == [i \in 0 .. 0 |-> Turn(0, 0)]
    <3>1. \A i \in 0 .. 0 : Turn(0, 0) = Turn(f, i)
      BY <1>3
    <3>2. f = [i \in 0 .. 0 |-> Turn(f, i)]
      BY <3>1
    <3>3. QED
      BY <2>1, <3>2
  <2>3. n \in Nat /\ n - 1 \in Nat /\ n - 1 \notin Missing
    BY <2>1, <2>2
  <2>4. PICK f : f = [i \in 0 .. n - 1 |-> Turn(f, i)]
    BY <2>3
  <2> DEFINE g == [i \in 0 .. n |-> IF i = n THEN Turn(f, n) ELSE f[i]]
  <2>5. ASSUME NEW i \in 0 .. n PROVE g[i] = Turn(g, i)
    <3>1. Turn(g, i) = Turn(f, i)
      <4>1. CASE i = 0
        BY <1>3, <4>1
      <4>2. CASE i # 0
        <5>1. i - 1 \in 0 .. n - 1 /\ i - 1 \in 0 .. n /\ i - 1 # n
          BY <2>3, <4>2
        <5>2. g[i - 1] = f[i - 1]
          BY <5>1
        <5>3. QED
          BY <1>2, <5>2
      <4>3. QED
        BY <4>1, <4>2
    <3>2. g[i] = Turn(f, i)
      <4>1. CASE i = n
        BY <4>1
      <4>2. CASE i # n
        <5>1. i \in 0 .. n - 1
          BY <2>3, <4>2
        <5>2. QED
          BY <2>4, <4>2, <5>1
      <4>3. QED
        BY <4>1, <4>2
    <3>3. QED
      BY <3>1, <3>2
  <2>6. g = [i \in 0 .. n |-> Turn(g, i)]
    BY <2>5
  <2>7. QED
    BY <2>1, <2>6
<1>6. Some(top)
  BY <1>5
<1>7. node = [i \in 0 .. top |-> Turn(node, i)]
  BY <1>6
<1>8. QED
  BY <1>1, <1>4, <1>7

\* A separator at the end is not part of the node.
LEMMA ResolveFront ==
  ASSUME NEW names \in Seq(STRING), names # << >>, names[Len(names)] = Separator
  PROVE  Resolve(names) = Resolve(SubSeq(names, 1, Len(names) - 1))
<1> DEFINE m == Len(names) - 1
           front == SubSeq(names, 1, m)
<1>1. m \in Nat /\ Len(names) = m + 1 /\ m + 1 \in Nat
  OBVIOUS
<1>2. Len(front) = m /\ \A i \in 1 .. m : front[i] = names[i]
  BY <1>1
<1> HIDE DEF front, m
<1>3. PICK f : NodesTo(names, f) /\ Resolve(names) = f[m + 1]
  BY <1>1, ResolveIs
<1>4. PICK g : NodesTo(front, g) /\ Resolve(front) = g[m]
  BY <1>1, <1>2, ResolveIs
<1>5. \A i \in 0 .. m + 1 :
        f[i] = IF i = 0 THEN << >>
               ELSE IF names[i] = Separator THEN f[i - 1] ELSE Append(f[i - 1], names[i])
  BY <1>1, <1>3 DEF NodesTo
<1>6. \A i \in 0 .. m :
        g[i] = IF i = 0 THEN << >>
               ELSE IF front[i] = Separator THEN g[i - 1] ELSE Append(g[i - 1], front[i])
  BY <1>2, <1>4 DEF NodesTo
<1> DEFINE Differ == {i \in 0 .. m : f[i] # g[i]}
<1>7. Differ = {}
  <2> SUFFICES ASSUME Differ # {} PROVE FALSE
    OBVIOUS
  <2>1. Differ \subseteq Nat
    BY <1>1
  <2>2. PICK i \in Differ : \A j \in Differ : i <= j
    <3> HIDE DEF Differ
    <3>1. QED
      BY <2>1, Least
  <2>3. i \in 0 .. m /\ i \in 0 .. m + 1 /\ f[i] # g[i]
    BY <1>1, <2>2
  <2>4. CASE i = 0
    BY <1>5, <1>6, <2>3, <2>4
  <2>5. CASE i # 0
    <3>1. i - 1 \in 0 .. m /\ i \in 1 .. m /\ ~ (i <= i - 1)
      BY <1>1, <2>3, <2>5
    <3>2. f[i - 1] = g[i - 1] /\ front[i] = names[i]
      BY <1>2, <2>2, <3>1
    <3>3. QED
      BY <1>5, <1>6, <2>3, <2>5, <3>2
  <2>6. QED
    BY <2>4, <2>5
<1>8. f[m + 1] = f[m] /\ f[m] = g[m]
  <2>1. m + 1 \in 0 .. m + 1 /\ m + 1 # 0 /\ (m + 1) - 1 = m /\ m \in 0 .. m
    BY <1>1
  <2>2. names[m + 1] = Separator
    BY <1>1
  <2>3. QED
    BY <1>5, <1>7, <2>1, <2>2
<1>9. QED
  BY <1>3, <1>4, <1>8 DEF front, m

\* The path as it is given and without the separator at its end are of one node.
LEMMA ResolveSanitized ==
  ASSUME NEW names \in Seq(STRING)
  PROVE  Resolve(SanitizeComponent(names, TRUE)) = Resolve(names)
<1>1. CASE names # << >> /\ Last(names) = Separator
  <2>1. SanitizeComponent(names, TRUE) = SubSeq(names, 1, Len(names) - 1)
    BY <1>1 DEF SanitizeComponent, Front
  <2>2. names[Len(names)] = Separator
    BY <1>1 DEF Last
  <2>3. QED
    BY <1>1, <2>1, <2>2, ResolveFront
<1>2. CASE ~ (names # << >> /\ Last(names) = Separator)
  BY <1>2 DEF SanitizeComponent
<1>3. QED
  BY <1>1, <1>2

LEMMA ResolveNone == Resolve(<< >>) = << >>
<1>1. 0 \in Nat /\ 0 = Len(<< >>)
  OBVIOUS
<1>2. PICK f : NodesTo(<< >>, f) /\ Resolve(<< >>) = f[0]
  BY <1>1, ResolveIs
<1>3. QED
  BY <1>1, <1>2 DEF NodesTo

\* One of the last two turns of the loop takes the whole path.
LEMMA WholeTaken ==
  ASSUME NEW whole \in Seq(STRING), Resolve(whole) # << >>, NEW failing
  PROVE  LET made == PrefixesMade(whole, failing)
         IN  \E i \in 1 .. Len(whole) : \E fails :
               made[Len(whole) + 1] = MakePrefix(made[i], Resolve(whole), fails)
<1> DEFINE n == Len(whole)
           made == PrefixesMade(whole, failing)
<1>1. n \in Nat /\ n + 1 \in Nat /\ n >= 1
  <2>1. whole # << >>
    BY ResolveNone
  <2>2. QED
    BY <2>1
<1>2. \A i \in 1 .. n + 1 :
        made[i] =
          IF i = 1 THEN [disk |-> disk, result |-> 0]
          ELSE IF i \in PrefixEnds(whole)
               THEN MakePrefix(made[i - 1], Resolve(SubSeq(whole, 1, i - 1)),
                               i = failing)
          ELSE made[i - 1]
  BY <1>1, PrefixesMadeIs
<1>3. n + 1 \in 1 .. n + 1 /\ n + 1 # 1 /\ (n + 1) - 1 = n /\ n \in 1 .. n
  BY <1>1
<1>4. SubSeq(whole, 1, n) = whole
  OBVIOUS
<1> HIDE DEF made
<1>5. CASE whole[n] # Separator
  <2>1. n + 1 \in PrefixEnds(whole)
    BY <1>1, <1>5 DEF PrefixEnds
  <2> HIDE DEF n
  <2>2. made[n + 1] = MakePrefix(made[n], Resolve(whole), n + 1 = failing)
    BY <1>2, <1>3, <1>4, <2>1
  <2>3. QED
    BY <1>3, <2>2 DEF made, n
<1>6. CASE whole[n] = Separator
  <2>1. Resolve(SubSeq(whole, 1, n - 1)) = Resolve(whole)
    BY <1>1, <1>6, ResolveFront
  <2>2. n # 1
    <3> SUFFICES ASSUME n = 1 PROVE FALSE
      OBVIOUS
    <3>1. SubSeq(whole, 1, n - 1) = << >>
      OBVIOUS
    <3>2. QED
      BY <2>1, <3>1, ResolveNone
  <2>3. n \in PrefixEnds(whole) /\ n + 1 \notin PrefixEnds(whole)
    <3>1. n \in 2 .. Len(whole) + 1 /\ n <= Len(whole) /\ ~ (n + 1 <= Len(whole))
      <4>1. n = Len(whole)
        OBVIOUS
      <4> HIDE DEF n
      <4>2. QED
        BY <1>1, <2>2, <4>1
    <3>2. whole[Len(whole)] = Separator
      BY <1>6
    <3> HIDE DEF n
    <3>3. QED
      BY <1>6, <3>1, <3>2 DEF PrefixEnds
  <2>4. n \in 1 .. n + 1 /\ n - 1 \in 1 .. n
    <3> HIDE DEF n
    <3>1. QED
      BY <1>1, <2>2
  <2> HIDE DEF n
  <2>5. made[n + 1] = made[n]
    BY <1>2, <1>3, <2>3
  <2>6. made[n] = MakePrefix(made[n - 1], Resolve(whole), n = failing)
    BY <1>2, <2>1, <2>2, <2>3, <2>4
  <2>7. made[n + 1] = MakePrefix(made[n - 1], Resolve(whole), n = failing)
    BY <2>5, <2>6
  <2>8. QED
    BY <2>4, <2>7 DEF made, n
<1>7. QED
  BY <1>5, <1>6

\* A call that counts no failure has made its node, unless it is a file.
LEMMA WholeMade ==
  ASSUME Tree(disk), NEW whole \in Seq(STRING), NEW failing,
         NEW node \in Nodes, Resolve(whole) = node,
         PrefixesMade(whole, failing)[Len(whole) + 1].result = 0
  PROVE  LET d == PrefixesMade(whole, failing)[Len(whole) + 1].disk
         IN  /\ Tree(d) /\ There(d, node)
             /\ d[node].kind = "dir" \/ IsFile(node)
<1> DEFINE made == PrefixesMade(whole, failing)
           t == made[Len(whole) + 1]
<1>1. node # << >>
  BY DiskAssumption
<1>0. PICK i \in 1 .. Len(whole) : \E fails : t = MakePrefix(made[i], node, fails)
  BY <1>1, WholeTaken
<1>2. PICK fails : t = MakePrefix(made[i], node, fails)
  BY <1>0
<1>3. /\ i \in 1 .. Len(whole) + 1 /\ Len(whole) + 1 \in 1 .. Len(whole) + 1
  OBVIOUS
<1>4. MakingKept(made[i]) /\ MakingKept(t)
  BY <1>3, PrefixesTree
<1> DEFINE s == made[i]
           e == Mkdir(s.disk, node, fails)
<1>5. t = MakePrefix(s, node, fails) /\ t.result = 0
  BY <1>2
<1>6. /\ Tree(s.disk) /\ s.result \in Nat /\ Tree(t.disk)
      /\ s.disk[node] = disk[node] \/ s.disk[node].kind = "dir"
      /\ s.disk[node].kind \in {"absent", "dir", "file", "gzip"}
  BY <1>4 DEF MakingKept, Tree, NodeStates
<1> HIDE DEF s, t, e
<1>7. CASE s.disk[node].kind = "dir"
  <2>1. t.disk[node].kind = "dir"
    BY <1>5, <1>7 DEF MakePrefix
  <2>2. QED
    BY <1>6, <2>1 DEF There, t, made
<1>8. CASE s.disk[node].kind # "dir"
  <2>1. t.disk = e /\ MkdirReturnsZero(s.disk, node, fails)
    BY <1>5, <1>6, <1>8 DEF MakePrefix, e
  <2>2. CASE s.disk[node].kind = "absent"
    <3>1. e = [s.disk EXCEPT ![node] = Directory] /\ node \in DOMAIN s.disk
      BY <1>6, <2>1, <2>2 DEF MkdirReturnsZero, Mkdir, e, Tree
    <3>2. t.disk[node].kind = "dir"
      BY <2>1, <3>1 DEF Directory
    <3>3. QED
      BY <1>6, <3>2 DEF There, t, made
  <2>3. CASE s.disk[node].kind # "absent"
    <3>1. e = s.disk
      BY <2>3 DEF Mkdir, MayMkdir, e
    <3>2. IsFile(node) /\ There(t.disk, node)
      BY <1>6, <1>8, <2>1, <2>3, <3>1 DEF IsFile, There
    <3>3. QED
      BY <1>6, <3>2 DEF t, made
  <2>4. QED
    BY <2>2, <2>3
<1>9. QED
  BY <1>7, <1>8

LEMMA SanitizedIn ==
  ASSUME NEW text \in Seq(STRING)
  PROVE  SanitizeComponent(text, TRUE) \in Seq(STRING)
<1>1. CASE text # << >> /\ Last(text) = Separator
  <2>1. SanitizeComponent(text, TRUE) = SubSeq(text, 1, Len(text) - 1)
    BY <1>1 DEF SanitizeComponent, Front
  <2> DEFINE m == Len(text) - 1
  <2>2. Len(text) \in Nat /\ m \in Int /\ 1 \in Int
    OBVIOUS
  <2>3. \A i \in 1 .. m : text[i] \in STRING
    BY <2>2
  <2>4. SubSeq(text, 1, m) \in Seq(STRING)
    BY <2>2, <2>3, SubSeqProperties
  <2>5. QED
    BY <2>1, <2>4
<1>2. CASE ~ (text # << >> /\ Last(text) = Separator)
  BY <1>2 DEF SanitizeComponent
<1>3. QED
  BY <1>1, <1>2

-----------------------------------------------------------------------------
(* The calls of a program that keeps files *)

\* A call that keeps the directories in order, makes no temporary node a file
\* and counts its fault.
Keeps ==
  /\ Tree(disk')
  /\ \A t \in TempNodes : IsFile(t)' => IsFile(t)
  /\ faults' \in 0 .. MaxFaults /\ faults <= faults'

DiskInv == Tree(disk) /\ faults \in 0 .. MaxFaults

LEMMA PlacesAre ==
  TempNodes \subseteq Nodes /\ {Source, Backup} \subseteq Nodes \ TempNodes
BY DiskAssumption, SourceFilesAssumption

LEMMA TextsIn == \A text \in Samples \cup Texts : text \in Contents
BY SourceFilesAssumption DEF Contents

LEMMA CreateFileKeeps ==
  ASSUME DiskInv, NEW node \in Nodes \ TempNodes, CreateFile(node)
  PROVE  Keeps
<1>1. PICK fault \in Faults({"open"}) :
        LET ok == fault = "none" /\ InDirectory(disk, node) /\ ~ Exists(node)
        IN  /\ disk' = IF ok THEN [disk EXCEPT ![node] = FileOf(<< >>)] ELSE disk
            /\ Returns("create_file", node, << >>, ok, fault)
  BY DEF CreateFile
<1>2. faults' \in 0 .. MaxFaults /\ faults <= faults'
  BY <1>1, FaultsCounted DEF DiskInv
<1>4. CASE disk' = disk
  BY <1>2, <1>4 DEF Keeps, DiskInv, IsFile
<1>5. CASE disk' = [disk EXCEPT ![node] = FileOf(<< >>)] /\ InDirectory(disk, node) /\ ~ Exists(node)
  <2>1. disk[node].kind # "dir"
    BY <1>5 DEF Exists
  <2>2. Tree(disk') /\ \A n \in Nodes : n # node => disk'[n] = disk[n]
    <3>1. PICK b \in Contents : b = << >>
      BY EmptyIn
    <3>2. /\ node \in Nodes /\ Tree(disk) /\ InDirectory(disk, node)
          /\ disk' = [disk EXCEPT ![node] = FileOf(b)]
      BY <1>5, <3>1 DEF DiskInv
    <3>3. /\ Tree([disk EXCEPT ![node] = FileOf(b)])
          /\ \A n \in Nodes : [disk EXCEPT ![node] = FileOf(b)][n]
                                = IF n = node THEN FileOf(b) ELSE disk[n]
      BY ONLY <2>1, <3>2, PutFile
    <3>4. QED
      BY <3>2, <3>3
  <2>3. QED
    BY <1>2, <2>2, PlacesAre DEF Keeps, IsFile
<1>6. QED
  BY <1>1, <1>4, <1>5

LEMMA RemovedKeeps ==
  ASSUME DiskInv, NEW node \in Nodes, NEW ok \in BOOLEAN,
         ok => IsFile(node) \/ MayRmdir(node),
         disk' = IF ok THEN [disk EXCEPT ![node] = Absent] ELSE disk,
         faults' \in 0 .. MaxFaults /\ faults <= faults'
  PROVE  Keeps
<1>1. CASE ~ ok
  BY <1>1 DEF Keeps, DiskInv, IsFile
<1>2. CASE ok
  <2>1. Tree(disk') /\ \A n \in Nodes : disk'[n] = IF n = node THEN Absent ELSE disk[n]
    BY <1>2, RemovedTree DEF DiskInv
  <2>2. Absent.kind = "absent"
    BY KindsAre
  <2>3. QED
    BY <2>1, <2>2, PlacesAre DEF Keeps, IsFile
<1>3. QED
  BY <1>1, <1>2

LEMMA NoFaultCounted ==
  ASSUME DiskInv, NEW op, NEW node, NEW dest, NEW ok, Returns(op, node, dest, ok, "none")
  PROVE  faults' \in 0 .. MaxFaults /\ faults <= faults'
BY DiskAssumption DEF DiskInv, Returns

LEMMA RemoveKeeps ==
  ASSUME DiskInv, NEW node \in Nodes, RemoveFile(node) \/ RemoveDirectory(node)
  PROVE  Keeps
<1>1. faults' \in 0 .. MaxFaults /\ faults <= faults'
  BY NoFaultCounted DEF RemoveFile, RemoveDirectory
<1>2. CASE RemoveFile(node)
  <2> DEFINE ok == IsFile(node) \/ MayRmdir(node)
  <2>1. disk' = IF ok THEN [disk EXCEPT ![node] = Absent] ELSE disk
    BY <1>2 DEF RemoveFile
  <2>2. ok \in BOOLEAN /\ (ok => IsFile(node) \/ MayRmdir(node))
    BY DEF IsFile, MayRmdir, IsDirectory
  <2> HIDE DEF ok
  <2>3. QED
    BY <1>1, <2>1, <2>2, RemovedKeeps
<1>3. CASE RemoveDirectory(node)
  <2> DEFINE ok == MayRmdir(node)
  <2>1. disk' = IF ok THEN [disk EXCEPT ![node] = Absent] ELSE disk
    BY <1>3 DEF RemoveDirectory
  <2>2. ok \in BOOLEAN /\ (ok => IsFile(node) \/ MayRmdir(node))
    BY DEF MayRmdir, IsDirectory
  <2> HIDE DEF ok
  <2>3. QED
    BY <1>1, <2>1, <2>2, RemovedKeeps
<1>4. QED
  BY <1>2, <1>3

LEMMA RenameKeeps ==
  ASSUME DiskInv, NEW old \in Nodes \ TempNodes, NEW new \in Nodes \ TempNodes,
         RenameFile(old, new)
  PROVE  Keeps
<1>1. faults' \in 0 .. MaxFaults /\ faults <= faults'
  BY NoFaultCounted DEF RenameFile
<1>2. CASE MayRename(old, new) /\ old # new
  <2>1. \A n \in {old} \cup Inside(old) : Exists(n) => MovedNode(old, new, n) \in Nodes
    BY <1>2 DEF RenameFile
  <2>2. disk' = Renamed(old, new)
    BY <1>2 DEF RenameFile
  <2>3. Tree(disk')
    BY <1>2, <2>1, <2>2, RenameTree DEF DiskInv
  <2>4. ASSUME NEW t \in TempNodes, IsFile(t)' PROVE IsFile(t)
    <3>1. t \in Nodes /\ new \in Nodes /\ old \in Nodes /\ new \in Nodes \ TempNodes
      BY PlacesAre
    <3>2. \A n \in {old} \cup Inside(old) : t # MovedNode(old, new, n)
      <4> SUFFICES ASSUME NEW n \in {old} \cup Inside(old), t = MovedNode(old, new, n)
                   PROVE  FALSE
        OBVIOUS
      <4>1. t = new \/ t \in Inside(new)
        BY <3>1, MovedWhere
      <4>2. t \in Inside(new)
        BY <4>1
      <4>3. IsPrefix(new, t)
        BY <4>2 DEF Inside, IsStrictPrefix
      <4>4. QED
        BY <3>1, <4>3, SourceFilesAssumption
    <3>3. disk'[t] = Absent \/ disk'[t] = disk[t]
      <4>1. Renamed(old, new)[t] = IF t = old \/ t \in Inside(old) THEN Absent ELSE disk[t]
        BY ONLY <3>1, <3>2, RenamedIs, SMTT(30)
      <4>2. QED
        BY <2>2, <4>1
    <3>4. QED
      BY <2>4, <3>3, KindsAre DEF IsFile
  <2>5. QED
    BY <1>1, <2>3, <2>4 DEF Keeps
<1>3. CASE ~ (MayRename(old, new) /\ old # new)
  <2>1. disk' = disk
    BY <1>3 DEF RenameFile
  <2>2. QED
    BY <1>1, <2>1 DEF Keeps, DiskInv, IsFile
<1>4. QED
  BY <1>2, <1>3

LEMMA WrittenKeeps ==
  ASSUME DiskInv, NEW node \in Nodes \ TempNodes, NEW content \in Contents,
         NEW fault, NEW most \in 0 .. Len(content),
         disk' = Written(node, content, fault, most),
         faults' \in 0 .. MaxFaults /\ faults <= faults'
  PROVE  Keeps
<1>1. Tree(disk') /\ \A n \in Nodes : n # node => disk'[n] = disk[n]
  BY WrittenTree DEF DiskInv
<1>2. QED
  BY <1>1, PlacesAre DEF Keeps, IsFile

LEMMA WriteKeeps ==
  ASSUME DiskInv, NEW node \in Nodes \ TempNodes, NEW content \in Contents,
         WriteFile(node, content) \/ WriteBinaryToFile(node, content)
  PROVE  Keeps
<1>1. CASE WriteFile(node, content)
  <2> DEFINE Calls == {"open"} \cup (IF content = << >> THEN {} ELSE {"write"})
  <2>1. PICK fault \in Faults(Calls), most \in 0 .. Len(content) :
          /\ disk' = Written(node, content, fault, most)
          /\ Returns("write_file", node, << >>,
                     fault = "none" /\ MayOpenForWriting(node), fault)
    BY <1>1 DEF WriteFile
  <2>2. faults' \in 0 .. MaxFaults /\ faults <= faults'
    <3> HIDE DEF Calls
    <3>1. QED
      BY <2>1, FaultsCounted DEF DiskInv
  <2>3. QED
    BY <2>1, <2>2, WrittenKeeps
<1>2. CASE WriteBinaryToFile(node, content)
  <2>1. CASE content = << >>
    <3>1. UNCHANGED disk /\ faults' \in 0 .. MaxFaults /\ faults <= faults'
      BY <1>2, <2>1, NoFaultCounted DEF WriteBinaryToFile
    <3>2. QED
      BY <3>1 DEF Keeps, DiskInv, IsFile
  <2>2. CASE content # << >>
    <3>1. PICK fault \in Faults({"open", "write", "flush"}), most \in 0 .. Len(content) - 1 :
            /\ disk' = Written(node, content, fault, most)
            /\ Returns("write_binary_to_file", node, << >>,
                       fault \in {"none", "flush"} /\ MayOpenForWriting(node), fault)
      BY <1>2, <2>2 DEF WriteBinaryToFile
    <3>2. faults' \in 0 .. MaxFaults /\ faults <= faults'
      BY <3>1, FaultsCounted DEF DiskInv
    <3>3. Len(content) \in Nat
      BY DEF Contents
    <3>4. most \in 0 .. Len(content)
      BY <3>3
    <3>5. QED
      BY <3>1, <3>2, <3>4, WrittenKeeps
  <2>3. QED
    BY <2>1, <2>2
<1>3. QED
  BY <1>1, <1>2

LEMMA CreateDirectoryKeeps ==
  ASSUME DiskInv, NEW node \in Nodes, CreateDirectory(node)
  PROVE  Keeps
<1>1. PICK fault \in Faults({"mkdir"}) :
        /\ disk' = Mkdir(disk, node, fault = "mkdir")
        /\ Returns("create_directory", node, << >>,
                   MkdirReturnsZero(disk, node, fault = "mkdir"), fault)
  BY DEF CreateDirectory
<1>2. faults' \in 0 .. MaxFaults /\ faults <= faults'
  BY <1>1, FaultsCounted DEF DiskInv
<1>3. /\ Tree(disk')
      /\ \A n \in Nodes : disk'[n] = disk[n] \/ disk'[n].kind = "dir"
  BY <1>1, MkdirTree DEF DiskInv
<1>4. QED
  BY <1>2, <1>3, PlacesAre DEF Keeps, IsFile

LEMMA CreateDirectoriesKeeps ==
  ASSUME DiskInv, NEW dir \in DirectoryPaths, CreateDirectories(dir)
  PROVE  Keeps
<1> DEFINE whole == SanitizeComponent(dir, TRUE)
<1>1. PICK fault \in Faults({"mkdir"}), failing \in {0} \cup PrefixEnds(whole) :
        /\ disk' = PrefixesMade(whole, failing)[Len(whole) + 1].disk
        /\ Returns("create_directories", Resolve(dir), << >>,
                   PrefixesMade(whole, failing)[Len(whole) + 1].result = 0, fault)
  BY DEF CreateDirectories
<1>2. whole \in Seq(STRING)
  BY SanitizedIn, SourceFilesAssumption
<1> HIDE DEF whole
<1>3. faults' \in 0 .. MaxFaults /\ faults <= faults'
  BY <1>1, FaultsCounted DEF DiskInv
<1>4. /\ Tree(disk')
      /\ \A n \in Nodes : disk'[n] = disk[n] \/ disk'[n].kind = "dir"
  <2>1. Len(whole) + 1 \in 1 .. Len(whole) + 1
    BY <1>2
  <2>2. MakingKept(PrefixesMade(whole, failing)[Len(whole) + 1])
    BY <1>2, <2>1, PrefixesTree DEF DiskInv
  <2>3. QED
    BY <1>1, <2>2 DEF MakingKept
<1>5. QED
  BY <1>3, <1>4, PlacesAre DEF Keeps, IsFile

\* When no call fails, or only one that is looked at, the copy is whole or the
\* source still there.
LEMMA CompressDoes ==
  ASSUME DiskInv, NEW src \in Nodes \ TempNodes, NEW dest \in Nodes \ TempNodes,
         NEW remove, Compress(src, dest, remove)
  PROVE  /\ Keeps
         /\ last'.op = "compress" /\ last'.node = src /\ last'.dest = dest
         /\ last'.fault \notin {"read", "close"} =>
              IF last'.ok THEN disk'[dest] = GzipOf(disk[src].bytes)
              ELSE disk'[src] = disk[src]
<1> DEFINE bytes == disk[src].bytes
           Calls == {"open", "gzopen", "read", "close"}
                      \cup (IF bytes = << >> THEN {} ELSE {"write"})
           Opened(fault) == fault \notin {"open", "gzopen"} /\ MayOpenForWriting(dest)
           Ok(fault) == CompressReturns(Opened(fault), fault)
           Copied(most) == SubSeq(bytes, 1, most)
           Copy(fault, most) == IF Opened(fault)
                                THEN [disk EXCEPT ![dest] = GzipOf(Copied(most))]
                                ELSE disk
<1>1. PICK fault \in Faults(Calls), most \in 0 .. Len(bytes) :
        /\ fault \notin {"read", "write", "close"} => most = Len(bytes)
        /\ disk' = IF Ok(fault) /\ remove
                   THEN [Copy(fault, most) EXCEPT ![src] = Absent]
                   ELSE Copy(fault, most)
        /\ Returns("compress", src, dest, Ok(fault), fault)
  BY DEF Compress
<1>2. disk[src].kind = "file" /\ src # dest /\ disk[dest].kind \notin {"file", "gzip"}
  BY DEF Compress, IsFile
<1>3. bytes \in Contents /\ Len(bytes) \in Nat
  <2>1. disk[src] \in NodeStates
    BY DEF DiskInv, Tree
  <2>2. bytes \in Contents
    BY <2>1 DEF NodeStates
  <2>3. QED
    BY <2>2 DEF Contents
<1> HIDE DEF bytes, Calls
<1> DEFINE copied == Copied(most)
<1>4. copied \in Contents /\ (most = Len(bytes) => copied = bytes)
  BY <1>3, PrefixIn
<1> HIDE DEF copied
<1>5. faults' \in 0 .. MaxFaults /\ faults <= faults'
  BY <1>1, FaultsCounted DEF DiskInv
<1> DEFINE written == Copy(fault, most)
<1>6. written = IF Opened(fault) THEN [disk EXCEPT ![dest] = GzipOf(copied)] ELSE disk
  BY DEF copied
<1> HIDE DEF Copied
<1>7. /\ Tree(written)
       /\ \A n \in Nodes : written[n] = IF n = dest /\ Opened(fault) THEN GzipOf(copied)
                                        ELSE disk[n]
  <2>1. CASE Opened(fault)
    <3>1. InDirectory(disk, dest) /\ disk[dest].kind # "dir"
      BY <2>1 DEF MayOpenForWriting, IsDirectory
    <3> DEFINE v == GzipOf(copied)
    <3>2. v \in NodeStates /\ Tree(disk) /\ dest \in Nodes
      BY <1>4, KindsAre DEF DiskInv
    <3>3. written = [disk EXCEPT ![dest] = v]
      BY <1>6, <2>1
    <3> HIDE DEF v, written
    <3>4. /\ Tree([disk EXCEPT ![dest] = v])
          /\ \A n \in Nodes : [disk EXCEPT ![dest] = v][n] = IF n = dest THEN v ELSE disk[n]
      BY ONLY <3>1, <3>2, FileTree
    <3>5. QED
      BY <2>1, <3>3, <3>4 DEF v
  <2>2. CASE ~ Opened(fault)
    BY <1>6, <2>2 DEF DiskInv
  <2>3. QED
    BY <2>1, <2>2
<1>8. disk' = IF Ok(fault) /\ remove THEN [written EXCEPT ![src] = Absent] ELSE written
  BY <1>1
<1> HIDE DEF written
<1>9. written[src] = disk[src]
  BY <1>2, <1>7
<1>10. /\ Tree(disk')
       /\ \A n \in Nodes : n # src => disk'[n] = written[n]
       /\ ~ Ok(fault) => disk'[src] = written[src]
       /\ disk'[src] = Absent \/ disk'[src] = written[src]
  <2>1. CASE Ok(fault) /\ remove
    <3>1. Childless(written, src)
      BY <1>2, <1>7, <1>9, NoDirectoryIsChildless
    <3>2. src \in Nodes /\ Tree(written) /\ disk' = [written EXCEPT ![src] = Absent]
      BY <1>7, <1>8, <2>1
    <3> DEFINE after == [written EXCEPT ![src] = Absent]
    <3>3. Tree(after) /\ \A n \in Nodes : after[n] = IF n = src THEN Absent ELSE written[n]
      BY <3>1, <3>2, AbsentTree, ZenonT(60)
    <3> HIDE DEF after
    <3>4. QED
      BY <2>1, <3>2, <3>3 DEF after
  <2>2. CASE ~ (Ok(fault) /\ remove)
    BY <1>7, <1>8, <2>2
  <2>3. QED
    BY <2>1, <2>2
<1>11. Keeps
  <2> SUFFICES ASSUME NEW t \in TempNodes, IsFile(t)' PROVE IsFile(t)
    BY <1>5, <1>10 DEF Keeps
  <2>1. t \in Nodes /\ t # src /\ t # dest
    BY PlacesAre
  <2>2. disk'[t] = disk[t]
    BY <1>7, <1>10, <2>1
  <2>3. QED
    BY <2>2 DEF IsFile
<1>12. last' = [op |-> "compress", node |-> src, dest |-> dest, ok |-> Ok(fault), fault |-> fault]
  BY <1>1 DEF Returns
<1>13. ASSUME fault \notin {"read", "close"}
       PROVE  IF Ok(fault) THEN disk'[dest] = GzipOf(bytes) ELSE disk'[src] = disk[src]
  <2>1. CASE Ok(fault)
    <3>1. Opened(fault) /\ fault # "write"
      BY <2>1 DEF CompressReturns
    <3>2. copied = bytes
      BY <1>1, <1>4, <1>13, <3>1
    <3>3. dest \in Nodes /\ dest # src
      BY <1>2
    <3>4. disk'[dest] = GzipOf(copied)
      BY <1>7, <1>10, <3>1, <3>3
    <3>5. QED
      BY <2>1, <3>2, <3>4
  <2>2. CASE ~ Ok(fault)
    BY <1>9, <1>10, <2>2
  <2>3. QED
    BY <2>1, <2>2
<1>14. QED
  <2> HIDE DEF Ok
  <2>1. QED
    BY <1>11, <1>12, <1>13 DEF bytes

LEMMA StillKeeps ==
  ASSUME DiskInv, UNCHANGED disk, faults' \in 0 .. MaxFaults /\ faults <= faults'
  PROVE  Keeps
BY DEF Keeps, DiskInv, IsFile

LEMMA StandKeeps ==
  ASSUME DiskInv, UNCHANGED disk, UNCHANGED faults
  PROVE  Keeps
BY DiskAssumption DEF Keeps, DiskInv, IsFile

\* A file is read with or without a fault.
LEMMA LoadKeeps ==
  ASSUME DiskInv, UNCHANGED disk, NEW id, NEW f \in LoadFaults(id), NEW op, NEW node,
         Returns(op, node, << >>, TRUE, f[1])
  PROVE  Keeps
<1>1. f = <<"none", 0>> \/ faults < MaxFaults
  BY DEF LoadFaults
<1>2. f[1] = "none" \/ faults < MaxFaults
  BY <1>1
<1>3. faults' \in 0 .. MaxFaults /\ faults <= faults'
  BY <1>2, DiskAssumption DEF Returns, DiskInv
<1>4. QED
  BY <1>3, StillKeeps

LEMMA LoadDiskKeeps ==
  ASSUME DiskInv, NEW id, UNCHANGED disk, Load(id) \/ LoadedFile(id)
  PROVE  Keeps
<1>1. CASE \E f \in LoadFaults(id) : \E op, node : Returns(op, node, << >>, TRUE, f[1])
  BY <1>1, LoadKeeps
<1>2. CASE \E node : Returns("loaded_file", node, << >>, TRUE, "none")
  BY <1>2, NoFaultCounted, StillKeeps
<1>3. QED
  BY <1>1, <1>2 DEF Load, LoadedFile

LEMMA ReadKeeps ==
  ASSUME DiskInv, Read
  PROVE  Keeps /\ UNCHANGED temps
<1>1. CASE OnFiles(RegisterFile(Source)) \/ OnStream(StreamNext)
  BY <1>1, StandKeeps DEF OnFiles, OnStream
<1>2. CASE Load(0) /\ UNCHANGED <<disk, temps>>
  BY <1>2, LoadDiskKeeps
<1>3. CASE OpenStream(0)
  BY <1>3, LoadDiskKeeps DEF OpenStream, StreamInit
<1>4. QED
  BY <1>1, <1>2, <1>3 DEF Read

LEMMA EditKeeps ==
  ASSUME DiskInv, EditDisk \/ EditFiles \/ EditStream
  PROVE  Keeps /\ UNCHANGED temps
<1>1. ASSUME NEW text \in Texts, WriteFile(Source, text) PROVE Keeps /\ UNCHANGED temps
  <2>1. UNCHANGED temps
    BY <1>1 DEF WriteFile
  <2>2. text \in Contents /\ Source \in Nodes \ TempNodes
    BY TextsIn, PlacesAre
  <2>3. QED
    BY <1>1, <2>1, <2>2, WriteKeeps
<1>2. CASE RemoveFile(Source)
  <2>1. UNCHANGED temps
    BY <1>2 DEF RemoveFile
  <2>2. QED
    BY <1>2, <2>1, RemoveKeeps, PlacesAre
<1>3. CASE EditDisk
  BY <1>1, <1>2, <1>3 DEF EditDisk, OnDisk
<1>4. CASE \E id : Load(id) /\ UNCHANGED <<disk, temps>>
  BY <1>4, LoadDiskKeeps
<1>5. CASE EditFiles
  <2>1. CASE UNCHANGED <<disk, temps, faults>>
    BY <2>1, StandKeeps
  <2>2. QED
    BY <1>4, <1>5, <2>1 DEF EditFiles, OnFiles
<1>6. ASSUME NEW id, OpenStream(id) PROVE Keeps /\ UNCHANGED temps
  BY <1>6, LoadDiskKeeps DEF OpenStream, StreamInit
<1>7. CASE EditStream
  <2>1. CASE UNCHANGED <<disk, temps, faults>>
    BY <2>1, StandKeeps
  <2>2. \/ \E id \in 0 .. MaxFiles : OpenStream(id)
        \/ UNCHANGED <<disk, temps, faults>>
    BY <1>7 DEF EditStream, OnStream
  <2>3. QED
    BY <1>6, <2>1, <2>2
<1>8. QED
  BY <1>3, <1>5, <1>7

LEMMA KeepFilesKeeps ==
  ASSUME DiskInv, KeepFiles \/ KeepDirectories
  PROVE  Keeps /\ UNCHANGED temps
<1>1. ASSUME NEW node \in Nodes \ TempNodes,
             CreateFile(node) \/ RemoveFile(node) \/ RemoveDirectory(node) \/ CreateDirectory(node)
      PROVE  Keeps /\ UNCHANGED temps
  <2>1. UNCHANGED temps
    BY <1>1 DEF CreateFile, RemoveFile, RemoveDirectory, CreateDirectory
  <2>2. node \in Nodes
    OBVIOUS
  <2>3. QED
    BY <1>1, <2>1, <2>2, CreateFileKeeps, RemoveKeeps, CreateDirectoryKeeps
<1>2. ASSUME NEW node \in Nodes \ TempNodes, NEW new \in Nodes \ TempNodes,
             RenameFile(node, new)
      PROVE  Keeps /\ UNCHANGED temps
  <2>1. UNCHANGED temps
    BY <1>2 DEF RenameFile
  <2>2. QED
    BY <1>2, <2>1, RenameKeeps
<1>3. ASSUME NEW node \in Nodes \ TempNodes, NEW text \in Texts,
             WriteBinaryToFile(node, text)
      PROVE  Keeps /\ UNCHANGED temps
  <2>1. UNCHANGED temps
    BY <1>3 DEF WriteBinaryToFile
  <2>2. text \in Contents
    BY TextsIn
  <2>3. QED
    BY <1>3, <2>1, <2>2, WriteKeeps
<1>4. ASSUME NEW dir \in DirectoryPaths, CreateDirectories(dir)
      PROVE  Keeps /\ UNCHANGED temps
  <2>1. UNCHANGED temps
    BY <1>4 DEF CreateDirectories
  <2>2. QED
    BY <1>4, <2>1, CreateDirectoriesKeeps
<1>5. ASSUME NEW remove, Compress(Source, Backup, remove)
      PROVE  Keeps /\ UNCHANGED temps
  <2>1. UNCHANGED temps
    BY <1>5 DEF Compress
  <2>2. Source \in Nodes \ TempNodes /\ Backup \in Nodes \ TempNodes
    BY PlacesAre
  <2>3. QED
    BY <1>5, <2>1, <2>2, CompressDoes
<1>6. CASE KeepFiles
  BY <1>1, <1>2, <1>3, <1>6 DEF KeepFiles, OnDisk
<1>7. CASE KeepDirectories
  BY <1>4, <1>5, <1>7 DEF KeepDirectories, OnDisk
<1>8. QED
  BY <1>6, <1>7

-----------------------------------------------------------------------------
(* The temporary objects *)

TempObjects ==
  [kind : {"file", "dir"}, node : TempNodes, valid : BOOLEAN, content : Contents]

\* The valid TempFile objects, and the nodes that are theirs.
Owners(s) == {i \in DOMAIN s : s[i].kind = "file" /\ s[i].valid}
Owned(s) == {s[i].node : i \in Owners(s)}
LeftBehind(d, s) == Files(d, TempNodes) \ Owned(s)

\* No two objects own one node, what they own is there with their content, and
\* of the other files there is one for each fault at most.
Accounted(d, s, count) ==
  /\ s \in Seq(TempObjects)
  /\ \A i \in Owners(s) : d[s[i].node] = FileOf(s[i].content)
  /\ \A i, j \in Owners(s) : s[i].node = s[j].node => i = j
  /\ Cardinality(LeftBehind(d, s)) <= count

TempInv ==
  /\ role # "temporary" => temps = << >> /\ Files(disk, TempNodes) = {}
  /\ Accounted(disk, temps, faults)

LEMMA RemoveAtIs ==
  ASSUME NEW S, NEW s \in Seq(S), NEW i \in DOMAIN s
  PROVE  /\ RemoveAt(s, i) \in Seq(S)
         /\ Len(RemoveAt(s, i)) = Len(s) - 1
         /\ \A j \in 1 .. Len(s) - 1 :
              RemoveAt(s, i)[j] = s[IF j < i THEN j ELSE j + 1]
<1>1. Len(s) \in Nat /\ i \in 1 .. Len(s) /\ \A j \in 1 .. Len(s) : s[j] \in S
  OBVIOUS
<1> DEFINE a == i - 1
           b == i + 1
           n == Len(s)
           head == SubSeq(s, 1, a)
           tail == SubSeq(s, b, n)
<1>2. /\ a \in Int /\ b \in Int /\ n \in Int /\ 1 \in Int
      /\ \A j \in 1 .. a : s[j] \in S
      /\ \A j \in b .. n : s[j] \in S
  BY <1>1
<1>3. /\ head \in Seq(S) /\ Len(head) = IF 1 <= a THEN a - 1 + 1 ELSE 0
      /\ \A j \in 1 .. a - 1 + 1 : head[j] = s[1 + j - 1]
  BY <1>2, SubSeqProperties
<1>4. /\ tail \in Seq(S) /\ Len(tail) = IF b <= n THEN n - b + 1 ELSE 0
      /\ \A j \in 1 .. n - b + 1 : tail[j] = s[b + j - 1]
  BY <1>2, SubSeqProperties
<1>5. RemoveAt(s, i) = head \o tail
  BY DEF RemoveAt
<1> HIDE DEF head, tail
<1>6. /\ head \o tail \in Seq(S) /\ Len(head \o tail) = Len(head) + Len(tail)
      /\ \A j \in 1 .. Len(head) + Len(tail) :
           (head \o tail)[j] = IF j <= Len(head) THEN head[j] ELSE tail[j - Len(head)]
  BY <1>3, <1>4, ConcatProperties
<1> DEFINE u == head \o tail
<1> HIDE DEF u
<1>7. Len(head) = i - 1 /\ Len(tail) = n - i /\ n \in Nat /\ i \in Nat /\ i <= n
  BY <1>1, <1>3, <1>4
<1>8. \A j \in 1 .. n - 1 : u[j] = s[IF j < i THEN j ELSE j + 1]
  <2> TAKE j \in 1 .. n - 1
  <2>1. u[j] = IF j <= i - 1 THEN head[j] ELSE tail[j - (i - 1)]
    <3>1. j \in 1 .. Len(head) + Len(tail)
      BY <1>7
    <3>2. u[j] = IF j <= Len(head) THEN head[j] ELSE tail[j - Len(head)]
      BY ONLY <1>6, <3>1 DEF u
    <3>3. QED
      BY ONLY <1>7, <3>2
  <2>2. CASE j < i
    <3>1. j <= i - 1 /\ j \in 1 .. a - 1 + 1 /\ 1 + j - 1 = j
      BY <1>7, <2>2
    <3>2. QED
      BY <1>3, <2>1, <2>2, <3>1
  <2>3. CASE ~ (j < i)
    <3> DEFINE k == j - (i - 1)
    <3>1. ~ (j <= i - 1) /\ k \in 1 .. n - b + 1 /\ b + k - 1 = j + 1
      BY ONLY <1>7, <2>3, j \in 1 .. n - 1, SMTT(30)
    <3>2. tail[k] = s[b + k - 1]
      BY <1>4, <3>1
    <3>3. QED
      BY <2>1, <2>3, <3>1, <3>2
  <2>4. QED
    BY <2>2, <2>3
<1>9. u \in Seq(S) /\ Len(u) = n - 1
  <2>1. u \in Seq(S) /\ Len(u) = Len(head) + Len(tail)
    BY <1>6 DEF u
  <2>2. QED
    BY <1>7, <2>1
<1>10. RemoveAt(s, i) = u
  BY <1>5 DEF u
<1>11. QED
  BY ONLY <1>8, <1>9, <1>10 DEF n

LEMMA FewerLeft ==
  ASSUME NEW d, NEW s, NEW e, NEW t, NEW m \in Nat, NEW n \in Nat, m <= n,
         Cardinality(LeftBehind(d, s)) <= m,
         LeftBehind(e, t) \subseteq LeftBehind(d, s)
  PROVE  Cardinality(LeftBehind(e, t)) <= n
<1>1. IsFiniteSet(LeftBehind(d, s))
  <2>1. IsFiniteSet(TempNodes) /\ LeftBehind(d, s) \subseteq TempNodes
    BY DiskAssumption DEF LeftBehind, Files
  <2>2. QED
    BY <2>1, FS_Subset
<1>2. /\ IsFiniteSet(LeftBehind(e, t))
      /\ Cardinality(LeftBehind(e, t)) <= Cardinality(LeftBehind(d, s))
  BY <1>1, FS_Subset
<1>3. Cardinality(LeftBehind(e, t)) \in Nat /\ Cardinality(LeftBehind(d, s)) \in Nat
  BY <1>1, <1>2, FS_CardinalityType
<1>4. QED
  BY <1>2, <1>3

LEMMA OneMoreLeft ==
  ASSUME NEW d, NEW s, NEW e, NEW t, NEW m \in Nat, NEW x,
         Cardinality(LeftBehind(d, s)) <= m,
         LeftBehind(e, t) \subseteq LeftBehind(d, s) \cup {x}
  PROVE  Cardinality(LeftBehind(e, t)) <= m + 1
<1> DEFINE A == LeftBehind(d, s)
           B == LeftBehind(e, t)
           C == A \cup {x}
<1>1. IsFiniteSet(A)
  <2>1. IsFiniteSet(TempNodes) /\ LeftBehind(d, s) \subseteq TempNodes
    BY DiskAssumption DEF LeftBehind, Files
  <2>2. QED
    BY <2>1, FS_Subset
<1>2. Cardinality(A) <= m /\ B \subseteq C
  OBVIOUS
<1> HIDE DEF A, B
<1>3. /\ IsFiniteSet(C) /\ Cardinality(A) \in Nat
      /\ Cardinality(C) = IF x \in A THEN Cardinality(A) ELSE Cardinality(A) + 1
  BY <1>1, FS_AddElement, FS_CardinalityType
<1> HIDE DEF C
<1>4. IsFiniteSet(B) /\ Cardinality(B) <= Cardinality(C)
  BY <1>2, <1>3, FS_Subset
<1>5. Cardinality(B) \in Nat
  BY <1>4, FS_CardinalityType
<1>6. QED
  BY <1>2, <1>3, <1>4, <1>5 DEF B

\* A program without temporary objects leaves the temporary nodes alone.
LEMMA OthersAccounted ==
  ASSUME TempInv, role # "temporary", Keeps, UNCHANGED <<temps, role>>
  PROVE  TempInv'
<1>1. temps' = << >> /\ Files(disk', TempNodes) = {}
  BY DEF TempInv, Keeps, Files, IsFile
<1>2. Owners(<< >>) = {} /\ LeftBehind(disk', << >>) = {}
  BY <1>1 DEF Owners, LeftBehind
<1>3. Cardinality(LeftBehind(disk', << >>)) = 0
  BY <1>2, FS_EmptySet
<1>4. faults' \in 0 .. MaxFaults
  BY DEF Keeps
<1>5. << >> \in Seq(TempObjects)
  OBVIOUS
<1>6. Accounted(disk', << >>, faults')
  BY <1>2, <1>3, <1>4, <1>5 DEF Accounted
<1>7. QED
  BY <1>1, <1>6 DEF TempInv

\* An object is made: of a file that it owns, or of none.
LEMMA AppendAccounted ==
  ASSUME NEW d, NEW e, NEW s, NEW m \in Nat, NEW n \in Nat, NEW o \in TempObjects,
         Accounted(d, s, m),
         \A node \in TempNodes :
           \/ e[node] = d[node]
           \/ d[node].kind = "absent" /\ e[node].kind = "dir"
           \/ d[node].kind = "absent" /\ node = o.node,
         o.kind = "file" /\ o.valid =>
           d[o.node].kind = "absent" /\ e[o.node] = FileOf(o.content),
         \/ m <= n /\ \/ o.kind = "file" /\ o.valid
                      \/ Files(e, TempNodes) = Files(d, TempNodes)
         \/ n = m + 1
  PROVE  Accounted(e, Append(s, o), n)
<1> DEFINE t == Append(s, o)
           k == Len(s) + 1
           Owns == o.kind = "file" /\ o.valid
<1>1. s \in Seq(TempObjects) /\ Len(s) \in Nat
  BY DEF Accounted
<1>2. /\ t \in Seq(TempObjects) /\ DOMAIN t = 1 .. k /\ DOMAIN s = 1 .. k - 1
      /\ t[k] = o /\ \A i \in 1 .. k - 1 : t[i] = s[i]
      /\ k \in Nat /\ k \in 1 .. k /\ k \notin 1 .. k - 1
      /\ \A i \in 1 .. k : i = k \/ i \in 1 .. k - 1
      /\ \A i \in 1 .. k - 1 : i \in 1 .. k
  BY <1>1
<1>3. \A i \in 1 .. k - 1 : s[i] \in TempObjects
  BY <1>1
<1> HIDE DEF t, k
<1>4. /\ \A i \in Owners(t) : IF i = k THEN Owns ELSE i \in Owners(s) /\ t[i] = s[i]
      /\ \A i \in Owners(s) : i \in Owners(t) /\ t[i] = s[i] /\ i # k
                              /\ s[i].node \in TempNodes
      /\ Owns => k \in Owners(t)
  BY <1>2, <1>3 DEF Owners, TempObjects
<1>5. /\ \A i \in Owners(s) : d[s[i].node] = FileOf(s[i].content)
      /\ \A i, j \in Owners(s) : s[i].node = s[j].node => i = j
      /\ Cardinality(LeftBehind(d, s)) <= m
  BY DEF Accounted
<1>6. \A i \in Owners(s) : d[s[i].node].kind = "file"
  <2>1. \A b : FileOf(b).kind = "file"
    BY DEF FileOf
  <2>2. QED
    BY ONLY <1>5, <2>1
<1>7. \A i \in Owners(t) : e[t[i].node] = FileOf(t[i].content)
  <2> TAKE i \in Owners(t)
  <2>1. CASE i = k
    BY <1>2, <1>4, <2>1
  <2>2. CASE i # k
    <3>1. i \in Owners(s) /\ t[i] = s[i] /\ s[i].node \in TempNodes
      BY <1>4, <2>2
    <3>2. e[s[i].node] = d[s[i].node]
      BY <1>6, <3>1
    <3>3. QED
      BY <1>5, <3>1, <3>2
  <2>3. QED
    BY <2>1, <2>2
<1>8. \A i, j \in Owners(t) : t[i].node = t[j].node => i = j
  <2>1. ASSUME NEW i \in Owners(s), Owns PROVE s[i].node # o.node
    BY <1>6, <2>1
  <2>2. QED
    BY <1>2, <1>4, <1>5, <2>1
<1>9. Owned(s) \subseteq Owned(t) /\ (Owns => o.node \in Owned(t))
  BY <1>2, <1>4 DEF Owned
<1>10. Files(e, TempNodes) \subseteq Files(d, TempNodes) \cup {o.node}
  BY DEF Files
<1>11. LeftBehind(e, t) \subseteq LeftBehind(d, s) \cup {o.node}
  BY <1>9, <1>10 DEF LeftBehind
<1>12. Cardinality(LeftBehind(e, t)) <= n
  <2>1. CASE n = m + 1
    BY <1>5, <1>11, <2>1, OneMoreLeft
  <2>2. CASE m <= n /\ (Owns \/ Files(e, TempNodes) = Files(d, TempNodes))
    <3>1. LeftBehind(e, t) \subseteq LeftBehind(d, s)
      BY <1>9, <1>10, <2>2 DEF LeftBehind
    <3>2. QED
      BY <1>5, <2>2, <3>1, FewerLeft
  <2>3. QED
    BY <2>1, <2>2
<1>13. QED
  BY <1>2, <1>7, <1>8, <1>12 DEF Accounted, t

\* An object goes, and with it what it owns, or nothing but a directory.
LEMMA RemoveAccounted ==
  ASSUME NEW d, NEW e, NEW s, NEW m \in Nat, NEW n \in Nat, m <= n,
         Accounted(d, s, m), NEW k \in DOMAIN s,
         \A node \in TempNodes :
           \/ e[node] = d[node]
           \/ d[node].kind = "dir" /\ e[node].kind = "absent"
           \/ k \in Owners(s) /\ node = s[k].node /\ e[node].kind = "absent",
         k \in Owners(s) => e[s[k].node].kind = "absent"
  PROVE  Accounted(e, RemoveAt(s, k), n)
<1> DEFINE t == RemoveAt(s, k)
           Was(i) == IF i < k THEN i ELSE i + 1
           Now(i) == IF i < k THEN i ELSE i - 1
           z == Len(s)
<1>1. s \in Seq(TempObjects) /\ z \in Nat /\ k \in 1 .. z
  BY DEF Accounted
<1>2. t \in Seq(TempObjects) /\ Len(t) = z - 1 /\ \A i \in 1 .. z - 1 : t[i] = s[Was(i)]
  BY <1>1, RemoveAtIs
<1>3. DOMAIN t = 1 .. z - 1 /\ DOMAIN s = 1 .. z /\ \A i \in 1 .. z : s[i] \in TempObjects
  BY <1>1, <1>2
<1>4. /\ \A i \in 1 .. z - 1 : Was(i) \in 1 .. z /\ Was(i) # k
      /\ \A i, j \in 1 .. z - 1 : Was(i) = Was(j) => i = j
      /\ \A i \in 1 .. z : i # k => Now(i) \in 1 .. z - 1 /\ Was(Now(i)) = i
  BY <1>1
<1> HIDE DEF t, Was, Now, z
<1>5. /\ \A i \in Owners(s) : d[s[i].node] = FileOf(s[i].content)
      /\ \A i, j \in Owners(s) : s[i].node = s[j].node => i = j
      /\ Cardinality(LeftBehind(d, s)) <= m
  BY DEF Accounted
<1>6. \A i \in Owners(s) : d[s[i].node].kind = "file" /\ s[i].node \in TempNodes
  <2>1. \A b : FileOf(b).kind = "file"
    BY DEF FileOf
  <2>2. \A i \in Owners(s) : s[i].node \in TempNodes
    BY <1>3 DEF Owners, TempObjects
  <2>3. QED
    BY ONLY <1>5, <2>1, <2>2
<1>7. \A i \in Owners(t) : /\ i \in 1 .. z - 1 /\ t[i] = s[Was(i)]
                           /\ Was(i) \in Owners(s) /\ Was(i) # k
  BY <1>2, <1>3, <1>4 DEF Owners
<1>8. \A i \in Owners(s) : i # k => Now(i) \in Owners(t) /\ t[Now(i)] = s[i]
  BY <1>2, <1>3, <1>4 DEF Owners
<1>9. \A i \in Owners(t) : e[t[i].node] = FileOf(t[i].content)
  <2> TAKE i \in Owners(t)
  <2>1. /\ t[i] = s[Was(i)] /\ Was(i) \in Owners(s) /\ Was(i) # k
        /\ s[Was(i)].node \in TempNodes /\ d[s[Was(i)].node].kind = "file"
    BY <1>6, <1>7
  <2>2. ~ (k \in Owners(s) /\ s[Was(i)].node = s[k].node)
    BY <1>5, <2>1
  <2>3. e[s[Was(i)].node] = d[s[Was(i)].node]
    BY <2>1, <2>2
  <2>4. QED
    BY <1>5, <2>1, <2>3
<1>10. \A i, j \in Owners(t) : t[i].node = t[j].node => i = j
  BY <1>4, <1>5, <1>7
<1>11. LeftBehind(e, t) \subseteq LeftBehind(d, s)
  <2> SUFFICES ASSUME NEW node \in TempNodes, e[node].kind \in {"file", "gzip"},
                      node \notin Owned(t)
               PROVE  node \in LeftBehind(d, s)
    BY DEF LeftBehind, Files
  <2>1. e[node] = d[node] /\ ~ (k \in Owners(s) /\ node = s[k].node)
    OBVIOUS
  <2>2. node \notin Owned(s)
    <3> SUFFICES ASSUME NEW i \in Owners(s), node = s[i].node PROVE FALSE
      BY DEF Owned
    <3>1. i # k
      BY <2>1
    <3>2. Now(i) \in Owners(t) /\ t[Now(i)].node = node
      BY <1>8, <3>1
    <3>3. QED
      BY <3>2 DEF Owned
  <2>3. QED
    BY <2>1, <2>2 DEF LeftBehind, Files
<1>12. Cardinality(LeftBehind(e, t)) <= n
  BY <1>5, <1>11, FewerLeft
<1>13. QED
  BY <1>2, <1>9, <1>10, <1>12 DEF Accounted, t

\* What a call with temporary objects leads to.
Accounts ==
  Tree(disk') /\ faults' \in 0 .. MaxFaults /\ Accounted(disk', temps', faults')

LEMMA ConstructFileAccounts ==
  ASSUME DiskInv, TempInv, NEW content \in Contents, ConstructTempFile(content)
  PROVE  Accounts
<1> DEFINE Calls == {"create"} \cup (IF content = << >> THEN {} ELSE {"open", "write"})
           Left(fault, most) == CASE fault = "open" -> << >>
                                  [] fault = "write" -> SubSeq(content, 1, most)
                                  [] OTHER -> content
           Valid(node, fault) == TempIsCreated(node, fault) /\ fault \notin {"open", "write"}
           Object(node, fault) == [kind |-> "file", node |-> node,
                                   valid |-> Valid(node, fault), content |-> content]
<1>1. PICK node \in TempNodes, most \in 0 .. Len(content), fault \in Faults(Calls) :
        /\ disk' = IF TempIsCreated(node, fault)
                   THEN [disk EXCEPT ![node] = FileOf(Left(fault, most))] ELSE disk
        /\ temps' = Append(temps, Object(node, fault))
        /\ Returns("TempFile", node, << >>, Valid(node, fault), fault)
  BY DEF ConstructTempFile, TempPath
<1> DEFINE left == Left(fault, most)
           created == TempIsCreated(node, fault)
           o == Object(node, fault)
<1> HIDE DEF Calls
<1>2. /\ faults' \in 0 .. MaxFaults /\ faults <= faults'
      /\ fault # "none" => faults' = faults + 1
  BY <1>1, FaultsCounted DEF DiskInv
<1>3. left \in Contents
  BY EmptyIn, PrefixIn
<1>4. fault \notin {"open", "write"} => left = content
  OBVIOUS
<1>5. created => InDirectory(disk, node) /\ disk[node].kind = "absent"
  BY DEF TempIsCreated, Exists
<1>6. node \in Nodes /\ faults \in Nat /\ faults' \in Nat
  BY <1>2, PlacesAre, DiskAssumption DEF DiskInv
<1>7. /\ o \in TempObjects /\ o.kind = "file" /\ o.node = node
      /\ o.valid = Valid(node, fault) /\ o.content = content
  BY DEF TempObjects, Valid, TempIsCreated, InDirectory, Exists
<1>8. Valid(node, fault) <=> created /\ fault \notin {"open", "write"}
  OBVIOUS
<1>9. temps' = Append(temps, o) /\ disk' = IF created THEN [disk EXCEPT ![node] = FileOf(left)] ELSE disk
  BY <1>1
<1> HIDE DEF left, created, o, Valid, Left, Object
<1>10. /\ Tree(disk')
       /\ \A n \in Nodes : disk'[n] = IF n = node /\ created THEN FileOf(left) ELSE disk[n]
  <2>1. CASE created
    <3>1. Tree(disk) /\ InDirectory(disk, node) /\ disk[node].kind # "dir"
      BY <1>5, <2>1 DEF DiskInv
    <3>2. /\ Tree([disk EXCEPT ![node] = FileOf(left)])
          /\ \A n \in Nodes : [disk EXCEPT ![node] = FileOf(left)][n]
                                = IF n = node THEN FileOf(left) ELSE disk[n]
      BY ONLY <1>3, <1>6, <3>1, PutFile
    <3>3. QED
      BY <1>9, <2>1, <3>2
  <2>2. CASE ~ created
    BY <1>9, <2>2 DEF DiskInv
  <2>3. QED
    BY <2>1, <2>2
<1>11. Accounted(disk, temps, faults)
  BY DEF TempInv
<1>12. \A n \in TempNodes : \/ disk'[n] = disk[n]
                            \/ disk[n].kind = "absent" /\ n = o.node
  BY <1>5, <1>7, <1>10, PlacesAre
<1>13. o.kind = "file" /\ o.valid =>
         disk[o.node].kind = "absent" /\ disk'[o.node] = FileOf(o.content)
  BY <1>4, <1>5, <1>6, <1>7, <1>8, <1>10
<1>14. \/ faults <= faults' /\ \/ o.kind = "file" /\ o.valid
                               \/ Files(disk', TempNodes) = Files(disk, TempNodes)
       \/ faults' = faults + 1
  <2>1. CASE fault = "none"
    <3>1. CASE created
      BY <1>2, <1>7, <1>8, <2>1, <3>1
    <3>2. CASE ~ created
      BY <1>2, <1>9, <3>2
    <3>3. QED
      BY <3>1, <3>2
  <2>2. CASE fault # "none"
    BY <1>2, <2>2
  <2>3. QED
    BY <2>1, <2>2
<1>15. Accounted(disk', Append(temps, o), faults')
  BY <1>6, <1>7, <1>11, <1>12, <1>13, <1>14, AppendAccounted
<1>16. QED
  BY <1>2, <1>9, <1>10, <1>15 DEF Accounts

LEMMA ConstructDirAccounts ==
  ASSUME DiskInv, TempInv, ConstructTempDir
  PROVE  Accounts
<1> DEFINE Valid(node, fault) == MkdirReturnsZero(disk, node, fault = "mkdir")
           Object(node, fault) == [kind |-> "dir", node |-> node,
                                   valid |-> Valid(node, fault), content |-> << >>]
<1>1. PICK node \in TempNodes, fault \in Faults({"mkdir"}) :
        /\ disk' = Mkdir(disk, node, fault = "mkdir")
        /\ temps' = Append(temps, Object(node, fault))
        /\ Returns("TempDir", node, << >>, Valid(node, fault), fault)
  BY DEF ConstructTempDir, TempPath
<1> DEFINE o == Object(node, fault)
<1>2. faults' \in 0 .. MaxFaults /\ faults <= faults'
  BY <1>1, FaultsCounted DEF DiskInv
<1>3. faults \in Nat /\ faults' \in Nat
  BY <1>2, DiskAssumption DEF DiskInv
<1>4. o \in TempObjects /\ o.kind = "dir"
  BY EmptyIn DEF TempObjects, MkdirReturnsZero, MayMkdir, InDirectory
<1>5. temps' = Append(temps, o)
  BY <1>1
<1> HIDE DEF o, Valid, Object
<1>6. /\ Tree(disk')
      /\ \A n \in Nodes : \/ disk'[n] = disk[n]
                          \/ disk'[n].kind = "dir" /\ disk[n].kind = "absent"
  BY <1>1, MkdirTree DEF DiskInv
<1>7. Files(disk', TempNodes) = Files(disk, TempNodes)
  BY <1>6, PlacesAre DEF Files
<1>8. Accounted(disk, temps, faults) /\ \A n \in TempNodes : n \in Nodes
  BY PlacesAre DEF TempInv
<1>9. Accounted(disk', Append(temps, o), faults')
  <2>1. \A n \in TempNodes : \/ disk'[n] = disk[n]
                             \/ disk[n].kind = "absent" /\ disk'[n].kind = "dir"
    BY <1>6, <1>8
  <2>2. ~ (o.kind = "file")
    BY <1>4
  <2>3. QED
    BY <1>2, <1>3, <1>4, <1>7, <1>8, <2>1, <2>2, AppendAccounted
<1>10. QED
  BY <1>2, <1>5, <1>6, <1>9 DEF Accounts

LEMMA DestroyAccounts ==
  ASSUME DiskInv, TempInv, NEW k \in DOMAIN temps, DestroyTempFile(k) \/ DestroyTempDir(k)
  PROVE  Accounts
<1> DEFINE node == temps[k].node
<1>1. temps \in Seq(TempObjects) /\ Accounted(disk, temps, faults)
  BY DEF TempInv, Accounted
<1>2. temps[k] \in TempObjects
  BY <1>1
<1>3. node \in TempNodes /\ node \in Nodes
  BY <1>2, PlacesAre DEF TempObjects
<1>4. temps' = RemoveAt(temps, k)
  BY DEF DestroyTempFile, DestroyTempDir
<1>5. faults' \in 0 .. MaxFaults /\ faults <= faults'
  BY NoFaultCounted DEF DestroyTempFile, DestroyTempDir
<1>6. faults \in Nat /\ faults' \in Nat
  BY <1>5, DiskAssumption DEF DiskInv
<1>7. k \in Owners(temps) => IsFile(node) /\ disk[node].kind = "file"
  <2>1. \A b : FileOf(b).kind = "file"
    BY DEF FileOf
  <2>2. k \in Owners(temps) => disk[node] = FileOf(temps[k].content)
    BY <1>1 DEF Accounted
  <2>3. k \in Owners(temps) => disk[node].kind = "file"
    BY ONLY <2>1, <2>2
  <2>4. QED
    BY <2>3 DEF IsFile
<1>8. \/ UNCHANGED disk /\ k \notin Owners(temps)
      \/ /\ disk' = [disk EXCEPT ![node] = Absent]
         /\ IsFile(node) \/ MayRmdir(node)
         /\ k \in Owners(temps) \/ MayRmdir(node)
  <2>1. CASE DestroyTempFile(k)
    <3>1. temps[k].valid <=> k \in Owners(temps)
      BY <2>1 DEF DestroyTempFile, Owners
    <3>2. QED
      BY <1>7, <2>1, <3>1 DEF DestroyTempFile
  <2>2. CASE DestroyTempDir(k)
    <3>1. k \notin Owners(temps)
      BY <2>2 DEF DestroyTempDir, Owners
    <3>2. QED
      BY <2>2, <3>1 DEF DestroyTempDir
  <2>3. QED
    BY <2>1, <2>2
<1> HIDE DEF node
<1>9. /\ Tree(disk')
      /\ \A n \in TempNodes :
           \/ disk'[n] = disk[n]
           \/ disk[n].kind = "dir" /\ disk'[n].kind = "absent"
           \/ k \in Owners(temps) /\ n = node /\ disk'[n].kind = "absent"
      /\ k \in Owners(temps) => disk'[node].kind = "absent"
  <2>1. CASE UNCHANGED disk /\ k \notin Owners(temps)
    BY <2>1 DEF DiskInv
  <2>2. CASE /\ disk' = [disk EXCEPT ![node] = Absent]
             /\ IsFile(node) \/ MayRmdir(node)
             /\ k \in Owners(temps) \/ MayRmdir(node)
    <3>1. /\ Tree(disk')
          /\ \A n \in Nodes : disk'[n] = IF n = node THEN Absent ELSE disk[n]
      BY <1>3, <2>2, RemovedTree DEF DiskInv
    <3>2. Absent.kind = "absent"
      BY KindsAre
    <3>3. MayRmdir(node) => disk[node].kind = "dir"
      BY DEF MayRmdir, IsDirectory
    <3>4. QED
      BY <1>3, <2>2, <3>1, <3>2, <3>3, PlacesAre
  <2>3. QED
    BY <1>8, <2>1, <2>2
<1>10. Accounted(disk', RemoveAt(temps, k), faults')
  BY <1>1, <1>5, <1>6, <1>9, RemoveAccounted DEF node
<1>11. QED
  BY <1>4, <1>5, <1>9, <1>10 DEF Accounts

-----------------------------------------------------------------------------
(* The theorems *)

FilesInv == DiskInv /\ TempInv

LEMMA InitFiles == Init => FilesInv
<1> SUFFICES ASSUME Init PROVE FilesInv
  OBVIOUS
<1>1. PICK content \in Samples \cup Texts : disk = Empty(content)
  BY DEF Init
<1>2. \A n \in Nodes : disk[n] = IF n = Source THEN FileOf(content) ELSE Absent
  BY <1>1 DEF Empty
<1>3. FileOf(content) \in NodeStates /\ Absent \in NodeStates /\ Absent.kind = "absent"
  BY TextsIn, KindsAre
<1>4. disk \in [Nodes -> NodeStates]
  <2>1. disk = [n \in Nodes |-> disk[n]]
    BY <1>1 DEF Empty
  <2>2. QED
    BY <1>2, <1>3, <2>1
<1>5. Tree(disk)
  BY <1>2, <1>3, <1>4, SourceFilesAssumption DEF Tree, There, InDirectory
<1>6. DiskInv
  BY <1>5, DiskAssumption DEF DiskInv, Init
<1>7. Files(disk, TempNodes) = {}
  <2>1. \A t \in TempNodes : t \in Nodes /\ t # Source
    BY PlacesAre
  <2>2. \A t \in TempNodes : disk[t].kind = "absent"
    BY <1>2, <1>3, <2>1
  <2>3. QED
    BY <2>2 DEF Files
<1>8. temps = << >> /\ faults = 0
  BY DEF Init
<1>9. Owners(<< >>) = {} /\ LeftBehind(disk, << >>) = {}
  BY <1>7 DEF Owners, LeftBehind
<1>10. Cardinality(LeftBehind(disk, << >>)) = 0
  BY <1>9, FS_EmptySet
<1>11. << >> \in Seq(TempObjects)
  OBVIOUS
<1>12. Accounted(disk, << >>, 0)
  BY <1>9, <1>10, <1>11 DEF Accounted
<1>13. TempInv
  BY <1>7, <1>8, <1>12 DEF TempInv
<1>14. QED
  BY <1>6, <1>13 DEF FilesInv

LEMMA KeepTempsAccounts ==
  ASSUME DiskInv, TempInv, KeepTemps
  PROVE  Accounts
<1>1. \/ \E text \in Texts : ConstructTempFile(text)
      \/ ConstructTempDir
      \/ \E i \in DOMAIN temps : DestroyTempFile(i) \/ DestroyTempDir(i)
  BY DEF KeepTemps, OnDisk
<1>2. \A text \in Texts : text \in Contents
  BY TextsIn
<1>3. QED
  BY <1>1, <1>2, ConstructFileAccounts, ConstructDirAccounts, DestroyAccounts

LEMMA NextFiles == FilesInv /\ [Next]_vars => FilesInv'
<1> SUFFICES ASSUME FilesInv, [Next]_vars PROVE FilesInv'
  OBVIOUS
<1>1. DiskInv /\ TempInv
  BY DEF FilesInv
<1>2. CASE Keeps /\ UNCHANGED <<temps, role>> /\ role # "temporary"
  <2>1. TempInv'
    BY <1>1, <1>2, OthersAccounted
  <2>2. DiskInv'
    BY <1>2 DEF Keeps, DiskInv
  <2>3. QED
    BY <2>1, <2>2 DEF FilesInv
<1>3. CASE Accounts /\ UNCHANGED role /\ role = "temporary"
  <2>1. TempInv'
    BY <1>3 DEF Accounts, TempInv
  <2>2. DiskInv'
    BY <1>3 DEF Accounts, DiskInv
  <2>3. QED
    BY <2>1, <2>2 DEF FilesInv
<1>4. CASE Next
  <2>1. UNCHANGED role
    BY <1>4 DEF Next
  <2>2. CASE Read
    BY <1>1, <1>2, <2>1, <2>2, ReadKeeps DEF Read
  <2>3. CASE Edit
    BY <1>1, <1>2, <2>1, <2>3, EditKeeps DEF Edit
  <2>4. CASE role = "keeper" /\ (KeepFiles \/ KeepDirectories)
    BY <1>1, <1>2, <2>1, <2>4, KeepFilesKeeps
  <2>5. CASE role = "temporary" /\ KeepTemps
    BY <1>1, <1>3, <2>1, <2>5, KeepTempsAccounts
  <2>6. QED
    BY <1>4, <2>2, <2>3, <2>4, <2>5 DEF Next, Keep
<1>5. CASE UNCHANGED vars
  BY <1>1, <1>5 DEF vars, diskVars, FilesInv, DiskInv, TempInv
<1>6. QED
  BY <1>4, <1>5

\* The owners of files are as many as the files that are owned.
LEMMA OwnedCounted ==
  ASSUME FilesInv
  PROVE  /\ IsFiniteSet(Owned(temps)) /\ IsFiniteSet(Owners(temps))
         /\ Cardinality(Owned(temps)) <= Cardinality(Owners(temps))
<1> DEFINE I == Owners(temps)
           O == Owned(temps)
           f == [i \in I |-> temps[i].node]
<1>1. temps \in Seq(TempObjects) /\ Len(temps) \in Nat
  BY DEF FilesInv, TempInv, Accounted
<1>2. I \subseteq 1 .. Len(temps)
  BY <1>1 DEF Owners
<1>3. IsFiniteSet(1 .. Len(temps))
  <2>1. 1 \in Int /\ Len(temps) \in Int
    BY <1>1
  <2>2. QED
    BY <2>1, FS_Interval, Zenon
<1>4. IsFiniteSet(I)
  <2> HIDE DEF I
  <2>1. QED
    BY <1>2, <1>3, FS_Subset
<1>5. f \in Surjection(I, O)
  BY DEF Owned, Surjection
<1> HIDE DEF I, O, f
<1>6. IsFiniteSet(O) /\ Cardinality(O) <= Cardinality(I)
  BY <1>4, <1>5, FS_Surjection
<1>7. QED
  BY <1>4, <1>6 DEF I, O

LEMMA FilesAccounted ==
  ASSUME FilesInv
  PROVE  TempFilesAccounted
<1> DEFINE made == {i \in DOMAIN temps : temps[i].kind = "file"}
           F == Files(disk, TempNodes)
           O == Owned(temps)
           L == LeftBehind(disk, temps)
<1>1. \A i \in made : temps[i].valid => disk[temps[i].node] = FileOf(temps[i].content)
  BY DEF FilesInv, TempInv, Accounted, Owners
<1>2. {i \in made : temps[i].valid} = Owners(temps)
  BY DEF Owners
<1>3. {node \in TempNodes : IsFile(node)} = F
  BY DEF Files, IsFile
<1>4. F \subseteq L \cup O
  BY DEF LeftBehind
<1>5. /\ IsFiniteSet(O) /\ IsFiniteSet(Owners(temps))
      /\ Cardinality(O) <= Cardinality(Owners(temps))
  BY OwnedCounted
<1>6. IsFiniteSet(L)
  <2>1. IsFiniteSet(TempNodes) /\ L \subseteq TempNodes
    BY DiskAssumption DEF LeftBehind, Files
  <2>2. QED
    BY <2>1, FS_Subset
<1>7. Cardinality(L) <= faults /\ faults \in Nat
  BY DiskAssumption DEF FilesInv, TempInv, Accounted, DiskInv
<1> HIDE DEF F, L, O, made
<1>8. /\ IsFiniteSet(L \cup O)
      /\ Cardinality(L \cup O) = Cardinality(L) + Cardinality(O) - Cardinality(L \cap O)
  BY <1>5, <1>6, FS_Union
<1>9. IsFiniteSet(F) /\ Cardinality(F) <= Cardinality(L \cup O)
  BY <1>4, <1>8, FS_Subset
<1>10. IsFiniteSet(L \cap O)
  BY <1>6, FS_Intersection
<1>11. /\ Cardinality(F) \in Nat /\ Cardinality(L) \in Nat /\ Cardinality(O) \in Nat
       /\ Cardinality(L \cap O) \in Nat /\ Cardinality(Owners(temps)) \in Nat
       /\ Cardinality(L \cup O) \in Nat
  BY <1>5, <1>6, <1>8, <1>9, <1>10, FS_CardinalityType
<1>12. Cardinality(F) <= Cardinality(Owners(temps)) + faults
  BY <1>5, <1>7, <1>8, <1>9, <1>11
<1>13. QED
  BY <1>1, <1>2, <1>3, <1>12 DEF TempFilesAccounted, made

\* A valid TempFile has its file with its content as long as it lives, however
\* many objects drew the same random name, and destroyed ones leave no more
\* files behind than calls have failed: TempFile's constructor and destructor.
THEOREM TempsCorrect == Spec => []TempFilesAccounted
<1>1. FilesInv => TempFilesAccounted
  BY FilesAccounted
<1>2. QED
  BY InitFiles, NextFiles, <1>1, PTL DEF Spec

\* Which step is a call of compress(), or of create_directories()?
LEMMA DirectoryCalls ==
  ASSUME Next, last'.op \in {"compress", "create_directories"}
  PROVE  KeepDirectories
<1>0. \A op, node, dest, ok, fault :
        Returns(op, node, dest, ok, fault) => op = "compress" \/ op = "create_directories"
  BY DEF Returns
<1>1. NoCall.op \notin {"compress", "create_directories"}
  BY DEF NoCall
<1>2. \A id : ~ Load(id) /\ ~ LoadedFile(id)
  BY <1>0 DEF Load, LoadedFile
<1>3. ~ Read
  BY <1>1, <1>2 DEF Read, OnFiles, OnStream, OpenStream, StreamInit
<1>4. ~ EditDisk
  <2>1. \A text : ~ WriteFile(Source, text)
    BY <1>0 DEF WriteFile
  <2>2. ~ RemoveFile(Source)
    BY <1>0 DEF RemoveFile
  <2>3. QED
    BY <2>1, <2>2 DEF EditDisk, OnDisk
<1>5. ~ EditFiles
  BY <1>1, <1>2 DEF EditFiles, OnFiles
<1>6. ~ EditStream
  BY <1>1, <1>2 DEF EditStream, OnStream, OpenStream, StreamInit
<1>7. ~ KeepTemps
  <2>1. \A text : ~ ConstructTempFile(text)
    BY <1>0, ZenonT(60) DEF ConstructTempFile
  <2>2. ~ ConstructTempDir
    BY <1>0 DEF ConstructTempDir
  <2>3. \A i : ~ DestroyTempFile(i) /\ ~ DestroyTempDir(i)
    BY <1>0 DEF DestroyTempFile, DestroyTempDir
  <2>4. QED
    BY <2>1, <2>2, <2>3 DEF KeepTemps, OnDisk
<1>8. ~ KeepFiles
  <2>1. \A node : /\ ~ CreateFile(node) /\ ~ RemoveFile(node)
                  /\ ~ RemoveDirectory(node) /\ ~ CreateDirectory(node)
    BY <1>0 DEF CreateFile, RemoveFile, RemoveDirectory, CreateDirectory
  <2>2. \A node, new : ~ RenameFile(node, new)
    BY <1>0 DEF RenameFile
  <2>3. \A node, text : ~ WriteBinaryToFile(node, text)
    BY <1>0 DEF WriteBinaryToFile
  <2>4. QED
    BY <2>1, <2>2, <2>3 DEF KeepFiles, OnDisk
<1>9. QED
  BY <1>3, <1>4, <1>5, <1>6, <1>7, <1>8 DEF Next, Edit, Keep

LEMMA CompressCalls ==
  ASSUME Next, last'.op = "compress"
  PROVE  \E remove : Compress(Source, Backup, remove)
<1>1. KeepDirectories
  BY DirectoryCalls
<1>2. \A dir : ~ CreateDirectories(dir)
  <2>1. \A node, dest, ok, fault : ~ Returns("create_directories", node, dest, ok, fault)
    BY DEF Returns
  <2>2. QED
    BY <2>1, Zenon DEF CreateDirectories
<1>3. QED
  BY <1>1, <1>2 DEF KeepDirectories, OnDisk

LEMMA CreateCalls ==
  ASSUME Next, last'.op = "create_directories"
  PROVE  \E dir \in DirectoryPaths : CreateDirectories(dir)
<1>1. KeepDirectories
  BY DirectoryCalls
<1>2. \A remove : ~ Compress(Source, Backup, remove)
  <2>1. \A node, dest, ok, fault : ~ Returns("compress", node, dest, ok, fault)
    BY DEF Returns
  <2>2. QED
    BY <2>1, Zenon DEF Compress
<1>3. QED
  BY <1>1, <1>2 DEF KeepDirectories, OnDisk

\* No data is lost through a call of compress() whose failure it looks at: the
\* archive holds the whole source when it returns true, and the source is still
\* there when it returns false.
THEOREM CompressCorrect == Spec => CompressKeepsData
<1>1. ASSUME FilesInv, Next,
             last'.op = "compress", last'.fault \notin {"read", "close"}
      PROVE  IF last'.ok THEN disk'[last'.dest] = GzipOf(disk[last'.node].bytes)
             ELSE disk'[last'.node] = disk[last'.node]
  <2>1. PICK remove : Compress(Source, Backup, remove)
    BY <1>1, CompressCalls
  <2>2. DiskInv /\ Source \in Nodes \ TempNodes /\ Backup \in Nodes \ TempNodes
    BY <1>1, PlacesAre DEF FilesInv
  <2>3. QED
    BY <1>1, <2>1, <2>2, CompressDoes
<1> DEFINE Kept == LET src == last'.node  dest == last'.dest
                   IN  last'.op = "compress" /\ last'.fault \notin {"read", "close"} =>
                         IF last'.ok THEN disk'[dest] = GzipOf(disk[src].bytes)
                         ELSE disk'[src] = disk[src]
<1>2. FilesInv /\ [Next]_vars => [Kept]_vars
  BY <1>1
<1>3. CompressKeepsData <=> [][Kept]_vars
  BY DEF CompressKeepsData
<1>4. QED
  BY InitFiles, NextFiles, <1>2, <1>3, PTL DEF Spec

\* What is there lies in directories all the way up.
LEMMA AncestorsThere ==
  ASSUME NEW d, Tree(d), NEW node \in Nodes, NEW above \in Nodes,
         There(d, node), IsPrefix(above, node), above # node
  PROVE  d[above].kind = "dir"
<1>1. node \in Inside(above)
  BY DEF Inside, IsStrictPrefix
<1>2. ~ Childless(d, above)
  BY <1>1, NoneInside
<1>3. QED
  BY <1>2, NoDirectoryIsChildless

LEMMA CreateDirectoriesDoes ==
  ASSUME Tree(disk), NEW dir \in DirectoryPaths, CreateDirectories(dir), last'.ok,
         NEW node \in Nodes, IsPrefix(node, last'.node)
  PROVE  disk'[node].kind = "dir" \/ (node = last'.node /\ IsFile(node))
<1> DEFINE whole == SanitizeComponent(dir, TRUE)
<1>1. PICK fault \in Faults({"mkdir"}), failing \in {0} \cup PrefixEnds(whole) :
        /\ disk' = PrefixesMade(whole, failing)[Len(whole) + 1].disk
        /\ Returns("create_directories", Resolve(dir), << >>,
                   PrefixesMade(whole, failing)[Len(whole) + 1].result = 0, fault)
  BY DEF CreateDirectories
<1>2. whole \in Seq(STRING) /\ Resolve(whole) = Resolve(dir) /\ Resolve(dir) \in Nodes
  BY SanitizedIn, ResolveSanitized, SourceFilesAssumption
<1> HIDE DEF whole
<1>3. /\ last'.node = Resolve(dir)
      /\ PrefixesMade(whole, failing)[Len(whole) + 1].result = 0
  BY <1>1 DEF Returns
<1>4. /\ Tree(disk') /\ There(disk', Resolve(dir))
      /\ disk'[Resolve(dir)].kind = "dir" \/ IsFile(Resolve(dir))
  BY <1>1, <1>2, <1>3, WholeMade
<1>5. CASE node = Resolve(dir)
  BY <1>3, <1>4, <1>5
<1>6. CASE node # Resolve(dir)
  <2>1. disk'[node].kind = "dir"
    BY <1>2, <1>3, <1>4, <1>6, AncestorsThere
  <2>2. QED
    BY <2>1
<1>7. QED
  BY <1>5, <1>6

\* Each directory of the path is there when create_directories() returns true,
\* whichever call fails in its loop; only the path itself may be a file.
THEOREM DirectoriesCorrect == Spec => DirectoriesCreated
<1> DEFINE Made == last'.op = "create_directories" /\ last'.ok =>
                     \A node \in Nodes :
                       IsPrefix(node, last'.node) =>
                         disk'[node].kind = "dir" \/ (node = last'.node /\ IsFile(node))
<1>1. ASSUME FilesInv, Next PROVE Made
  <2> SUFFICES ASSUME last'.op = "create_directories", last'.ok,
                      NEW node \in Nodes, IsPrefix(node, last'.node)
               PROVE  disk'[node].kind = "dir" \/ (node = last'.node /\ IsFile(node))
    OBVIOUS
  <2>1. PICK dir \in DirectoryPaths : CreateDirectories(dir)
    BY <1>1, CreateCalls
  <2>2. Tree(disk)
    BY <1>1 DEF FilesInv, DiskInv
  <2>3. QED
    BY <2>1, <2>2, CreateDirectoriesDoes
<1>2. FilesInv /\ [Next]_vars => [Made]_vars
  BY <1>1
<1>3. DirectoriesCreated <=> [][Made]_vars
  BY DEF DirectoriesCreated
<1>4. QED
  BY InitFiles, NextFiles, <1>2, <1>3, PTL DEF Spec

-----------------------------------------------------------------------------
(* The files that are registered *)

EntryOK(e) ==
  /\ e.content \in Contents
  /\ e.status = "not_loaded" => e.content = << >> /\ e.line_ends = << >>
  /\ e.status = "loaded" => e.line_ends = IndexNewlines(e.content)

FilesOK(fs) == \E S : fs \in Seq(S) /\ \A e \in S : EntryOK(e)

LEMMA EntriesAreOK ==
  ASSUME NEW fs, FilesOK(fs)
  PROVE  /\ Len(fs) \in Nat /\ DOMAIN fs = 1 .. Len(fs)
         /\ \A i \in 1 .. Len(fs) : EntryOK(fs[i])
<1>1. PICK S : fs \in Seq(S) /\ \A e \in S : EntryOK(e)
  BY DEF FilesOK
<1>2. Len(fs) \in Nat /\ DOMAIN fs = 1 .. Len(fs) /\ \A i \in 1 .. Len(fs) : fs[i] \in S
  BY <1>1
<1>3. QED
  BY <1>1, <1>2

LEMMA AppendOK ==
  ASSUME NEW fs, FilesOK(fs), NEW e, EntryOK(e)
  PROVE  FilesOK(Append(fs, e)) /\ Len(fs) <= Len(Append(fs, e))
<1>1. PICK S : fs \in Seq(S) /\ \A x \in S : EntryOK(x)
  BY DEF FilesOK
<1> DEFINE T == S \cup {e}
<1>2. \A x \in T : EntryOK(x)
  BY <1>1
<1>3. fs \in Seq(T) /\ e \in T
  <2>1. Len(fs) \in Nat /\ fs = [i \in 1 .. Len(fs) |-> fs[i]] /\ \A i \in 1 .. Len(fs) : fs[i] \in T
    BY <1>1
  <2> HIDE DEF T
  <2>2. fs \in Seq(T)
    BY <2>1
  <2>3. e \in T
    BY DEF T
  <2>4. QED
    BY <2>2, <2>3
<1> HIDE DEF T
<1>4. Append(fs, e) \in Seq(T) /\ Len(fs) <= Len(Append(fs, e))
  BY <1>3
<1>5. QED
  BY <1>2, <1>4 DEF FilesOK

LEMMA ExceptOK ==
  ASSUME NEW fs, FilesOK(fs), NEW i, NEW e, EntryOK(e)
  PROVE  /\ FilesOK([fs EXCEPT ![i] = e]) /\ Len(fs) <= Len([fs EXCEPT ![i] = e])
         /\ i \in DOMAIN fs => [fs EXCEPT ![i] = e][i] = e
<1>1. PICK S : fs \in Seq(S) /\ \A x \in S : EntryOK(x)
  BY DEF FilesOK
<1> DEFINE T == S \cup {e}
           gs == [fs EXCEPT ![i] = e]
<1>2. \A x \in T : EntryOK(x)
  BY <1>1
<1>3. Len(fs) \in Nat /\ fs = [j \in 1 .. Len(fs) |-> fs[j]] /\ \A j \in 1 .. Len(fs) : fs[j] \in S
  BY <1>1
<1>4. gs = [j \in 1 .. Len(fs) |-> gs[j]] /\ \A j \in 1 .. Len(fs) : gs[j] \in T
  BY <1>3
<1> HIDE DEF T
<1>5. gs \in Seq(T)
  <2> HIDE DEF gs
  <2>1. QED
    BY <1>3, <1>4
<1>6. i \in DOMAIN fs => gs[i] = e
  BY <1>3
<1>7. Len(fs) <= Len(gs)
  BY <1>3
<1>8. QED
  BY <1>2, <1>5, <1>6, <1>7 DEF FilesOK

LEMMA NewEntries ==
  /\ \A name : EntryOK(NotLoadedFile(name))
  /\ \A name, content : content \in Contents => EntryOK(LoadedFileOf(name, content))
  /\ \A name, content : LoadedFileOf(name, content).content = content
BY EmptyIn DEF EntryOK, NotLoadedFile, LoadedFileOf

\* read_file() gives bytes back, however much of the file it reads.
LEMMA ReadIn ==
  ASSUME DiskInv, NEW id, NEW f \in LoadFaults(id)
  PROVE  ReadFile(FileAt(id).name, f[1], f[2]) \in Contents
<1> DEFINE node == FileAt(id).name
           bytes == disk[node].bytes
<1>1. CASE f[1] = "open" \/ node \notin Nodes \/ ~ IsFile(node)
  BY <1>1, EmptyIn DEF ReadFile
<1>2. CASE ~ (f[1] = "open" \/ node \notin Nodes \/ ~ IsFile(node))
  <2>1. bytes \in Contents
    <3>1. disk[node] \in NodeStates
      BY <1>2 DEF DiskInv, Tree
    <3>2. QED
      BY <3>1 DEF NodeStates
  <2>2. Len(bytes) \in Nat
    BY <2>1 DEF Contents
  <2>3. f[1] = "read" => f[2] \in 0 .. Len(bytes) - 1
    BY DEF LoadFaults
  <2> HIDE DEF bytes
  <2>4. f[1] = "read" => f[2] \in 0 .. Len(bytes)
    BY <2>2, <2>3
  <2>5. f[1] = "read" => SubSeq(bytes, 1, f[2]) \in Contents
    BY <2>1, <2>4, PrefixIn
  <2>6. ReadFile(node, f[1], f[2]) = IF f[1] = "read" THEN SubSeq(bytes, 1, f[2]) ELSE bytes
    BY <1>2 DEF ReadFile, bytes
  <2>7. QED
    BY <2>1, <2>5, <2>6
<1>3. QED
  BY <1>1, <1>2

LEMMA LoadIntoOK ==
  ASSUME DiskInv, FilesOK(files), NEW id, NEW f \in LoadFaults(id),
         LoadInto(id, f[1], f[2])
  PROVE  /\ FilesOK(files') /\ Len(files) <= Len(files')
         /\ id + 1 \in DOMAIN files => files'[id + 1].content \in Contents
<1> DEFINE content == ReadFile(FileAt(id).name, f[1], f[2])
           e == LoadedFileOf(FileAt(id).name, content)
<1>1. content \in Contents
  BY ReadIn
<1>2. files' = [files EXCEPT ![id + 1] = e]
  BY DEF LoadInto, LoadedFrom, FileAt
<1> HIDE DEF content
<1>3. EntryOK(e) /\ e.content = content
  BY <1>1, NewEntries
<1> HIDE DEF e
<1>4. /\ FilesOK([files EXCEPT ![id + 1] = e])
      /\ Len(files) <= Len([files EXCEPT ![id + 1] = e])
      /\ id + 1 \in DOMAIN files => [files EXCEPT ![id + 1] = e][id + 1] = e
  BY <1>3, ExceptOK
<1>5. QED
  BY <1>1, <1>2, <1>3, <1>4

LEMMA RegisterOK ==
  ASSUME FilesOK(files), NEW name,
         \/ RegisterFile(name)
         \/ \E text \in Texts : RegisterFileLoaded(name, text) \/ RegisterVirtualFile(text)
  PROVE  FilesOK(files') /\ Len(files) <= Len(files')
<1>1. \E e : EntryOK(e) /\ files' = Append(files, e)
  <2>1. CASE RegisterFile(name)
    BY <2>1, NewEntries DEF RegisterFile
  <2>2. CASE \E text \in Texts : RegisterFileLoaded(name, text)
    BY <2>2, NewEntries, TextsIn DEF RegisterFileLoaded
  <2>3. CASE \E text \in Texts : RegisterVirtualFile(text)
    BY <2>3, NewEntries, TextsIn DEF RegisterVirtualFile
  <2>4. QED
    BY <2>1, <2>2, <2>3
<1>2. QED
  BY <1>1, AppendOK

LEMMA LoadOK ==
  ASSUME DiskInv, FilesOK(files), NEW id, Load(id) \/ Unload(id)
  PROVE  FilesOK(files') /\ Len(files) <= Len(files')
<1>1. CASE Load(id)
  BY <1>1, LoadIntoOK DEF Load
<1>2. CASE Unload(id)
  <2> DEFINE e == NotLoadedFile(files[id + 1].name)
  <2>1. EntryOK(e) /\ files' = [files EXCEPT ![id + 1] = e]
    BY <1>2, NewEntries DEF Unload
  <2> HIDE DEF e
  <2>2. /\ FilesOK([files EXCEPT ![id + 1] = e])
        /\ Len(files) <= Len([files EXCEPT ![id + 1] = e])
    BY <2>1, ExceptOK
  <2>3. QED
    BY <2>1, <2>2
<1>3. QED
  BY <1>1, <1>2

LEMMA LoadedOK ==
  ASSUME DiskInv, FilesOK(files), NEW id \in Nat, Has(id), LoadedFile(id)
  PROVE  /\ FilesOK(files') /\ files'[id + 1].content \in Contents
         /\ Len(files) <= Len(files') /\ id < Len(files)
<1>1. /\ Len(files) \in Nat /\ DOMAIN files = 1 .. Len(files)
      /\ \A i \in 1 .. Len(files) : EntryOK(files[i])
  BY EntriesAreOK
<1>2. id + 1 \in 1 .. Len(files)
  BY <1>1 DEF Has
<1>3. CASE UNCHANGED files
  BY <1>1, <1>2, <1>3 DEF EntryOK
<1>4. CASE \E f \in LoadFaults(id) : LoadInto(id, f[1], f[2])
  BY <1>1, <1>2, <1>4, LoadIntoOK
<1>5. id < Len(files)
  BY DEF Has
<1>6. QED
  BY <1>3, <1>4, <1>5 DEF LoadedFile

-----------------------------------------------------------------------------
(* The code points *)

LEMMA DecodeLength ==
  ASSUME NEW bytes, Len(bytes) \in Nat, Len(bytes) >= 1
  PROVE  Decode(bytes).len \in 1 .. Len(bytes)
<1> DEFINE len == Utf8SequenceLength(Head(bytes))
           cp == Assemble(SubSeq(bytes, 1, len))
<1>1. len \in 0 .. 4
  BY DEF Utf8SequenceLength
<1>2. \A c, n : Decoded(c, n).len = n
  BY DEF Decoded
<1>3. Decode(bytes) =
        IF len = 0 \/ Len(bytes) < len THEN Decoded(kInvalidUnicodePoint, 1)
        ELSE IF len = 1 THEN Decoded(Head(bytes), 1)
        ELSE IF ~ IsValidCodepoint(cp, len) THEN Decoded(kInvalidUnicodePoint, 1)
        ELSE Decoded(cp, len)
  BY DEF Decode
<1> HIDE DEF len, cp
<1>4. Decode(bytes).len = 1 \/ (Decode(bytes).len = len /\ len # 0 /\ ~ (Len(bytes) < len))
  BY <1>2, <1>3
<1>5. QED
  BY <1>1, <1>4

-----------------------------------------------------------------------------
(* The bytes of a code point *)

\* A part of the bytes, byte by byte.
LEMMA PartIs ==
  ASSUME NEW bytes \in Contents, NEW i \in 1 .. Len(bytes) + 1,
         NEW j \in i - 1 .. Len(bytes)
  PROVE  /\ SubSeq(bytes, i, j) \in Contents
         /\ Len(SubSeq(bytes, i, j)) = j - i + 1
         /\ \A k \in 1 .. j - i + 1 :
              /\ SubSeq(bytes, i, j)[k] = bytes[i + k - 1]
              /\ bytes[i + k - 1] \in 0 .. 255
<1> DEFINE B == 0 .. 255
<1>1. bytes \in Seq(B) /\ Len(bytes) \in Nat
  BY DEF Contents
<1> HIDE DEF B
<1>2. \A k \in i .. j : bytes[k] \in B
  <2> SUFFICES ASSUME NEW k \in i .. j PROVE bytes[k] \in B
    OBVIOUS
  <2>1. k \in 1 .. Len(bytes)
    BY <1>1
  <2>2. QED
    BY <1>1, <2>1
<1>3. i \in Int /\ j \in Int /\ j - i + 1 \in Nat
  BY <1>1
<1>4. /\ SubSeq(bytes, i, j) \in Seq(B)
      /\ Len(SubSeq(bytes, i, j)) = IF i <= j THEN j - i + 1 ELSE 0
      /\ \A k \in 1 .. j - i + 1 : SubSeq(bytes, i, j)[k] = bytes[i + k - 1]
  BY <1>2, <1>3, SubSeqProperties
<1>5. \A k \in 1 .. j - i + 1 : bytes[i + k - 1] \in B
  BY <1>2, <1>3
<1>6. Len(SubSeq(bytes, i, j)) = j - i + 1
  BY <1>3, <1>4
<1>7. QED
  BY <1>4, <1>5, <1>6 DEF Contents, B

\* What the masks of the decoder leave of a byte.
LEMMA MaskedRest ==
  ASSUME NEW b, IsContinuation(b)
  PROVE  b % 64 = b - 128 /\ b - 128 \in 0 .. 63 /\ b = 128 + (b - 128)
BY DEF IsContinuation

LEMMA MaskedTwo ==
  ASSUME NEW b \in 192 .. 223
  PROVE  b % 32 = b - 192 /\ b - 192 \in 0 .. 31 /\ b = 192 + (b - 192)
OBVIOUS

LEMMA MaskedThree ==
  ASSUME NEW b \in 224 .. 239
  PROVE  b % 16 = b - 224 /\ b - 224 \in 0 .. 15 /\ b = 224 + (b - 224)
OBVIOUS

LEMMA MaskedFour ==
  ASSUME NEW b \in 240 .. 247
  PROVE  b % 8 = b - 240 /\ b - 240 \in 0 .. 7 /\ b = 240 + (b - 240)
OBVIOUS

LEMMA ValidCodepoints ==
  ASSUME NEW c \in Nat
  PROVE  /\ IsValidCodepoint(c, 2) <=> 128 <= c /\ c <= 2047
         /\ IsValidCodepoint(c, 3) <=> 2048 <= c /\ c <= 65535 /\ ~ (55296 <= c /\ c <= 57343)
         /\ IsValidCodepoint(c, 4) <=> 65536 <= c /\ c <= 1114111
<1>1. /\ MinValues[2] = 128 /\ MinValues[3] = 2048 /\ MinValues[4] = 65536
      /\ MaxValues[2] = 2047 /\ MaxValues[3] = 65535 /\ MaxValues[4] = 1114111
  BY SMT DEF MinValues, MaxValues
<1>2. c \in Surrogates <=> 55296 <= c /\ c <= 57343
  BY SMT DEF Surrogates
<1>3. \A len : IsValidCodepoint(c, len) <=>
                 MinValues[len] <= c /\ c <= MaxValues[len] /\ c \notin Surrogates
  BY SMT DEF IsValidCodepoint
<1>4. IsValidCodepoint(c, 2) <=> 128 <= c /\ c <= 2047
  BY <1>1, <1>2, <1>3, SMT
<1>5. IsValidCodepoint(c, 3) <=> 2048 <= c /\ c <= 65535 /\ ~ (55296 <= c /\ c <= 57343)
  BY <1>1, <1>2, <1>3, SMT
<1>6. IsValidCodepoint(c, 4) <=> 65536 <= c /\ c <= 1114111
  BY <1>1, <1>2, <1>3, SMT
<1>7. QED
  BY <1>4, <1>5, <1>6, SMT

LEMMA EncodeTwo ==
  ASSUME NEW c \in Nat, 128 <= c, c <= 2047
  PROVE  Encode(c) = <<192 + (c \div 64), 128 + (c % 64)>>
BY SMT DEF Encode

LEMMA EncodeThree ==
  ASSUME NEW c \in Nat, 2048 <= c, c <= 65535
  PROVE  Encode(c) = <<224 + (c \div 4096), 128 + ((c \div 64) % 64), 128 + (c % 64)>>
BY SMT DEF Encode

LEMMA EncodeFour ==
  ASSUME NEW c \in Nat, 65536 <= c
  PROVE  Encode(c) = <<240 + (c \div 262144), 128 + ((c \div 4096) % 64),
                       128 + ((c \div 64) % 64), 128 + (c % 64)>>
BY SMT DEF Encode

\* The numbers of which the digits are the bytes without their first bits.
Two(x, y) == 64 * x + y
Three(x, y, z) == 4096 * x + 64 * y + z
Four(x, y, z, w) == 262144 * x + 4096 * y + 64 * z + w

LEMMA TwoDigits ==
  ASSUME NEW x \in 0 .. 31, NEW y \in 0 .. 63
  PROVE  /\ Two(x, y) \in Nat
         /\ IsValidCodepoint(Two(x, y), 2) <=> x >= 2
         /\ x >= 2 => Encode(Two(x, y)) = <<192 + x, 128 + y>>
<1> DEFINE c == Two(x, y)
<1>1. c \in Nat /\ c <= 2047 /\ (128 <= c <=> x >= 2)
  BY SMT DEF Two
<1>2. c \div 64 = x /\ c % 64 = y
  BY SMT DEF Two
<1> HIDE DEF c
<1>3. IsValidCodepoint(c, 2) <=> x >= 2
  BY <1>1, ValidCodepoints, SMT
<1>4. 128 <= c /\ c <= 2047 => Encode(c) = <<192 + (c \div 64), 128 + (c % 64)>>
  <2>1. c \in Nat
    BY <1>1
  <2>2. QED
    BY <2>1, EncodeTwo, SMT
<1>5. x >= 2 => Encode(c) = <<192 + x, 128 + y>>
  BY <1>1, <1>2, <1>4, SMT
<1>6. QED
  BY <1>1, <1>3, <1>5, SMT DEF c

ThreeOf(x, y, z) == <<224 + x, 128 + y, 128 + z>>
FourOf(x, y, z, w) == <<240 + x, 128 + y, 128 + z, 128 + w>>

\* Neither too long an encoding nor a surrogate, nor behind the last code point.
ThreeWell(x, y) == (x = 0 => y >= 32) /\ (x = 13 => y <= 31)
FourWell(x, y) == x <= 4 /\ (x = 0 => y >= 16) /\ (x = 4 => y <= 15)

LEMMA ThreeDigits ==
  ASSUME NEW x \in 0 .. 15, NEW y \in 0 .. 63, NEW z \in 0 .. 63
  PROVE  /\ Three(x, y, z) \in Nat
         /\ IsValidCodepoint(Three(x, y, z), 3) <=> ThreeWell(x, y)
         /\ ThreeWell(x, y) => Encode(Three(x, y, z)) = ThreeOf(x, y, z)
<1> USE DEF ThreeWell
<1> DEFINE c == Three(x, y, z)
           well == ThreeWell(x, y)
<1>1. /\ c \in Nat /\ c <= 65535 /\ (2048 <= c <=> (x = 0 => y >= 32))
      /\ 55296 <= c /\ c <= 57343 <=> ~ (x = 13 => y <= 31)
  BY SMT DEF Three
<1>2. c \div 4096 = x /\ (c \div 64) % 64 = y /\ c % 64 = z
  <2>1. c \div 4096 = x
    BY SMT DEF Three
  <2>2. (c \div 64) % 64 = y
    BY SMT DEF Three
  <2>3. c % 64 = z
    BY SMT DEF Three
  <2> HIDE DEF c
  <2>4. QED
    BY <2>1, <2>2, <2>3, SMT
<1> HIDE DEF c
<1>3. IsValidCodepoint(c, 3) <=> well
  BY <1>1, ValidCodepoints, SMT
<1>4. 2048 <= c /\ c <= 65535 =>
        Encode(c) = <<224 + (c \div 4096), 128 + ((c \div 64) % 64), 128 + (c % 64)>>
  <2>1. c \in Nat
    BY <1>1
  <2>2. QED
    BY <2>1, EncodeThree, SMT
<1>5. well => Encode(c) = ThreeOf(x, y, z)
  <2>1. well => 2048 <= c /\ c <= 65535
    BY <1>1, SMT
  <2> HIDE DEF well
  <2>2. QED
    BY <1>2, <1>4, <2>1, SMT DEF ThreeOf
<1>6. QED
  BY <1>1, <1>3, <1>5, SMT DEF c

LEMMA FourDigits ==
  ASSUME NEW x \in 0 .. 7, NEW y \in 0 .. 63, NEW z \in 0 .. 63, NEW w \in 0 .. 63
  PROVE  /\ Four(x, y, z, w) \in Nat
         /\ IsValidCodepoint(Four(x, y, z, w), 4) <=> FourWell(x, y)
         /\ FourWell(x, y) =>
              Encode(Four(x, y, z, w)) = FourOf(x, y, z, w)
<1> USE DEF FourWell
<1> DEFINE c == Four(x, y, z, w)
           well == FourWell(x, y)
<1>1. /\ c \in Nat /\ (65536 <= c <=> (x = 0 => y >= 16))
      /\ c <= 1114111 <=> x <= 4 /\ (x = 4 => y <= 15)
  BY SMT DEF Four
<1>2. /\ c \div 262144 = x /\ (c \div 4096) % 64 = y
      /\ (c \div 64) % 64 = z /\ c % 64 = w
  <2>1. c \div 262144 = x
    BY SMTT(30) DEF Four
  <2>2. (c \div 4096) % 64 = y
    BY SMTT(30) DEF Four
  <2>3. (c \div 64) % 64 = z
    <3>1. c \div 64 = Three(x, y, z)
      BY SMTT(30) DEF Four, Three
    <3>2. Three(x, y, z) % 64 = z
      BY SMTT(30) DEF Three
    <3> HIDE DEF c
    <3>3. QED
      BY <3>1, <3>2, SMT
  <2>4. c % 64 = w
    BY SMTT(30) DEF Four
  <2> HIDE DEF c
  <2>5. QED
    BY <2>1, <2>2, <2>3, <2>4, SMT
<1> HIDE DEF c
<1>3. IsValidCodepoint(c, 4) <=> well
  BY <1>1, ValidCodepoints, SMT
<1>4. 65536 <= c =>
        Encode(c) = <<240 + (c \div 262144), 128 + ((c \div 4096) % 64),
                      128 + ((c \div 64) % 64), 128 + (c % 64)>>
  <2>1. c \in Nat
    BY <1>1
  <2>2. QED
    BY <2>1, EncodeFour, SMT
<1>5. well => Encode(c) = FourOf(x, y, z, w)
  <2>1. well => 65536 <= c
    BY <1>1, SMT
  <2> HIDE DEF well
  <2>2. QED
    BY <1>2, <1>4, <2>1, SMT DEF FourOf
<1>6. QED
  BY <1>1, <1>3, <1>5, SMT DEF c

LEMMA TupleIs ==
  ASSUME NEW w \in Contents
  PROVE  /\ Len(w) = 1 => w = <<w[1]>>
         /\ Len(w) = 2 => w = <<w[1], w[2]>>
         /\ Len(w) = 3 => w = <<w[1], w[2], w[3]>>
         /\ Len(w) = 4 => w = <<w[1], w[2], w[3], w[4]>>
<1> DEFINE B == 0 .. 255
<1>1. w \in Seq(B)
  BY DEF Contents
<1> HIDE DEF B
<1>2. Len(w) = 1 => w = <<w[1]>>
  BY <1>1
<1>3. Len(w) = 2 => w = <<w[1], w[2]>>
  BY <1>1
<1>4. Len(w) = 3 => w = <<w[1], w[2], w[3]>>
  BY <1>1
<1>5. Len(w) = 4 => w = <<w[1], w[2], w[3], w[4]>>
  BY <1>1
<1>6. QED
  BY <1>2, <1>3, <1>4, <1>5

LEMMA BytesAre ==
  ASSUME NEW w \in Contents
  PROVE  Len(w) \in Nat /\ \A k \in 1 .. Len(w) : w[k] \in 0 .. 255
<1> DEFINE B == 0 .. 255
<1>1. w \in Seq(B)
  BY DEF Contents
<1> HIDE DEF B
<1>2. Len(w) \in Nat /\ \A k \in 1 .. Len(w) : w[k] \in B
  BY <1>1
<1>3. QED
  BY <1>2 DEF B

\* What the bytes of the table hold, spelled out for each length.
LEMMA WellFormedIs ==
  ASSUME NEW w, Len(w) \in Nat
  PROVE  /\ Len(w) = 1 => (WellFormedSequence(w) <=> w[1] <= 127)
         /\ Len(w) = 2 => (WellFormedSequence(w) <=>
                             w[1] \in 194 .. 223 /\ IsContinuation(w[2]))
         /\ Len(w) = 3 => (WellFormedSequence(w) <=>
                             /\ w[1] \in 224 .. 239
                             /\ IsContinuation(w[2]) /\ IsContinuation(w[3])
                             /\ w[1] = 224 => w[2] >= 160
                             /\ w[1] = 237 => w[2] <= 159)
         /\ Len(w) = 4 => (WellFormedSequence(w) <=>
                             /\ w[1] \in 240 .. 244
                             /\ IsContinuation(w[2]) /\ IsContinuation(w[3])
                             /\ IsContinuation(w[4])
                             /\ w[1] = 240 => w[2] >= 144
                             /\ w[1] = 244 => w[2] <= 143)
         /\ WellFormedSequence(w) => Len(w) \in 1 .. 4
<1> DEFINE n == Len(w)
           one == w[1] <= 127
           two == w[1] \in 194 .. 223 /\ IsContinuation(w[2])
           three == /\ w[1] \in 224 .. 239
                    /\ IsContinuation(w[2]) /\ IsContinuation(w[3])
                    /\ w[1] = 224 => w[2] >= 160
                    /\ w[1] = 237 => w[2] <= 159
           four == /\ w[1] \in 240 .. 244
                   /\ \A i \in 2 .. 4 : IsContinuation(w[i])
                   /\ w[1] = 240 => w[2] >= 144
                   /\ w[1] = 244 => w[2] <= 143
<1>1. WellFormedSequence(w) =
        CASE n = 1 -> one [] n = 2 -> two [] n = 3 -> three [] n = 4 -> four
          [] OTHER -> FALSE
  BY DEF WellFormedSequence
<1>2. four <=> /\ w[1] \in 240 .. 244
               /\ IsContinuation(w[2]) /\ IsContinuation(w[3]) /\ IsContinuation(w[4])
               /\ w[1] = 240 => w[2] >= 144
               /\ w[1] = 244 => w[2] <= 143
  <2>1. (\A i \in 2 .. 4 : IsContinuation(w[i])) <=>
          IsContinuation(w[2]) /\ IsContinuation(w[3]) /\ IsContinuation(w[4])
    <3>1. \A i : i \in 2 .. 4 <=> i = 2 \/ i = 3 \/ i = 4
      OBVIOUS
    <3>2. QED
      BY <3>1
  <2>2. QED
    BY <2>1
<1> HIDE DEF one, two, three, four
<1>3. /\ n = 1 => (WellFormedSequence(w) <=> one)
      /\ n = 2 => (WellFormedSequence(w) <=> two)
      /\ n = 3 => (WellFormedSequence(w) <=> three)
      /\ n = 4 => (WellFormedSequence(w) <=> four)
      /\ n \notin 1 .. 4 => ~ WellFormedSequence(w)
  BY <1>1, SMTT(30)
<1>4. n = 1 => (WellFormedSequence(w) <=> w[1] <= 127)
  BY <1>3 DEF one
<1>5. n = 2 => (WellFormedSequence(w) <=> w[1] \in 194 .. 223 /\ IsContinuation(w[2]))
  BY <1>3 DEF two
<1>6. n = 3 => (WellFormedSequence(w) <=>
                  /\ w[1] \in 224 .. 239
                  /\ IsContinuation(w[2]) /\ IsContinuation(w[3])
                  /\ w[1] = 224 => w[2] >= 160
                  /\ w[1] = 237 => w[2] <= 159)
  BY <1>3 DEF three
<1>7. n = 4 => (WellFormedSequence(w) <=>
                  /\ w[1] \in 240 .. 244
                  /\ IsContinuation(w[2]) /\ IsContinuation(w[3]) /\ IsContinuation(w[4])
                  /\ w[1] = 240 => w[2] >= 144
                  /\ w[1] = 244 => w[2] <= 143)
  BY <1>2, <1>3
<1>8. WellFormedSequence(w) => n \in 1 .. 4
  BY <1>3
<1>9. QED
  BY <1>4, <1>5, <1>6, <1>7, <1>8, ZenonT(60)

LEMMA LengthIs ==
  ASSUME NEW b \in 0 .. 255
  PROVE  /\ b <= 127 <=> Utf8SequenceLength(b) = 1
         /\ b \in 192 .. 223 <=> Utf8SequenceLength(b) = 2
         /\ b \in 224 .. 239 <=> Utf8SequenceLength(b) = 3
         /\ b \in 240 .. 247 <=> Utf8SequenceLength(b) = 4
         /\ Utf8SequenceLength(b) \in 0 .. 4
         /\ Utf8SequenceLength(b) > 0 => Utf8CharLength(b) = Utf8SequenceLength(b)
<1>1. Utf8SequenceLength(b) \in 0 .. 4
  BY DEF Utf8SequenceLength
<1>2. b <= 127 <=> Utf8SequenceLength(b) = 1
  BY DEF Utf8SequenceLength
<1>3. b \in 192 .. 223 <=> Utf8SequenceLength(b) = 2
  BY DEF Utf8SequenceLength
<1>4. b \in 224 .. 239 <=> Utf8SequenceLength(b) = 3
  BY DEF Utf8SequenceLength
<1>5. b \in 240 .. 247 <=> Utf8SequenceLength(b) = 4
  BY DEF Utf8SequenceLength
<1>6. Utf8SequenceLength(b) > 0 => Utf8CharLength(b) = Utf8SequenceLength(b)
  BY DEF Utf8SequenceLength, Utf8CharLength
<1>7. QED
  BY <1>1, <1>2, <1>3, <1>4, <1>5, <1>6, Zenon

\* The first byte of a well-formed sequence tells its length, and is no
\* continuation byte; the others are.
LEMMA WellFormedStarts ==
  ASSUME NEW w \in Contents, WellFormedSequence(w)
  PROVE  /\ Len(w) \in 1 .. 4 /\ Utf8SequenceLength(w[1]) = Len(w)
         /\ Utf8CharLength(w[1]) = Len(w)
         /\ ~ IsContinuation(w[1]) /\ \A k \in 2 .. Len(w) : IsContinuation(w[k])
<1> DEFINE n == Len(w)
           p == w[1]
<1>1. n \in 1 .. 4
  BY BytesAre, WellFormedIs
<1>2. p \in 0 .. 255
  <2>1. 1 \in 1 .. n
    BY <1>1
  <2>2. QED
    BY <2>1, BytesAre, Zenon
<1>3. /\ n = 1 => p <= 127
      /\ n = 2 => p \in 192 .. 223 /\ IsContinuation(w[2])
      /\ n = 3 => p \in 224 .. 239 /\ IsContinuation(w[2]) /\ IsContinuation(w[3])
      /\ n = 4 => /\ p \in 240 .. 247 /\ IsContinuation(w[2])
                  /\ IsContinuation(w[3]) /\ IsContinuation(w[4])
  <2>1. n = 1 => p <= 127
    BY <1>1, WellFormedIs
  <2>2. n = 2 => p \in 194 .. 223 /\ IsContinuation(w[2])
    <3>1. n \in Nat
      BY BytesAre
    <3>2. n = 2 => (WellFormedSequence(w) <=> p \in 194 .. 223 /\ IsContinuation(w[2]))
      BY <3>1, WellFormedIs, Zenon
    <3> HIDE DEF n, p
    <3>3. QED
      BY <3>2, Zenon
  <2>3. n = 3 => p \in 224 .. 239 /\ IsContinuation(w[2]) /\ IsContinuation(w[3])
    BY <1>1, WellFormedIs
  <2>4. n = 4 => /\ p \in 240 .. 244 /\ IsContinuation(w[2])
                 /\ IsContinuation(w[3]) /\ IsContinuation(w[4])
    BY <1>1, WellFormedIs
  <2>5. p \in 194 .. 223 => p \in 192 .. 223
    OBVIOUS
  <2>6. p \in 240 .. 244 => p \in 240 .. 247
    OBVIOUS
  <2> HIDE DEF n, p
  <2>7. QED
    BY <2>1, <2>2, <2>3, <2>4, <2>5, <2>6, ZenonT(60)
<1> HIDE DEF p
<1>4. Utf8SequenceLength(p) = n /\ Utf8CharLength(p) = n
  <2>1. n = 1 \/ n = 2 \/ n = 3 \/ n = 4
    BY <1>1
  <2>2. Utf8SequenceLength(p) = n
    <3> HIDE DEF n
    <3>1. CASE n = 1
      BY <1>2, <1>3, <3>1, LengthIs
    <3>2. CASE n = 2
      BY <1>2, <1>3, <3>2, LengthIs
    <3>3. CASE n = 3
      BY <1>2, <1>3, <3>3, LengthIs
    <3>4. CASE n = 4
      BY <1>2, <1>3, <3>4, LengthIs
    <3>5. QED
      BY <2>1, <3>1, <3>2, <3>3, <3>4
  <2>3. n > 0
    BY <1>1
  <2> HIDE DEF n
  <2>4. Utf8CharLength(p) = n
    BY <1>2, <2>2, <2>3, LengthIs, Zenon
  <2>5. QED
    BY <2>2, <2>4
<1>5. ~ IsContinuation(p)
  <2>1. p \in 128 .. 191 => ~ (p <= 127)
    OBVIOUS
  <2>2. p \in 128 .. 191 => ~ (p \in 192 .. 223)
    OBVIOUS
  <2>3. p \in 128 .. 191 => ~ (p \in 224 .. 239)
    OBVIOUS
  <2>4. p \in 128 .. 191 => ~ (p \in 240 .. 247)
    OBVIOUS
  <2>5. n = 1 \/ n = 2 \/ n = 3 \/ n = 4
    BY <1>1
  <2> HIDE DEF n
  <2>6. QED
    BY <1>3, <2>1, <2>2, <2>3, <2>4, <2>5, ZenonT(60) DEF IsContinuation
<1>6. \A k \in 2 .. n : IsContinuation(w[k])
  <2> SUFFICES ASSUME NEW k \in 2 .. n PROVE IsContinuation(w[k])
    OBVIOUS
  <2> HIDE DEF n
  <2>1. \/ n = 2 /\ k = 2
        \/ n = 3 /\ (k = 2 \/ k = 3)
        \/ n = 4 /\ (k = 2 \/ k = 3 \/ k = 4)
    BY <1>1
  <2>2. QED
    BY <1>3, <2>1
<1>7. QED
  BY <1>1, <1>4, <1>5, <1>6 DEF p

LEMMA ThreeBytes ==
  ASSUME NEW w \in Contents, Len(w) = 3, w[1] \in 224 .. 239,
         IsContinuation(w[2]), IsContinuation(w[3])
  PROVE  /\ IsValidCodepoint(Assemble(w), 3) <=> WellFormedSequence(w)
         /\ WellFormedSequence(w) => Encode(Assemble(w)) = w
<1> DEFINE p == w[1]
           q == w[2]
           r == w[3]
           x == p - 224
           y == q - 128
           z == r - 128
<1>1. p % 16 = x /\ x \in 0 .. 15 /\ p = 224 + x
  BY MaskedThree
<1>2. q % 64 = y /\ y \in 0 .. 63 /\ q = 128 + y
  BY MaskedRest
<1>3. r % 64 = z /\ z \in 0 .. 63 /\ r = 128 + z
  BY MaskedRest
<1>4. w = <<p, q, r>>
  BY TupleIs
<1>5. Assemble(w) = 4096 * (p % 16) + 64 * (q % 64) + (r % 64)
  BY SMT DEF Assemble
<1>6. WellFormedSequence(w) <=> (p = 224 => q >= 160) /\ (p = 237 => q <= 159)
  BY WellFormedIs
<1> HIDE DEF x, y, z, p, q, r
<1>7. (p = 224 => q >= 160) /\ (p = 237 => q <= 159) <=> ThreeWell(x, y)
  BY <1>1, <1>2 DEF ThreeWell
<1>8. Assemble(w) = Three(x, y, z)
  BY <1>1, <1>2, <1>3, <1>5, SMT DEF Three
<1>9. ThreeOf(x, y, z) = w
  BY <1>1, <1>2, <1>3, <1>4 DEF ThreeOf
<1>10. x \in 0 .. 15 /\ y \in 0 .. 63 /\ z \in 0 .. 63
  BY <1>1, <1>2, <1>3
<1>11. IsValidCodepoint(Three(x, y, z), 3) <=> ThreeWell(x, y)
  BY <1>10, ThreeDigits, Zenon
<1>12. ThreeWell(x, y) => Encode(Three(x, y, z)) = ThreeOf(x, y, z)
  BY <1>10, ThreeDigits, Zenon
<1>13. QED
  BY <1>6, <1>7, <1>8, <1>9, <1>11, <1>12, Zenon

LEMMA FourBytes ==
  ASSUME NEW w \in Contents, Len(w) = 4, w[1] \in 240 .. 247,
         IsContinuation(w[2]), IsContinuation(w[3]), IsContinuation(w[4])
  PROVE  /\ IsValidCodepoint(Assemble(w), 4) <=> WellFormedSequence(w)
         /\ WellFormedSequence(w) => Encode(Assemble(w)) = w
<1> DEFINE p == w[1]
           q == w[2]
           r == w[3]
           s == w[4]
           x == p - 240
           y == q - 128
           z == r - 128
           u == s - 128
<1>1. p % 8 = x /\ x \in 0 .. 7 /\ p = 240 + x
  BY MaskedFour
<1>2. q % 64 = y /\ y \in 0 .. 63 /\ q = 128 + y
  BY MaskedRest
<1>3. r % 64 = z /\ z \in 0 .. 63 /\ r = 128 + z
  BY MaskedRest
<1>4. s % 64 = u /\ u \in 0 .. 63 /\ s = 128 + u
  BY MaskedRest
<1>5. w = <<p, q, r, s>>
  BY TupleIs
<1>6. Assemble(w) = 262144 * (p % 8) + 4096 * (q % 64) + 64 * (r % 64) + (s % 64)
  BY SMT DEF Assemble
<1>7. WellFormedSequence(w) <=>
        p \in 240 .. 244 /\ (p = 240 => q >= 144) /\ (p = 244 => q <= 143)
  BY WellFormedIs
<1> HIDE DEF x, y, z, u, p, q, r, s
<1>8. p \in 240 .. 244 /\ (p = 240 => q >= 144) /\ (p = 244 => q <= 143) <=> FourWell(x, y)
  BY <1>1, <1>2 DEF FourWell
<1>9. Assemble(w) = Four(x, y, z, u)
  BY <1>1, <1>2, <1>3, <1>4, <1>6, SMT DEF Four
<1>10. FourOf(x, y, z, u) = w
  BY <1>1, <1>2, <1>3, <1>4, <1>5 DEF FourOf
<1>11. x \in 0 .. 7 /\ y \in 0 .. 63 /\ z \in 0 .. 63 /\ u \in 0 .. 63
  BY <1>1, <1>2, <1>3, <1>4
<1>12. IsValidCodepoint(Four(x, y, z, u), 4) <=> FourWell(x, y)
  BY <1>11, FourDigits, Zenon
<1>13. FourWell(x, y) => Encode(Four(x, y, z, u)) = FourOf(x, y, z, u)
  BY <1>11, FourDigits, Zenon
<1>14. QED
  BY <1>7, <1>8, <1>9, <1>10, <1>12, <1>13, Zenon

\* Of bytes of which the first tells their number and the others are
\* continuation bytes, the decoder accepts those the table has, and it
\* assembles the code point whose encoding they are.
LEMMA AssembledIs ==
  ASSUME NEW w \in Contents, Len(w) \in 1 .. 4, Utf8SequenceLength(w[1]) = Len(w),
         \A k \in 2 .. Len(w) : IsContinuation(w[k])
  PROVE  /\ Len(w) = 1 => WellFormedSequence(w) /\ Encode(w[1]) = w
         /\ Len(w) > 1 =>
              /\ IsValidCodepoint(Assemble(w), Len(w)) <=> WellFormedSequence(w)
              /\ WellFormedSequence(w) => Encode(Assemble(w)) = w
<1> DEFINE p == w[1]
           q == w[2]
           r == w[3]
           s == w[4]
<1>1. \A k \in 1 .. Len(w) : w[k] \in 0 .. 255
  BY BytesAre
<1>2. p \in 0 .. 255
  <2>1. 1 \in 1 .. Len(w)
    OBVIOUS
  <2>2. QED
    BY <1>1, <2>1, Zenon
<1>3. CASE Len(w) = 1
  <2>1. p <= 127
    BY <1>2, <1>3, LengthIs
  <2>2. WellFormedSequence(w)
    BY <1>3, <2>1, WellFormedIs
  <2>3. Encode(p) = <<p>>
    BY <2>1 DEF Encode
  <2>4. w = <<p>>
    BY <1>3, TupleIs
  <2> HIDE DEF p
  <2>5. Encode(p) = w
    BY <2>3, <2>4
  <2>6. QED
    BY <1>3, <2>2, <2>5 DEF p
<1>4. CASE Len(w) = 2
  <2>1. p \in 192 .. 223 /\ IsContinuation(q) /\ q \in 0 .. 255
    <3>1. 2 \in 2 .. Len(w) /\ 2 \in 1 .. Len(w)
      BY <1>4
    <3>2. QED
      BY <1>1, <1>2, <1>4, <3>1, LengthIs
  <2>2. w = <<p, q>>
    BY <1>4, TupleIs
  <2>3. Assemble(w) = 64 * (p % 32) + (q % 64)
    BY <1>4 DEF Assemble
  <2>4. WellFormedSequence(w) <=> p \in 194 .. 223
    BY <1>4, <2>1, WellFormedIs
  <2> DEFINE x == p - 192
             y == q - 128
  <2> HIDE DEF p, q
  <2>5. p % 32 = x /\ x \in 0 .. 31 /\ p = 192 + x
    BY <2>1, MaskedTwo
  <2>6. q % 64 = y /\ y \in 0 .. 63 /\ q = 128 + y
    BY <2>1, MaskedRest
  <2>7. p \in 194 .. 223 <=> x >= 2
    BY <2>1
  <2> HIDE DEF x, y
  <2>8. Assemble(w) = Two(x, y)
    BY <2>3, <2>5, <2>6 DEF Two
  <2>9. /\ IsValidCodepoint(Two(x, y), 2) <=> x >= 2
        /\ x >= 2 => Encode(Two(x, y)) = <<192 + x, 128 + y>>
    <3>1. x \in 0 .. 31 /\ y \in 0 .. 63
      BY <2>5, <2>6
    <3>2. QED
      BY <3>1, TwoDigits, ZenonT(60)
  <2>10. QED
    BY <1>4, <2>2, <2>4, <2>5, <2>6, <2>7, <2>8, <2>9
<1>5. CASE Len(w) = 3
  <2>1. 2 \in 2 .. Len(w) /\ 3 \in 2 .. Len(w)
    BY <1>5
  <2>2. IsContinuation(w[2]) /\ IsContinuation(w[3])
    BY <2>1, Zenon
  <2>3. w[1] \in 224 .. 239
    BY <1>2, <1>5, LengthIs
  <2>4. /\ IsValidCodepoint(Assemble(w), 3) <=> WellFormedSequence(w)
        /\ WellFormedSequence(w) => Encode(Assemble(w)) = w
    BY <1>5, <2>2, <2>3, ThreeBytes, Zenon
  <2>5. QED
    BY <1>5, <2>4
<1>6. CASE Len(w) = 4
  <2>1. 2 \in 2 .. Len(w) /\ 3 \in 2 .. Len(w) /\ 4 \in 2 .. Len(w)
    BY <1>6
  <2>2. IsContinuation(w[2]) /\ IsContinuation(w[3]) /\ IsContinuation(w[4])
    BY <2>1, Zenon
  <2>3. w[1] \in 240 .. 247
    BY <1>2, <1>6, LengthIs
  <2>4. /\ IsValidCodepoint(Assemble(w), 4) <=> WellFormedSequence(w)
        /\ WellFormedSequence(w) => Encode(Assemble(w)) = w
    BY <1>6, <2>2, <2>3, FourBytes, Zenon
  <2>5. QED
    BY <1>6, <2>4
<1>7. QED
  BY <1>3, <1>4, <1>5, <1>6

LEMMA DecodeIs ==
  ASSUME NEW t \in Contents, Len(t) >= 1
  PROVE  LET n == Utf8SequenceLength(t[1])
             w == SubSeq(t, 1, n)
         IN  /\ n = 0 \/ Len(t) < n => Decode(t).cp = kInvalidUnicodePoint
             /\ n = 1 => Decode(t).cp = t[1] /\ Decode(t).len = 1
             /\ n > 1 /\ n <= Len(t) =>
                  IF IsValidCodepoint(Assemble(w), n)
                  THEN Decode(t).cp = Assemble(w) /\ Decode(t).len = n
                  ELSE Decode(t).cp = kInvalidUnicodePoint
<1> DEFINE n == Utf8SequenceLength(t[1])
           w == SubSeq(t, 1, n)
           bad == Decoded(kInvalidUnicodePoint, 1)
           d == Decode(t)
<1>1. Head(t) = t[1] /\ Len(t) \in Nat
  BY DEF Contents
<1>2. n \in 0 .. 4
  BY DEF Utf8SequenceLength
<1>3. d = IF n = 0 \/ Len(t) < n THEN bad
          ELSE IF n = 1 THEN Decoded(t[1], 1)
          ELSE IF ~ IsValidCodepoint(Assemble(w), n) THEN bad
          ELSE Decoded(Assemble(w), n)
  BY <1>1 DEF Decode
<1>4. \A c, l : Decoded(c, l).cp = c /\ Decoded(c, l).len = l
  BY DEF Decoded
<1>5. bad.cp = kInvalidUnicodePoint
  BY <1>4
<1> HIDE DEF n, w, bad, d
<1>6. n = 0 \/ Len(t) < n => d.cp = kInvalidUnicodePoint
  BY <1>3, <1>5
<1>7. n = 1 => d.cp = t[1] /\ d.len = 1
  <2>1. n = 1 => ~ (n = 0) /\ ~ (Len(t) < n)
    BY <1>1
  <2>2. QED
    BY <1>3, <1>4, <2>1
<1>8. n > 1 /\ n <= Len(t) =>
        IF IsValidCodepoint(Assemble(w), n)
        THEN d.cp = Assemble(w) /\ d.len = n
        ELSE d.cp = kInvalidUnicodePoint
  <2>1. n > 1 /\ n <= Len(t) => ~ (n = 0) /\ ~ (Len(t) < n) /\ ~ (n = 1)
    BY <1>1, <1>2
  <2>2. QED
    BY <1>3, <1>4, <1>5, <2>1
<1>9. QED
  BY <1>6, <1>7, <1>8 DEF n, w, d

\* Where a well-formed sequence begins the decoder finds its code point.
LEMMA DecodeWell ==
  ASSUME NEW t \in Contents, NEW l \in 1 .. Len(t), WellFormedSequence(SubSeq(t, 1, l))
  PROVE  /\ Decode(t).len = l /\ Encode(Decode(t).cp) = SubSeq(t, 1, l)
         /\ Utf8SequenceLength(t[1]) = l /\ Utf8CharLength(t[1]) = l
         /\ ~ IsContinuation(t[1])
<1> DEFINE w == SubSeq(t, 1, l)
<1>1. Len(t) \in Nat /\ Len(t) >= 1
  BY BytesAre
<1>2. w \in Contents /\ Len(w) = l /\ \A k \in 1 .. l : w[k] = t[k]
  <2>1. 1 \in 1 .. Len(t) + 1 /\ l \in 1 - 1 .. Len(t) /\ l - 1 + 1 = l
    BY <1>1
  <2>2. /\ w \in Contents /\ Len(w) = l - 1 + 1
        /\ \A k \in 1 .. l - 1 + 1 : w[k] = t[1 + k - 1]
    BY <2>1, PartIs, ZenonT(60)
  <2> HIDE DEF w
  <2>3. QED
    BY <2>1, <2>2
<1>3. w[1] = t[1]
  BY <1>1, <1>2
<1> HIDE DEF w
<1>4. WellFormedSequence(w)
  BY DEF w
<1>5. /\ Len(w) \in 1 .. 4 /\ Utf8SequenceLength(w[1]) = Len(w)
      /\ Utf8CharLength(w[1]) = Len(w) /\ ~ IsContinuation(w[1])
      /\ \A k \in 2 .. Len(w) : IsContinuation(w[k])
  BY <1>2, <1>4, WellFormedStarts
<1>6. Utf8SequenceLength(t[1]) = l /\ Utf8CharLength(t[1]) = l /\ ~ IsContinuation(t[1])
  BY <1>2, <1>3, <1>5
<1>7. CASE l = 1
  <2>1. Decode(t).cp = t[1] /\ Decode(t).len = 1
    BY <1>1, <1>6, <1>7, DecodeIs
  <2>2. Encode(w[1]) = w
    BY <1>2, <1>5, <1>7, AssembledIs
  <2>3. QED
    BY <1>3, <1>6, <1>7, <2>1, <2>2 DEF w
<1>8. CASE l > 1
  <2>1. IsValidCodepoint(Assemble(w), l) /\ Encode(Assemble(w)) = w
    BY <1>2, <1>4, <1>5, <1>8, AssembledIs
  <2>2. Decode(t).cp = Assemble(w) /\ Decode(t).len = l
    <3>1. l <= Len(t)
      BY <1>1
    <3>2. QED
      BY <1>1, <1>6, <1>8, <2>1, <3>1, DecodeIs DEF w
  <2>3. QED
    BY <1>6, <2>1, <2>2 DEF w
<1>9. QED
  BY <1>7, <1>8

\* What the decoder accepts is well-formed, if continuation bytes are where the
\* first byte says so.
LEMMA DecodeSound ==
  ASSUME NEW t \in Contents, Len(t) >= 1, Decode(t).cp # kInvalidUnicodePoint,
         \A k \in 2 .. Utf8SequenceLength(t[1]) : k <= Len(t) => IsContinuation(t[k])
  PROVE  /\ Decode(t).len \in 1 .. Len(t)
         /\ WellFormedSequence(SubSeq(t, 1, Decode(t).len))
<1> DEFINE l == Utf8SequenceLength(t[1])
           w == SubSeq(t, 1, l)
<1>1. Len(t) \in Nat
  BY BytesAre
<1>2. l \in 0 .. 4
  BY DEF Utf8SequenceLength
<1>3. l # 0 /\ ~ (Len(t) < l)
  BY DecodeIs
<1>4. l \in 1 .. 4 /\ l \in 1 .. Len(t)
  BY <1>1, <1>2, <1>3
<1>5. w \in Contents /\ Len(w) = l /\ \A k \in 1 .. l : w[k] = t[k]
  <2>1. 1 \in 1 .. Len(t) + 1 /\ l \in 1 - 1 .. Len(t) /\ l - 1 + 1 = l
    BY <1>1, <1>4
  <2>2. /\ w \in Contents /\ Len(w) = l - 1 + 1
        /\ \A k \in 1 .. l - 1 + 1 : w[k] = t[1 + k - 1]
    BY <2>1, PartIs, ZenonT(60)
  <2> HIDE DEF w, l
  <2>3. QED
    BY <2>1, <2>2
<1>6. Decode(t).len = l
  <2>1. CASE l = 1
    BY <2>1, DecodeIs
  <2>2. CASE l > 1
    <3>1. l <= Len(t)
      BY <1>4
    <3>2. QED
      BY <2>2, <3>1, DecodeIs
  <2>3. QED
    BY <1>4, <2>1, <2>2
<1>7. l > 1 => IsValidCodepoint(Assemble(w), l)
  <2>1. l <= Len(t)
    BY <1>4
  <2>2. QED
    BY <2>1, DecodeIs
<1>8. \A k \in 2 .. l : IsContinuation(t[k])
  BY <1>1, <1>4
<1>9. Utf8SequenceLength(t[1]) = l
  OBVIOUS
<1> HIDE DEF w, l
<1>10. Utf8SequenceLength(w[1]) = Len(w) /\ \A k \in 2 .. Len(w) : IsContinuation(w[k])
  BY <1>4, <1>5, <1>8, <1>9
<1>11. WellFormedSequence(w)
  <2>1. Len(w) \in 1 .. 4 /\ w \in Contents
    BY <1>4, <1>5
  <2>2. /\ Len(w) = 1 => WellFormedSequence(w)
        /\ Len(w) > 1 => (IsValidCodepoint(Assemble(w), Len(w)) <=> WellFormedSequence(w))
    BY <1>10, <2>1, AssembledIs, Zenon
  <2>3. Len(w) = 1 \/ Len(w) > 1
    BY <2>1
  <2>4. QED
    BY <1>5, <1>7, <2>2, <2>3
<1>12. QED
  BY <1>4, <1>6, <1>11 DEF w

-----------------------------------------------------------------------------
(* The code points of a content *)

\* What the decoder finds at the i-th byte.
DecodedAt(content, i) == Decode(SubSeq(content, i, Len(content)))

\* A sequence of so many bytes begins there.
Begins(content, i, l) ==
  /\ i \in 1 .. Len(content) /\ l \in 1 .. Len(content) + 1 - i
  /\ WellFormedSequence(SubSeq(content, i, i + l - 1))

LEMMA TailIs ==
  ASSUME NEW c \in Contents, NEW i \in 1 .. Len(c)
  PROVE  LET t == SubSeq(c, i, Len(c))
         IN  /\ t \in Contents /\ Len(t) = Len(c) + 1 - i /\ Len(t) >= 1
             /\ \A k \in 1 .. Len(t) : t[k] = c[i + k - 1]
             /\ t[1] = c[i]
             /\ \A l \in 1 .. Len(t) : SubSeq(t, 1, l) = SubSeq(c, i, i + l - 1)
<1> DEFINE n == Len(c)
           t == SubSeq(c, i, n)
<1>1. n \in Nat /\ i \in 1 .. n + 1 /\ n \in i - 1 .. n /\ n - i + 1 = n + 1 - i
  BY BytesAre
<1>2. /\ t \in Contents /\ Len(t) = n - i + 1
      /\ \A k \in 1 .. n - i + 1 : t[k] = c[i + k - 1]
  BY <1>1, PartIs, ZenonT(60)
<1> HIDE DEF t
<1>3. Len(t) = n + 1 - i /\ Len(t) >= 1 /\ Len(t) \in Nat
  BY <1>1, <1>2
<1>4. \A k \in 1 .. Len(t) : t[k] = c[i + k - 1]
  BY <1>1, <1>2
<1>5. t[1] = c[i]
  <2>1. 1 \in 1 .. Len(t) /\ i + 1 - 1 = i
    BY <1>3
  <2>2. QED
    BY <1>4, <2>1
<1>6. ASSUME NEW l \in 1 .. Len(t)
      PROVE  SubSeq(t, 1, l) = SubSeq(c, i, i + l - 1)
  <2> DEFINE a == SubSeq(t, 1, l)
             b == SubSeq(c, i, i + l - 1)
  <2>1. /\ 1 \in 1 .. Len(t) + 1 /\ l \in 1 - 1 .. Len(t) /\ l - 1 + 1 = l
        /\ i + l - 1 \in i - 1 .. n /\ (i + l - 1) - i + 1 = l
    BY <1>1, <1>3
  <2>2. /\ a \in Contents /\ Len(a) = l - 1 + 1
        /\ \A k \in 1 .. l - 1 + 1 : a[k] = t[1 + k - 1]
    BY <1>2, <2>1, PartIs, ZenonT(60)
  <2>3. /\ b \in Contents /\ Len(b) = (i + l - 1) - i + 1
        /\ \A k \in 1 .. (i + l - 1) - i + 1 : b[k] = c[i + k - 1]
    BY <1>1, <2>1, PartIs, ZenonT(60)
  <2> HIDE DEF a, b
  <2>4. Len(a) = l /\ Len(b) = l
    BY <2>1, <2>2, <2>3
  <2>5. ASSUME NEW k \in 1 .. l PROVE a[k] = b[k]
    <3>1. k \in 1 .. l - 1 + 1 /\ k \in 1 .. (i + l - 1) - i + 1 /\ 1 + k - 1 = k
          /\ k \in 1 .. Len(t)
      BY <1>3, <2>1
    <3>2. a[k] = t[k] /\ b[k] = c[i + k - 1] /\ t[k] = c[i + k - 1]
      BY <1>4, <2>2, <2>3, <3>1
    <3>3. QED
      BY <3>2
  <2>6. a = b
    BY <2>2, <2>3, <2>4, <2>5 DEF Contents
  <2>7. QED
    BY <2>6 DEF a, b
<1>7. QED
  BY <1>2, <1>3, <1>4, <1>5, <1>6 DEF t

LEMMA DecodedWell ==
  ASSUME NEW c \in Contents, NEW i, NEW l, Begins(c, i, l)
  PROVE  /\ DecodedAt(c, i).len = l
         /\ Encode(DecodedAt(c, i).cp) = SubSeq(c, i, i + l - 1)
         /\ Utf8CharLength(c[i]) = l /\ ~ IsContinuation(c[i])
<1> DEFINE t == SubSeq(c, i, Len(c))
<1>1. /\ i \in 1 .. Len(c) /\ l \in 1 .. Len(c) + 1 - i
      /\ WellFormedSequence(SubSeq(c, i, i + l - 1))
  BY DEF Begins
<1>2. /\ t \in Contents /\ Len(t) = Len(c) + 1 - i /\ t[1] = c[i]
      /\ \A m \in 1 .. Len(t) : SubSeq(t, 1, m) = SubSeq(c, i, i + m - 1)
  BY <1>1, TailIs
<1>3. DecodedAt(c, i) = Decode(t)
  BY DEF DecodedAt
<1> HIDE DEF t
<1>4. l \in 1 .. Len(t) /\ SubSeq(t, 1, l) = SubSeq(c, i, i + l - 1)
  BY <1>1, <1>2
<1>5. WellFormedSequence(SubSeq(t, 1, l))
  BY <1>1, <1>4
<1>6. /\ Decode(t).len = l /\ Encode(Decode(t).cp) = SubSeq(t, 1, l)
      /\ Utf8CharLength(t[1]) = l /\ ~ IsContinuation(t[1])
  BY <1>2, <1>4, <1>5, DecodeWell
<1>7. QED
  BY <1>2, <1>3, <1>4, <1>6

LEMMA DecodedSound ==
  ASSUME NEW c \in Contents, NEW i \in 1 .. Len(c),
         DecodedAt(c, i).cp # kInvalidUnicodePoint,
         \A k \in i + 1 .. i + Utf8SequenceLength(c[i]) - 1 :
           k <= Len(c) => IsContinuation(c[k])
  PROVE  Begins(c, i, DecodedAt(c, i).len)
<1> DEFINE t == SubSeq(c, i, Len(c))
           l == Utf8SequenceLength(c[i])
<1>1. /\ t \in Contents /\ Len(t) = Len(c) + 1 - i /\ Len(t) >= 1
      /\ \A k \in 1 .. Len(t) : t[k] = c[i + k - 1]
      /\ t[1] = c[i]
      /\ \A m \in 1 .. Len(t) : SubSeq(t, 1, m) = SubSeq(c, i, i + m - 1)
  BY TailIs
<1>2. DecodedAt(c, i) = Decode(t)
  BY DEF DecodedAt
<1>3. l \in 0 .. 4 /\ Len(c) \in Nat
  BY BytesAre DEF Utf8SequenceLength
<1> HIDE DEF t, l
<1>4. ASSUME NEW k \in 2 .. l, k <= Len(t)
      PROVE  IsContinuation(t[k])
  <2>1. /\ i + k - 1 \in i + 1 .. i + l - 1 /\ i + k - 1 <= Len(c) /\ k \in 1 .. Len(t)
    BY <1>1, <1>3, <1>4
  <2>2. IsContinuation(c[i + k - 1])
    BY <2>1 DEF l
  <2>3. QED
    BY <1>1, <2>1, <2>2
<1>5. \A k \in 2 .. Utf8SequenceLength(t[1]) : k <= Len(t) => IsContinuation(t[k])
  BY <1>1, <1>4 DEF l
<1>6. Decode(t).len \in 1 .. Len(t) /\ WellFormedSequence(SubSeq(t, 1, Decode(t).len))
  BY <1>1, <1>2, <1>5, DecodeSound
<1>7. QED
  BY <1>1, <1>2, <1>6 DEF Begins

\* A function that is defined from its end, each value by a later one.
StepsOn(n, l) == \A i \in 1 .. n : l[i] \in 1 .. n + 1 - i
Closed(n, V, base, H) == base \in V /\ \A i \in 1 .. n : \A v \in V : H[i][v] \in V
FromItsEnd(f, n, l, V, base, H) ==
  /\ f \in [1 .. n + 1 -> V] /\ f[n + 1] = base
  /\ \A i \in 1 .. n : f[i] = H[i][f[i + l[i]]]

LEMMA Backward ==
  ASSUME NEW n \in Nat, NEW l, StepsOn(n, l), NEW V, NEW base, NEW H, Closed(n, V, base, H)
  PROVE  \E f : FromItsEnd(f, n, l, V, base, H)
<1> USE DEF StepsOn, Closed
<1> DEFINE Behind(f, t) == /\ f \in [t .. n + 1 -> V] /\ f[n + 1] = base
                         /\ \A i \in t .. n : f[i] = H[i][f[i + l[i]]]
           Missing == {k \in 0 .. n : ~ \E f : Behind(f, n + 1 - k)}
<1>1. Missing = {}
  <2> SUFFICES ASSUME Missing # {} PROVE FALSE
    OBVIOUS
  <2>1. Missing \subseteq Nat
    OBVIOUS
  <2>2. PICK k \in Missing : \A j \in Missing : k <= j
    <3> HIDE DEF Missing
    <3>1. QED
      BY <2>1, Least
  <2>3. k # 0
    <3> DEFINE f == [i \in n + 1 .. n + 1 |-> base]
    <3>1. /\ f \in [n + 1 .. n + 1 -> V] /\ f[n + 1] = base
          /\ n + 1 .. n = {} /\ n + 1 - 0 = n + 1
      OBVIOUS
    <3> HIDE DEF f
    <3>2. Behind(f, n + 1)
      BY <3>1
    <3> HIDE DEF Behind
    <3>3. QED
      BY <2>2, <3>1, <3>2
  <2> DEFINE t == n + 1 - k
  <2>4. /\ k - 1 \in 0 .. n /\ ~ (k <= k - 1) /\ n + 1 - (k - 1) = t + 1
        /\ t \in 1 .. n
    BY <2>2, <2>3
  <2>5. PICK f : Behind(f, t + 1)
    <3> HIDE DEF Behind
    <3>1. k - 1 \notin Missing
      BY <2>2, <2>4
    <3>2. QED
      BY <2>4, <3>1
  <2> HIDE DEF t
  <2>6. l[t] \in 1 .. n + 1 - t
    BY <2>4
  <2>7. t + l[t] \in t + 1 .. n + 1
    BY <2>4, <2>6
  <2> DEFINE w == H[t][f[t + l[t]]]
             g == [i \in t .. n + 1 |-> IF i = t THEN w ELSE f[i]]
  <2>8. w \in V
    BY <2>4, <2>5, <2>7
  <2> HIDE DEF w
  <2>9. \A i \in t + 1 .. n + 1 : i \in t .. n + 1 /\ i # t
    BY <2>4
  <2>10. \A i \in t + 1 .. n + 1 : g[i] = f[i]
    BY <2>9
  <2>11. g[t] = w
    BY <2>4
  <2>12. g \in [t .. n + 1 -> V]
    <3>1. \A i \in t .. n + 1 : i = t \/ i \in t + 1 .. n + 1
      BY <2>4
    <3>2. QED
      BY <2>5, <2>8, <3>1
  <2>13. g[n + 1] = base
    BY <2>4, <2>5, <2>10
  <2>14. ASSUME NEW i \in t .. n PROVE g[i] = H[i][g[i + l[i]]]
    <3> HIDE DEF g
    <3>1. CASE i = t
      BY <2>7, <2>10, <2>11, <3>1 DEF w
    <3>2. CASE i # t
      <4>1. i \in t + 1 .. n /\ i \in t + 1 .. n + 1 /\ i \in 1 .. n
        BY <2>4, <3>2
      <4>2. l[i] \in 1 .. n + 1 - i
        BY <4>1
      <4>3. i + l[i] \in t + 1 .. n + 1
        BY <2>4, <4>1, <4>2
      <4>4. g[i] = f[i] /\ g[i + l[i]] = f[i + l[i]]
        BY <2>10, <4>1, <4>3
      <4>5. f[i] = H[i][f[i + l[i]]]
        BY <2>5, <4>1
      <4>6. QED
        BY <4>4, <4>5
    <3>3. QED
      BY <3>1, <3>2
  <2> HIDE DEF g
  <2>15. Behind(g, t)
    BY <2>12, <2>13, <2>14
  <2> HIDE DEF Behind
  <2>16. QED
    BY <2>2, <2>15 DEF t
<1>2. n \in 0 .. n /\ n + 1 - n = 1
  OBVIOUS
<1>3. \E f : Behind(f, 1)
  <2> HIDE DEF Behind
  <2>1. QED
    BY <1>1, <1>2
<1>4. QED
  BY <1>3 DEF FromItsEnd

LEMMA DecodedLengths ==
  ASSUME NEW c \in Contents, NEW i \in 1 .. Len(c)
  PROVE  DecodedAt(c, i).len \in 1 .. Len(c) + 1 - i
<1> DEFINE t == SubSeq(c, i, Len(c))
<1>1. Len(t) = Len(c) + 1 - i /\ Len(t) >= 1
  BY TailIs
<1>2. Len(t) \in Nat
  BY <1>1, BytesAre
<1> HIDE DEF t
<1>3. Decode(t).len \in 1 .. Len(t)
  BY <1>1, <1>2, DecodeLength
<1>4. QED
  BY <1>1, <1>3 DEF DecodedAt, t

\* The loop of decode_bulk(), as the recursion from its end.
LEMMA DecodeBulkRest ==
  ASSUME NEW c \in Contents
  PROVE  \E rest :
           /\ DecodeBulk(c) = rest[1]
           /\ rest[Len(c) + 1] = << >>
           /\ \A i \in 1 .. Len(c) :
                rest[i] = <<DecodedAt(c, i).cp>> \o rest[i + DecodedAt(c, i).len]
<1> DEFINE n == Len(c)
           D(i) == Decode(SubSeq(c, i, n))
           Turn(f, i) == IF i > n THEN << >> ELSE <<D(i).cp>> \o f[i + D(i).len]
           rest == CHOOSE f : f = [i \in 1 .. n + 1 |-> Turn(f, i)]
           S == {D(i).cp : i \in 1 .. n}
           V == Seq(S)
           H == [i \in 1 .. n |-> [v \in V |-> <<D(i).cp>> \o v]]
           l == [i \in 1 .. n |-> D(i).len]
<1>1. n \in Nat
  BY BytesAre
<1>2. DecodeBulk(c) = rest[1]
  BY DEF DecodeBulk
<1>3. \A f : Turn(f, n + 1) = << >>
  BY <1>1
<1>4. \A f, i : i \in 1 .. n => Turn(f, i) = <<D(i).cp>> \o f[i + D(i).len]
  BY <1>1
<1>5. \A i \in 1 .. n : D(i) = DecodedAt(c, i)
  BY DEF DecodedAt
<1>6. \A i \in 1 .. n : D(i).len \in 1 .. n + 1 - i
  <2> TAKE i \in 1 .. n
  <2>1. DecodedAt(c, i).len \in 1 .. n + 1 - i
    BY DecodedLengths
  <2>2. QED
    BY <1>5, <2>1
<1> HIDE DEF Turn
<1>7. \A i \in 1 .. n : D(i).cp \in S
  OBVIOUS
<1> HIDE DEF n, D
<1>8. \A i \in 1 .. n : l[i] = D(i).len
  OBVIOUS
<1> HIDE DEF S
<1>9. ASSUME NEW i \in 1 .. n, NEW v \in V
      PROVE  H[i][v] = <<D(i).cp>> \o v /\ H[i][v] \in V
  <2>1. H[i][v] = <<D(i).cp>> \o v
    BY <1>9
  <2> DEFINE x == D(i).cp
  <2>2. x \in S
    BY <1>7
  <2> HIDE DEF x
  <2>3. <<x>> \in Seq(S)
    BY <2>2
  <2>4. <<x>> \o v \in Seq(S)
    BY <2>3, ConcatProperties
  <2>5. QED
    BY <2>1, <2>4 DEF x
<1>10. << >> \in V
  OBVIOUS
<1>11. \A i \in 1 .. n : i + l[i] = i + D(i).len /\ i + l[i] \in 1 .. n + 1
  <2> TAKE i \in 1 .. n
  <2> DEFINE k == D(i).len
  <2>1. k \in 1 .. n + 1 - i /\ l[i] = k
    BY <1>6, <1>8
  <2> HIDE DEF k, l
  <2>2. QED
    BY <1>1, <2>1 DEF k
<1>12. PICK f : FromItsEnd(f, n, l, V, << >>, H)
  <2>1. StepsOn(n, l)
    BY <1>6, <1>8 DEF StepsOn
  <2>2. Closed(n, V, << >>, H)
    BY <1>9, <1>10 DEF Closed
  <2> HIDE DEF V, H, l
  <2>3. QED
    BY <1>1, <2>1, <2>2, Backward, Zenon
<1> HIDE DEF l, V, H
<1>13. \A i \in 1 .. n + 1 : f[i] = Turn(f, i)
  <2>1. f[n + 1] = Turn(f, n + 1)
    BY <1>3, <1>12 DEF FromItsEnd
  <2>2. ASSUME NEW i \in 1 .. n PROVE f[i] = Turn(f, i)
    <3>1. f[i] = H[i][f[i + l[i]]] /\ f[i + l[i]] \in V
      BY <1>11, <1>12 DEF FromItsEnd
    <3>2. H[i][f[i + l[i]]] = <<D(i).cp>> \o f[i + l[i]]
      BY <1>9, <3>1, Zenon
    <3>3. f[i + l[i]] = f[i + D(i).len]
      BY <1>11, Zenon
    <3>4. Turn(f, i) = <<D(i).cp>> \o f[i + D(i).len]
      BY <1>4, Zenon
    <3>5. QED
      BY <3>1, <3>2, <3>3, <3>4, Zenon
  <2>3. QED
    BY <1>1, <2>1, <2>2
<1>14. f = [i \in 1 .. n + 1 |-> Turn(f, i)]
  BY <1>12, <1>13 DEF FromItsEnd
<1>15. rest = [i \in 1 .. n + 1 |-> Turn(rest, i)]
  BY <1>14
<1> HIDE DEF rest
<1>16. \A i \in 1 .. n + 1 : rest[i] = Turn(rest, i)
  BY <1>15
<1>17. rest[n + 1] = << >>
  BY <1>1, <1>3, <1>16
<1>18. \A i \in 1 .. n : rest[i] = <<DecodedAt(c, i).cp>> \o rest[i + DecodedAt(c, i).len]
  BY <1>1, <1>4, <1>5, <1>16, SMTT(30)
<1>19. QED
  BY <1>2, <1>17, <1>18 DEF n

\* So does the scan of validate_utf8_scalar() fail at a byte.
FailsAt(content, i) ==
  \/ DecodedAt(content, i).cp = kInvalidUnicodePoint
  \/ DecodedAt(content, i).len - 1 >= Len(content) - i + 1

LEMMA FirstInvalidScan ==
  ASSUME NEW c \in Contents
  PROVE  \E scan :
           /\ \A start : FirstInvalid(c, start) = scan[start + 1]
           /\ scan[Len(c) + 1] = 0
           /\ \A i \in 1 .. Len(c) :
                scan[i] = IF FailsAt(c, i) THEN i - 1 ELSE scan[i + DecodedAt(c, i).len]
<1> DEFINE n == Len(c)
           D(i) == Decode(SubSeq(c, i, n))
           Fails(i) == D(i).cp = kInvalidUnicodePoint \/ D(i).len - 1 >= n - i + 1
           Turn(f, i) == IF i > n THEN 0
                         ELSE IF Fails(i) THEN i - 1 ELSE f[i + D(i).len]
           scan == CHOOSE f : f = [i \in 1 .. n + 1 |-> Turn(f, i)]
           H == [i \in 1 .. n |-> [v \in Nat |-> IF Fails(i) THEN i - 1 ELSE v]]
           l == [i \in 1 .. n |-> D(i).len]
<1>1. n \in Nat
  BY BytesAre
<1>2. \A start : FirstInvalid(c, start) = scan[start + 1]
  BY DEF FirstInvalid
<1>3. \A f : Turn(f, n + 1) = 0
  BY <1>1
<1>4. \A f, i : i \in 1 .. n => Turn(f, i) = IF Fails(i) THEN i - 1 ELSE f[i + D(i).len]
  BY <1>1
<1>5. \A i \in 1 .. n : D(i) = DecodedAt(c, i) /\ (Fails(i) <=> FailsAt(c, i))
  BY DEF DecodedAt, FailsAt
<1>6. \A i \in 1 .. n : D(i).len \in 1 .. n + 1 - i
  <2> TAKE i \in 1 .. n
  <2>1. DecodedAt(c, i).len \in 1 .. n + 1 - i
    BY DecodedLengths
  <2>2. QED
    BY <1>5, <2>1
<1> HIDE DEF Turn, n, D, Fails
<1>7. \A i \in 1 .. n : l[i] = D(i).len
  OBVIOUS
<1>8. \A i \in 1 .. n : \A v \in Nat :
        H[i][v] = (IF Fails(i) THEN i - 1 ELSE v) /\ H[i][v] \in Nat
  BY <1>1
<1>9. \A i \in 1 .. n : i + l[i] = i + D(i).len /\ i + l[i] \in 1 .. n + 1
  <2> TAKE i \in 1 .. n
  <2> DEFINE k == D(i).len
  <2>1. k \in 1 .. n + 1 - i /\ l[i] = k
    BY <1>6, <1>7
  <2> HIDE DEF k, l
  <2>2. QED
    BY <1>1, <2>1 DEF k
<1>10. PICK f : FromItsEnd(f, n, l, Nat, 0, H)
  <2>1. StepsOn(n, l)
    BY <1>6, <1>7 DEF StepsOn
  <2>2. Closed(n, Nat, 0, H)
    BY <1>8 DEF Closed
  <2> HIDE DEF H, l
  <2>3. QED
    BY <1>1, <2>1, <2>2, Backward, Zenon
<1> HIDE DEF l, H
<1>11. \A i \in 1 .. n + 1 : f[i] = Turn(f, i)
  <2>1. f[n + 1] = Turn(f, n + 1)
    BY <1>3, <1>10 DEF FromItsEnd
  <2>2. ASSUME NEW i \in 1 .. n PROVE f[i] = Turn(f, i)
    <3>1. f[i] = H[i][f[i + l[i]]] /\ f[i + l[i]] \in Nat
      BY <1>9, <1>10 DEF FromItsEnd
    <3>2. H[i][f[i + l[i]]] = IF Fails(i) THEN i - 1 ELSE f[i + l[i]]
      BY <1>8, <3>1, Zenon
    <3>3. f[i + l[i]] = f[i + D(i).len]
      BY <1>9, Zenon
    <3>4. Turn(f, i) = IF Fails(i) THEN i - 1 ELSE f[i + D(i).len]
      BY <1>4, Zenon
    <3>5. QED
      BY <3>1, <3>2, <3>3, <3>4, Zenon
  <2>3. QED
    BY <1>1, <2>1, <2>2
<1>12. f = [i \in 1 .. n + 1 |-> Turn(f, i)]
  BY <1>10, <1>11 DEF FromItsEnd
<1>13. scan = [i \in 1 .. n + 1 |-> Turn(scan, i)]
  BY <1>12
<1> HIDE DEF scan
<1>14. \A i \in 1 .. n + 1 : scan[i] = Turn(scan, i)
  BY <1>13
<1>15. scan[n + 1] = 0
  BY <1>1, <1>3, <1>14
<1>16. \A i \in 1 .. n :
         scan[i] = IF FailsAt(c, i) THEN i - 1 ELSE scan[i + DecodedAt(c, i).len]
  BY <1>1, <1>4, <1>5, <1>14
<1>17. QED
  BY <1>2, <1>15, <1>16 DEF n

\* The code points from the i-th byte on, and where each of them begins.
AllAt(content) == {DecodedAt(content, i).cp : i \in 1 .. Len(content)}
Walk(content, i, cps, at) ==
  /\ cps \in Seq(AllAt(content))
  /\ at \in [0 .. Len(cps) -> 1 .. Len(content) + 1]
  /\ at[0] = i /\ at[Len(cps)] = Len(content) + 1
  /\ \A k \in 1 .. Len(cps) :
       /\ at[k - 1] \in 1 .. Len(content)
       /\ at[k] = at[k - 1] + DecodedAt(content, at[k - 1]).len
       /\ cps[k] = DecodedAt(content, at[k - 1]).cp

LEMMA WalkStep ==
  ASSUME NEW c \in Contents, NEW i \in 1 .. Len(c), NEW cps, NEW at,
         Walk(c, i + DecodedAt(c, i).len, cps, at)
  PROVE  \E b : Walk(c, i, <<DecodedAt(c, i).cp>> \o cps, b)
<1> DEFINE n == Len(c)
           x == DecodedAt(c, i).cp
           l == DecodedAt(c, i).len
           S == AllAt(c)
           m == Len(cps)
           all == <<x>> \o cps
           b == [k \in 0 .. m + 1 |-> IF k = 0 THEN i ELSE at[k - 1]]
<1>1. n \in Nat /\ x \in S /\ l \in 1 .. n + 1 - i
  BY BytesAre, DecodedLengths DEF AllAt
<1>2. /\ cps \in Seq(S) /\ at \in [0 .. m -> 1 .. n + 1]
      /\ at[0] = i + l /\ at[m] = n + 1
      /\ \A k \in 1 .. m : /\ at[k - 1] \in 1 .. n
                           /\ at[k] = at[k - 1] + DecodedAt(c, at[k - 1]).len
                           /\ cps[k] = DecodedAt(c, at[k - 1]).cp
  BY DEF Walk
<1>3. m \in Nat
  BY <1>2
<1> HIDE DEF n, x, l, S
<1>4. /\ all \in Seq(S) /\ Len(all) = m + 1 /\ all[1] = x
      /\ \A k \in 2 .. m + 1 : all[k] = cps[k - 1]
  <2>1. <<x>> \in Seq(S) /\ Len(<<x>>) = 1 /\ <<x>>[1] = x
    BY <1>1
  <2>2. /\ all \in Seq(S) /\ Len(all) = 1 + m
        /\ \A k \in 1 .. 1 + m : all[k] = IF k <= 1 THEN <<x>>[k] ELSE cps[k - 1]
    BY <1>2, <2>1, ConcatProperties
  <2> HIDE DEF all, m
  <2>3. QED
    BY <1>3, <2>1, <2>2
<1> HIDE DEF m
<1>5. b[0] = i /\ \A k \in 1 .. m + 1 : b[k] = at[k - 1]
  BY <1>3
<1>6. b[m + 1] = n + 1
  BY <1>2, <1>3, <1>5
<1>7. b \in [0 .. m + 1 -> 1 .. n + 1]
  <2>1. \A k \in 0 .. m + 1 : b[k] \in 1 .. n + 1
    <3> TAKE k \in 0 .. m + 1
    <3>1. CASE k = 0
      BY <1>1, <1>5, <3>1
    <3>2. CASE k # 0
      <4>1. k \in 1 .. m + 1 /\ k - 1 \in 0 .. m
        BY <1>3, <3>2
      <4>2. at[k - 1] \in 1 .. n + 1
        BY <1>2, <4>1
      <4> HIDE DEF b
      <4>3. QED
        BY <1>5, <4>1, <4>2
    <3>3. QED
      BY <3>1, <3>2
  <2>2. b = [k \in 0 .. m + 1 |-> b[k]]
    OBVIOUS
  <2> HIDE DEF b
  <2>3. QED
    BY <2>1, <2>2
<1> HIDE DEF all, b
<1>8. ASSUME NEW k \in 1 .. m + 1
      PROVE  /\ b[k - 1] \in 1 .. n
             /\ b[k] = b[k - 1] + DecodedAt(c, b[k - 1]).len
             /\ all[k] = DecodedAt(c, b[k - 1]).cp
  <2>1. CASE k = 1
    <3>1. b[k - 1] = i /\ b[k] = at[0] /\ all[k] = x
      BY <1>3, <1>4, <1>5, <2>1
    <3>2. QED
      BY <1>2, <3>1 DEF n, l, x
  <2>2. CASE k # 1
    <3>1. k - 1 \in 1 .. m /\ k \in 2 .. m + 1 /\ k - 1 \in 1 .. m + 1
      BY <1>3, <2>2
    <3>2. b[k - 1] = at[k - 2] /\ b[k] = at[k - 1] /\ all[k] = cps[k - 1]
      BY <1>4, <1>5, <3>1
    <3>3. /\ at[k - 2] \in 1 .. n
          /\ at[k - 1] = at[k - 2] + DecodedAt(c, at[k - 2]).len
          /\ cps[k - 1] = DecodedAt(c, at[k - 2]).cp
      <4>1. (k - 1) - 1 = k - 2
        OBVIOUS
      <4>2. QED
        BY <1>2, <3>1, <4>1
    <3>4. QED
      BY <3>2, <3>3
  <2>3. QED
    BY <2>1, <2>2
<1>9. Walk(c, i, all, b)
  BY <1>4, <1>5, <1>6, <1>7, <1>8 DEF Walk, n, S
<1>10. QED
  BY <1>9 DEF all, x

LEMMA WalkIs ==
  ASSUME NEW c \in Contents
  PROVE  \E at : Walk(c, 1, DecodeBulk(c), at)
<1> DEFINE n == Len(c)
<1>1. n \in Nat
  BY BytesAre
<1>2. PICK rest : /\ DecodeBulk(c) = rest[1]
                  /\ rest[n + 1] = << >>
                  /\ \A i \in 1 .. n : rest[i] = <<DecodedAt(c, i).cp>>
                                                 \o rest[i + DecodedAt(c, i).len]
  BY DecodeBulkRest
<1> DEFINE Walked(i) == \E at : Walk(c, i, rest[i], at)
           Left == {k \in 0 .. n : ~ Walked(n + 1 - k)}
<1>3. Left = {}
  <2> SUFFICES ASSUME Left # {} PROVE FALSE
    OBVIOUS
  <2>1. Left \subseteq Nat
    OBVIOUS
  <2> HIDE DEF Walked
  <2>2. PICK k \in Left : \A j \in Left : k <= j
    <3> HIDE DEF Left
    <3>1. QED
      BY <2>1, Least
  <2> DEFINE i == n + 1 - k
  <2>3. ~ Walked(i) /\ k \in 0 .. n
    BY <2>2
  <2>4. CASE k = 0
    <3>1. i = n + 1
      BY <1>1, <2>4
    <3> DEFINE at == [z \in 0 .. 0 |-> n + 1]
    <3>2. << >> \in Seq(AllAt(c)) /\ Len(<< >>) = 0 /\ 1 .. 0 = {}
      OBVIOUS
    <3>3. at \in [0 .. 0 -> 1 .. n + 1] /\ at[0] = n + 1
      BY <1>1
    <3> HIDE DEF at
    <3>4. Walk(c, n + 1, << >>, at)
      BY <3>2, <3>3 DEF Walk
    <3>5. Walked(n + 1)
      BY <1>2, <3>4 DEF Walked
    <3>6. QED
      BY <2>3, <3>1, <3>5
  <2>5. CASE k # 0
    <3> DEFINE l == DecodedAt(c, i).len
               j == k - l
    <3>1. i \in 1 .. n
      BY <1>1, <2>3, <2>5
    <3>2. l \in 1 .. n + 1 - i
      <4> HIDE DEF i
      <4>1. QED
        BY <3>1, DecodedLengths
    <3> HIDE DEF l
    <3>3. j \in 0 .. n /\ ~ (k <= j) /\ n + 1 - j = i + l
      BY <1>1, <2>3, <3>2
    <3>4. j \notin Left
      BY <2>2, <3>3
    <3>5. Walked(i + l)
      BY <3>3, <3>4
    <3> HIDE DEF i
    <3>6. PICK at : Walk(c, i + l, rest[i + l], at)
      BY <3>5 DEF Walked
    <3>7. \E b : Walk(c, i, <<DecodedAt(c, i).cp>> \o rest[i + l], b)
      BY <3>1, <3>6, WalkStep DEF l
    <3>8. rest[i] = <<DecodedAt(c, i).cp>> \o rest[i + l]
      BY <1>2, <3>1 DEF l
    <3>9. Walked(i)
      BY <3>7, <3>8 DEF Walked
    <3>10. QED
      BY <2>3, <3>9
  <2>6. QED
    BY <2>4, <2>5
<1>4. n \in 0 .. n /\ n + 1 - n = 1
  BY <1>1
<1>5. Walked(1)
  <2> HIDE DEF Walked
  <2>1. QED
    BY <1>3, <1>4
<1>6. QED
  BY <1>2, <1>5

-----------------------------------------------------------------------------
(* The sequences of a content that is UTF-8 *)

LEMMA SequenceAt ==
  ASSUME NEW c \in Contents, NEW i \in 1 .. Len(c), NEW j \in i .. Len(c),
         WellFormedSequence(SubSeq(c, i, j))
  PROVE  Begins(c, i, j - i + 1)
<1>1. Len(c) \in Nat
  BY BytesAre
<1>2. j - i + 1 \in 1 .. Len(c) + 1 - i /\ i + (j - i + 1) - 1 = j
  BY <1>1
<1>3. QED
  BY <1>2 DEF Begins

LEMMA InsideContinues ==
  ASSUME NEW c \in Contents, NEW i, NEW l, Begins(c, i, l), NEW k \in i + 1 .. i + l - 1
  PROVE  IsContinuation(c[k])
<1> DEFINE w == SubSeq(c, i, i + l - 1)
<1>1. /\ Len(c) \in Nat /\ i \in 1 .. Len(c) /\ l \in 1 .. Len(c) + 1 - i
      /\ WellFormedSequence(w)
  BY BytesAre DEF Begins
<1>2. /\ i \in 1 .. Len(c) + 1 /\ i + l - 1 \in i - 1 .. Len(c) /\ (i + l - 1) - i + 1 = l
      /\ k - i + 1 \in 2 .. l /\ k - i + 1 \in 1 .. l /\ i + (k - i + 1) - 1 = k
  BY <1>1
<1>3. /\ w \in Contents /\ Len(w) = (i + l - 1) - i + 1
      /\ \A z \in 1 .. (i + l - 1) - i + 1 : w[z] = c[i + z - 1]
  BY <1>2, PartIs, ZenonT(60)
<1> HIDE DEF w
<1>4. \A z \in 2 .. Len(w) : IsContinuation(w[z])
  BY <1>1, <1>3, WellFormedStarts
<1> DEFINE z == k - i + 1
<1>5. z \in 2 .. Len(w) /\ w[z] = c[i + z - 1] /\ i + z - 1 = k
  BY <1>2, <1>3
<1> HIDE DEF z
<1>6. QED
  BY <1>4, <1>5

LEMMA CoveredBy ==
  ASSUME NEW c \in Contents, IsUtf8(c), NEW k \in 1 .. Len(c)
  PROVE  \E i, l : Begins(c, i, l) /\ i <= k /\ k <= i + l - 1
<1>1. PICK head \in 1 .. k, end \in k .. Len(c) : WellFormedSequence(SubSeq(c, head, end))
  BY DEF IsUtf8
<1>2. Len(c) \in Nat
  BY BytesAre
<1>3. head \in 1 .. Len(c) /\ end \in head .. Len(c)
  BY <1>2
<1>4. Begins(c, head, end - head + 1)
  BY <1>1, <1>3, SequenceAt, Zenon
<1>5. head <= k /\ k <= head + (end - head + 1) - 1
  BY <1>2
<1>6. QED
  BY <1>4, <1>5, Zenon

\* A byte that continues no sequence begins one.
LEMMA FirstBegins ==
  ASSUME NEW c \in Contents, IsUtf8(c), NEW k \in 1 .. Len(c),
         k = 1 \/ ~ IsContinuation(c[k])
  PROVE  \E l : Begins(c, k, l)
<1>1. PICK i, l : Begins(c, i, l) /\ i <= k /\ k <= i + l - 1
  BY CoveredBy
<1>2. Len(c) \in Nat /\ i \in 1 .. Len(c) /\ l \in 1 .. Len(c) + 1 - i
  BY <1>1, BytesAre DEF Begins
<1>3. CASE i = k
  BY <1>1, <1>3
<1>4. CASE i # k
  <2>1. k \in i + 1 .. i + l - 1 /\ k # 1
    BY <1>1, <1>2, <1>4
  <2>2. IsContinuation(c[k])
    BY <1>1, <2>1, InsideContinues, Zenon
  <2>3. QED
    BY <2>1, <2>2
<1>5. QED
  BY <1>3, <1>4

\* Behind a sequence the next one begins.
LEMMA NextBegins ==
  ASSUME NEW c \in Contents, IsUtf8(c), NEW k, NEW l, Begins(c, k, l), k + l <= Len(c)
  PROVE  \E m : Begins(c, k + l, m)
<1> DEFINE p == k + l
<1>1. Len(c) \in Nat /\ k \in 1 .. Len(c) /\ l \in 1 .. Len(c) + 1 - k
  BY BytesAre DEF Begins
<1>2. p \in 1 .. Len(c)
  BY <1>1
<1>3. PICK i, m : Begins(c, i, m) /\ i <= p /\ p <= i + m - 1
  BY <1>2, CoveredBy
<1>4. i \in 1 .. Len(c) /\ m \in 1 .. Len(c) + 1 - i
  BY <1>3 DEF Begins
<1>5. ~ IsContinuation(c[i]) /\ Utf8CharLength(c[i]) = m
  BY <1>3, DecodedWell, Zenon
<1>6. ~ IsContinuation(c[k]) /\ Utf8CharLength(c[k]) = l
  BY DecodedWell, Zenon
<1>7. CASE i = p
  BY <1>3, <1>7
<1>8. CASE i \in k + 1 .. k + l - 1
  BY <1>5, <1>8, InsideContinues, Zenon
<1>9. CASE i = k
  <2>1. m = l
    BY <1>5, <1>6, <1>9
  <2>2. QED
    BY <1>1, <1>3, <1>9, <2>1
<1>10. CASE i < k
  <2>1. k \in i + 1 .. i + m - 1
    BY <1>1, <1>3, <1>4, <1>10
  <2>2. IsContinuation(c[k])
    BY <1>3, <2>1, InsideContinues, Zenon
  <2>3. QED
    BY <1>6, <2>2
<1>11. QED
  BY <1>1, <1>3, <1>4, <1>7, <1>8, <1>9, <1>10

\* So the decoder goes from one sequence to the next.
LEMMA WalkBegins ==
  ASSUME NEW c \in Contents, IsUtf8(c), NEW cps, NEW at, Walk(c, 1, cps, at)
  PROVE  \A k \in 1 .. Len(cps) : Begins(c, at[k - 1], at[k] - at[k - 1])
<1> DEFINE n == Len(c)
           m == Len(cps)
           Wrong == {k \in 1 .. m : ~ Begins(c, at[k - 1], at[k] - at[k - 1])}
<1>1. /\ cps \in Seq(AllAt(c)) /\ at \in [0 .. m -> 1 .. n + 1]
      /\ at[0] = 1 /\ at[m] = n + 1
      /\ \A k \in 1 .. m : /\ at[k - 1] \in 1 .. n
                           /\ at[k] = at[k - 1] + DecodedAt(c, at[k - 1]).len
  BY DEF Walk
<1>2. n \in Nat /\ m \in Nat
  BY <1>1, BytesAre
<1>3. Wrong = {}
  <2> SUFFICES ASSUME Wrong # {} PROVE FALSE
    OBVIOUS
  <2>1. Wrong \subseteq Nat
    OBVIOUS
  <2>2. PICK k \in Wrong : \A j \in Wrong : k <= j
    <3> HIDE DEF Wrong
    <3>1. QED
      BY <2>1, Least
  <2>3. k \in 1 .. m /\ ~ Begins(c, at[k - 1], at[k] - at[k - 1])
    BY <2>2
  <2>4. at[k - 1] \in 1 .. n /\ at[k] = at[k - 1] + DecodedAt(c, at[k - 1]).len
    BY <1>1, <2>3
  <2>5. \E l : Begins(c, at[k - 1], l)
    <3>1. CASE k = 1
      <4>1. k - 1 = 0
        BY <3>1
      <4>2. at[k - 1] = 1 /\ 1 \in 1 .. n
        BY <1>1, <2>4, <4>1
      <4>3. QED
        BY <4>2, FirstBegins
    <3>2. CASE k # 1
      <4> DEFINE j == k - 1
      <4>1. j \in 1 .. m /\ ~ (k <= j) /\ j \in 0 .. m /\ j - 1 \in 0 .. m
        BY <1>2, <2>3, <3>2
      <4>2. Begins(c, at[j - 1], at[j] - at[j - 1])
        <5> HIDE DEF j
        <5>1. QED
          BY <2>2, <4>1
      <4> HIDE DEF j
      <4>3. at[j] \in 1 .. n
        BY <2>4 DEF j
      <4>4. at[j - 1] \in 1 .. n + 1
        BY <1>1, <4>1
      <4> DEFINE a == at[j - 1]
                 l == at[j] - at[j - 1]
      <4>5. a + l = at[j] /\ a + l <= n
        BY <1>2, <4>3, <4>4
      <4>6. Begins(c, a, l)
        BY <4>2
      <4> HIDE DEF a, l
      <4>7. \E z : Begins(c, a + l, z)
        BY <4>5, <4>6, NextBegins
      <4>8. QED
        BY <4>5, <4>7 DEF j
    <3>3. QED
      BY <3>1, <3>2
  <2>6. PICK l : Begins(c, at[k - 1], l)
    BY <2>5
  <2>7. DecodedAt(c, at[k - 1]).len = l
    BY <2>6, DecodedWell, Zenon
  <2>8. l \in Int
    BY <2>6 DEF Begins
  <2> DEFINE a == at[k - 1]
  <2>9. a \in Int /\ at[k] = a + l
    BY <2>4, <2>7
  <2> HIDE DEF a
  <2>10. at[k] - a = l
    BY <2>8, <2>9
  <2>11. QED
    BY <2>3, <2>6, <2>10 DEF a
<1>4. QED
  BY <1>3

LEMMA PartsJoin ==
  ASSUME NEW c \in Contents, NEW a \in 1 .. Len(c) + 1, NEW b \in a .. Len(c) + 1
  PROVE  SubSeq(c, 1, a - 1) \o SubSeq(c, a, b - 1) = SubSeq(c, 1, b - 1)
<1> DEFINE B == 0 .. 255
           p == SubSeq(c, 1, a - 1)
           q == SubSeq(c, a, b - 1)
           all == SubSeq(c, 1, b - 1)
<1>1. Len(c) \in Nat
  BY BytesAre
<1>2. /\ 1 \in 1 .. Len(c) + 1 /\ a - 1 \in 1 - 1 .. Len(c) /\ a - 1 - 1 + 1 = a - 1
      /\ b - 1 \in 1 - 1 .. Len(c) /\ b - 1 - 1 + 1 = b - 1 /\ b - 1 \in a - 1 .. Len(c)
      /\ b - 1 - a + 1 = b - a
  BY <1>1
<1>3. /\ p \in Contents /\ Len(p) = a - 1 - 1 + 1
      /\ \A k \in 1 .. a - 1 - 1 + 1 : p[k] = c[1 + k - 1]
  BY <1>2, PartIs, ZenonT(60)
<1>4. /\ q \in Contents /\ Len(q) = b - 1 - a + 1
      /\ \A k \in 1 .. b - 1 - a + 1 : q[k] = c[a + k - 1]
  BY <1>2, PartIs, ZenonT(60)
<1>5. /\ all \in Contents /\ Len(all) = b - 1 - 1 + 1
      /\ \A k \in 1 .. b - 1 - 1 + 1 : all[k] = c[1 + k - 1]
  BY <1>2, PartIs, ZenonT(60)
<1> HIDE DEF p, q, all
<1>6. p \in Seq(B) /\ q \in Seq(B) /\ all \in Seq(B)
  BY <1>3, <1>4, <1>5 DEF Contents
<1> HIDE DEF B
<1>7. Len(p) = a - 1 /\ Len(q) = b - a /\ Len(all) = b - 1
  BY <1>1, <1>2, <1>3, <1>4, <1>5
<1> DEFINE pq == p \o q
<1>8. /\ pq \in Seq(B) /\ Len(pq) = b - 1
      /\ \A k \in 1 .. b - 1 : pq[k] = IF k <= a - 1 THEN p[k] ELSE q[k - (a - 1)]
  <2>1. a - 1 + (b - a) = b - 1
    OBVIOUS
  <2>2. /\ pq \in Seq(B) /\ Len(pq) = Len(p) + Len(q)
        /\ \A k \in 1 .. Len(p) + Len(q) :
             pq[k] = IF k <= Len(p) THEN p[k] ELSE q[k - Len(p)]
    BY <1>6, ConcatProperties, Zenon
  <2> HIDE DEF pq
  <2>3. QED
    BY <1>7, <2>1, <2>2
<1> HIDE DEF pq
<1>9. ASSUME NEW k \in 1 .. b - 1 PROVE pq[k] = all[k]
  <2>1. k \in 1 .. b - 1 - 1 + 1 /\ 1 + k - 1 = k
    BY <1>1
  <2>2. all[k] = c[k]
    BY <1>5, <2>1
  <2>3. CASE k <= a - 1
    <3>1. k \in 1 .. a - 1 - 1 + 1
      BY <1>1, <2>3
    <3>2. p[k] = c[k]
      BY <1>3, <2>1, <3>1
    <3>3. QED
      BY <1>8, <2>2, <2>3, <3>2
  <2>4. CASE ~ (k <= a - 1)
    <3>1. k - (a - 1) \in 1 .. b - 1 - a + 1 /\ a + (k - (a - 1)) - 1 = k
      BY <1>1, <2>4
    <3>2. q[k - (a - 1)] = c[k]
      BY <1>4, <3>1
    <3>3. QED
      BY <1>8, <2>2, <2>4, <3>2
  <2>5. QED
    BY <2>3, <2>4
<1>10. pq = all
  BY <1>6, <1>7, <1>8, <1>9
<1>11. QED
  BY <1>10 DEF pq, p, q, all

\* What a walk over the sequences of a content says of each of them.
Grows(content, cps, at, k) ==
  SubSeq(content, 1, at[k - 1] - 1) \o Encode(cps[k]) = SubSeq(content, 1, at[k] - 1)

LEMMA WalkSequences ==
  ASSUME NEW c \in Contents, IsUtf8(c), NEW cps, NEW at, Walk(c, 1, cps, at),
         NEW k \in 1 .. Len(cps)
  PROVE  /\ at[k - 1] \in 1 .. Len(c) /\ at[k] \in at[k - 1] + 1 .. Len(c) + 1
         /\ Utf8CharLength(c[at[k - 1]]) = at[k] - at[k - 1]
         /\ Grows(c, cps, at, k)
<1> DEFINE a == at[k - 1]
           b == at[k]
           l == b - a
<1>1. Begins(c, a, l)
  BY WalkBegins
<1>2. a \in 1 .. Len(c) /\ b \in 1 .. Len(c) + 1 /\ cps[k] = DecodedAt(c, a).cp
  <2>1. /\ cps \in Seq(AllAt(c)) /\ at \in [0 .. Len(cps) -> 1 .. Len(c) + 1]
        /\ \A j \in 1 .. Len(cps) : /\ at[j - 1] \in 1 .. Len(c)
                                   /\ cps[j] = DecodedAt(c, at[j - 1]).cp
    BY DEF Walk
  <2>2. k \in 0 .. Len(cps)
    OBVIOUS
  <2>3. at[k] \in 1 .. Len(c) + 1
    BY <2>1, <2>2
  <2>4. QED
    BY <2>1, <2>3
<1> HIDE DEF a, b
<1>3. a \in 1 .. Len(c) /\ l \in 1 .. Len(c) + 1 - a /\ Len(c) \in Nat
  BY <1>1, BytesAre DEF Begins
<1>4. b \in a + 1 .. Len(c) + 1 /\ a + l - 1 = b - 1
  BY <1>2, <1>3
<1> HIDE DEF l
<1>5. Encode(DecodedAt(c, a).cp) = SubSeq(c, a, a + l - 1) /\ Utf8CharLength(c[a]) = l
  BY <1>1, DecodedWell, Zenon
<1>6. Encode(cps[k]) = SubSeq(c, a, b - 1)
  BY <1>2, <1>4, <1>5
<1>7. a \in 1 .. Len(c) + 1 /\ b \in a .. Len(c) + 1
  BY <1>3, <1>4
<1>8. SubSeq(c, 1, a - 1) \o SubSeq(c, a, b - 1) = SubSeq(c, 1, b - 1)
  BY <1>7, PartsJoin, Zenon
<1>9. QED
  BY <1>3, <1>4, <1>5, <1>6, <1>8 DEF a, b, l, Grows

\* The first code points encoded are the content up to where they end.
LEMMA EncodedIs ==
  ASSUME NEW c \in Contents, IsUtf8(c), NEW cps, NEW at, Walk(c, 1, cps, at),
         NEW n \in 0 .. Len(cps)
  PROVE  EncodeAll(SubSeq(cps, 1, n)) = SubSeq(c, 1, at[n] - 1)
<1>0. \A k \in 1 .. Len(cps) : Grows(c, cps, at, k)
  BY WalkSequences
<1> DEFINE s == SubSeq(cps, 1, n)
           Turn(f, k) == IF k = 0 THEN << >> ELSE f[k - 1] \o Encode(s[k])
           bytes == CHOOSE f : f = [k \in 0 .. n |-> Turn(f, k)]
           Part(k) == SubSeq(c, 1, at[k] - 1)
           parts == [k \in 0 .. n |-> Part(k)]
<1>1. cps \in Seq(AllAt(c)) /\ Len(cps) \in Nat /\ at[0] = 1
  BY DEF Walk
<1>2. Len(s) = n /\ \A k \in 1 .. n : s[k] = cps[k]
  <2> DEFINE S == AllAt(c)
  <2>1. n \in Nat /\ cps \in Seq(S)
    BY <1>1
  <2> HIDE DEF S
  <2>2. \A k \in 1 .. n : cps[k] \in S
    BY <1>1, <2>1
  <2>3. /\ Len(s) = IF 1 <= n THEN n - 1 + 1 ELSE 0
        /\ \A k \in 1 .. n - 1 + 1 : s[k] = cps[1 + k - 1]
    BY <2>1, <2>2, SubSeqProperties
  <2> HIDE DEF s
  <2>4. QED
    BY <2>1, <2>3
<1>3. EncodeAll(s) = bytes[n]
  BY <1>2 DEF EncodeAll
<1>4. \A f : Turn(f, 0) = << >>
  OBVIOUS
<1>5. ASSUME NEW f, NEW k \in 1 .. n PROVE Turn(f, k) = f[k - 1] \o Encode(cps[k])
  <2>1. k # 0 /\ s[k] = cps[k]
    BY <1>1, <1>2
  <2> HIDE DEF s
  <2>2. QED
    BY <2>1
<1> HIDE DEF s, Turn
<1>6. Part(0) = << >>
  BY <1>1
<1>7. \A k \in 1 .. n : Part(k - 1) \o Encode(cps[k]) = Part(k)
  <2> TAKE k \in 1 .. n
  <2>1. k \in 1 .. Len(cps)
    BY <1>1
  <2>2. SubSeq(c, 1, at[k - 1] - 1) \o Encode(cps[k]) = SubSeq(c, 1, at[k] - 1)
    BY <1>0, <2>1, Zenon DEF Grows
  <2>3. QED
    BY <2>2, Zenon
<1> HIDE DEF Part
<1>8. n \in Nat
  BY <1>1
<1>9. \A k \in 0 .. n : parts[k] = Turn(parts, k)
  <2>1. parts[0] = Turn(parts, 0)
    BY <1>4, <1>6, <1>8
  <2>2. ASSUME NEW k \in 1 .. n PROVE parts[k] = Turn(parts, k)
    <3>1. k - 1 \in 0 .. n /\ k \in 0 .. n
      BY <1>8
    <3>2. parts[k - 1] = Part(k - 1) /\ parts[k] = Part(k)
      BY <3>1
    <3> HIDE DEF parts
    <3>3. QED
      BY <1>5, <1>7, <3>2
  <2> HIDE DEF parts
  <2>3. QED
    BY <1>8, <2>1, <2>2
<1>10. parts = [k \in 0 .. n |-> Turn(parts, k)]
  BY <1>9
<1>11. bytes = [k \in 0 .. n |-> Turn(bytes, k)]
  BY <1>10
<1> HIDE DEF bytes, parts
<1>12. \A k \in 0 .. n : bytes[k] = Turn(bytes, k)
  BY <1>11
<1> DEFINE Wrong == {k \in 0 .. n : bytes[k] # Part(k)}
<1>13. Wrong = {}
  <2> SUFFICES ASSUME Wrong # {} PROVE FALSE
    OBVIOUS
  <2>1. Wrong \subseteq Nat
    BY <1>8
  <2>2. PICK k \in Wrong : \A j \in Wrong : k <= j
    <3> HIDE DEF Wrong
    <3>1. QED
      BY <2>1, Least
  <2>3. k \in 0 .. n /\ bytes[k] # Part(k)
    BY <2>2
  <2>4. k # 0
    BY <1>4, <1>6, <1>8, <1>12, <2>3
  <2>5. k \in 1 .. n /\ k - 1 \in 0 .. n /\ ~ (k <= k - 1)
    BY <1>8, <2>3, <2>4
  <2>6. bytes[k - 1] = Part(k - 1)
    BY <2>2, <2>5
  <2>7. bytes[k] = Part(k)
    BY <1>5, <1>7, <1>12, <2>3, <2>5, <2>6
  <2>8. QED
    BY <2>3, <2>7
<1>14. bytes[n] = Part(n)
  BY <1>8, <1>13
<1>15. QED
  BY <1>3, <1>14 DEF s, Part

\* utf8_truncate() goes over the content as the decoder does.
LEMMA TruncatedIs ==
  ASSUME NEW c \in Contents, IsUtf8(c), NEW cps, NEW at, Walk(c, 1, cps, at),
         NEW n \in 0 .. Len(cps)
  PROVE  Utf8Truncate(c, n) = SubSeq(c, 1, at[n] - 1)
<1> DEFINE Behind(i) == IF i = Len(c) \/ i + Utf8CharLength(c[i + 1]) > Len(c)
                      THEN i ELSE i + Utf8CharLength(c[i + 1])
           Turn(f, k) == IF k = 0 THEN 0 ELSE Behind(f[k - 1])
           index == CHOOSE f : f = [k \in 0 .. n |-> Turn(f, k)]
           ends == [k \in 0 .. n |-> at[k] - 1]
<1>1. Len(cps) \in Nat /\ at[0] = 1 /\ n \in Nat
  BY DEF Walk
<1>2. Utf8Truncate(c, n) = SubSeq(c, 1, index[n])
  BY DEF Utf8Truncate
<1>3. \A f : Turn(f, 0) = 0
  OBVIOUS
<1>4. \A f : \A k \in 1 .. n : Turn(f, k) = Behind(f[k - 1])
  BY <1>1
<1>5. \A k \in 1 .. n : Behind(at[k - 1] - 1) = at[k] - 1
  <2> TAKE k \in 1 .. n
  <2>1. k \in 1 .. Len(cps)
    BY <1>1
  <2> DEFINE a == at[k - 1]
             b == at[k]
             l == Utf8CharLength(c[a])
  <2>2. a \in 1 .. Len(c) /\ b \in a + 1 .. Len(c) + 1 /\ l = b - a
    BY <2>1, WalkSequences
  <2>3. Len(c) \in Nat
    BY BytesAre
  <2> HIDE DEF a, b, l
  <2>4. a - 1 + 1 = a /\ a - 1 # Len(c) /\ ~ (a - 1 + l > Len(c)) /\ a - 1 + l = b - 1
    BY <2>2, <2>3
  <2>5. Utf8CharLength(c[a - 1 + 1]) = l
    BY <2>4 DEF l
  <2>6. Behind(a - 1) = b - 1
    BY <2>4, <2>5
  <2>7. QED
    BY <2>6 DEF a, b
<1> HIDE DEF Turn, Behind
<1>6. \A k \in 0 .. n : ends[k] = Turn(ends, k)
  <2>1. ends[0] = Turn(ends, 0)
    BY <1>1, <1>3
  <2>2. ASSUME NEW k \in 1 .. n PROVE ends[k] = Turn(ends, k)
    <3>1. k - 1 \in 0 .. n /\ k \in 0 .. n
      BY <1>1
    <3>2. ends[k - 1] = at[k - 1] - 1 /\ ends[k] = at[k] - 1
      BY <3>1
    <3> HIDE DEF ends
    <3>3. QED
      BY <1>4, <1>5, <3>2
  <2> HIDE DEF ends
  <2>3. QED
    BY <1>1, <2>1, <2>2
<1>7. ends = [k \in 0 .. n |-> Turn(ends, k)]
  BY <1>6
<1>8. index = [k \in 0 .. n |-> Turn(index, k)]
  BY <1>7
<1> HIDE DEF index, ends
<1>9. \A k \in 0 .. n : index[k] = Turn(index, k)
  BY <1>8
<1> DEFINE Wrong == {k \in 0 .. n : index[k] # at[k] - 1}
<1>10. Wrong = {}
  <2> SUFFICES ASSUME Wrong # {} PROVE FALSE
    OBVIOUS
  <2>1. Wrong \subseteq Nat
    BY <1>1
  <2>2. PICK k \in Wrong : \A j \in Wrong : k <= j
    <3> HIDE DEF Wrong
    <3>1. QED
      BY <2>1, Least
  <2>3. k \in 0 .. n /\ index[k] # at[k] - 1
    BY <2>2
  <2>4. k # 0
    BY <1>1, <1>3, <1>9, <2>3
  <2>5. k \in 1 .. n /\ k - 1 \in 0 .. n /\ ~ (k <= k - 1)
    BY <1>1, <2>3, <2>4
  <2>6. index[k - 1] = at[k - 1] - 1
    BY <2>2, <2>5
  <2>7. index[k] = at[k] - 1
    BY <1>4, <1>5, <1>9, <2>3, <2>5, <2>6
  <2>8. QED
    BY <2>3, <2>7
<1>11. index[n] = at[n] - 1
  BY <1>1, <1>10
<1>12. QED
  BY <1>2, <1>11

-----------------------------------------------------------------------------
(* What init() accepts *)

LEMMA FirstScalarIs ==
  ASSUME NEW c \in Contents
  PROVE  FirstScalar(c) \in Nat
<1> DEFINE whole == Len(c) \div kBlock
           Plain(k) == \A i \in k * kBlock + 1 .. (k + 1) * kBlock :
                         ~ TakenForNonAscii(c[i])
           skipped == {k \in 0 .. whole : \A j \in 0 .. k - 1 : Plain(j)}
<1>1. Len(c) \in Nat /\ kBlock \in Nat \ {0}
  BY BytesAre, StreamAssumption
<1>2. whole \in Nat
  BY <1>1
<1>3. FirstScalar(c) = IF UseAvx2 THEN Max(skipped) * kBlock ELSE 0
  BY DEF FirstScalar
<1> HIDE DEF whole, Plain
<1>4. 0 \in skipped /\ skipped \subseteq 0 .. whole
  BY <1>2
<1> HIDE DEF skipped
<1>5. \E x \in skipped : \A y \in skipped : x >= y
  <2> DEFINE below == {whole - k : k \in skipped}
  <2>1. below # {} /\ below \subseteq Nat
    BY <1>2, <1>4
  <2>2. PICK d \in below : \A e \in below : d <= e
    <3> HIDE DEF below
    <3>1. QED
      BY <2>1, Least
  <2>3. PICK x \in skipped : d = whole - x
    BY <2>2
  <2>4. \A y \in skipped : whole - x <= whole - y
    BY <2>2, <2>3
  <2>5. \A y \in skipped : x >= y
    BY <1>2, <1>4, <2>4
  <2>6. QED
    BY <2>5
<1>6. Max(skipped) \in skipped
  BY <1>5 DEF Max
<1> DEFINE most == Max(skipped)
<1>7. most \in Nat
  <2>1. most \in skipped
    BY <1>6
  <2> HIDE DEF most
  <2>2. most \in 0 .. whole
    BY <1>4, <2>1
  <2>3. QED
    BY <1>2, <2>2
<1> HIDE DEF most
<1>8. most * kBlock \in Nat
  BY <1>1, <1>7
<1>9. QED
  BY <1>3, <1>8 DEF most

LEMMA DecodedFirst ==
  ASSUME NEW c \in Contents
  PROVE  DecodedAt(c, 1) = Decode(c)
<1> DEFINE t == SubSeq(c, 1, Len(c))
<1>1. /\ 1 \in 1 .. Len(c) + 1 /\ Len(c) \in 1 - 1 .. Len(c) /\ Len(c) - 1 + 1 = Len(c)
      /\ Len(c) \in Nat
  BY BytesAre
<1>2. /\ t \in Contents /\ Len(t) = Len(c) - 1 + 1
      /\ \A k \in 1 .. Len(c) - 1 + 1 : t[k] = c[1 + k - 1]
  BY <1>1, PartIs, ZenonT(60)
<1> HIDE DEF t
<1>3. \A k \in 1 .. Len(c) : t[k] = c[k]
  BY <1>1, <1>2
<1>4. t = c
  BY <1>1, <1>2, <1>3 DEF Contents
<1>5. QED
  BY <1>4 DEF DecodedAt, t

\* When the scan of all the bytes returns 0 and the first one was decoded,
\* decoding failed nowhere.
LEMMA ScanPassed ==
  ASSUME NEW c \in Contents, FirstInvalid(c, 0) = 0,
         Decode(c).cp # kInvalidUnicodePoint,
         NEW cps, NEW at, Walk(c, 1, cps, at)
  PROVE  \A k \in 1 .. Len(cps) : ~ FailsAt(c, at[k - 1])
<1> DEFINE n == Len(c)
           m == Len(cps)
<1>1. /\ cps \in Seq(AllAt(c)) /\ at \in [0 .. m -> 1 .. n + 1] /\ at[0] = 1
      /\ \A k \in 1 .. m : /\ at[k - 1] \in 1 .. n
                           /\ at[k] = at[k - 1] + DecodedAt(c, at[k - 1]).len
  BY DEF Walk
<1>2. m \in Nat /\ n \in Nat
  BY <1>1, BytesAre
<1>3. PICK scan :
        /\ \A start : FirstInvalid(c, start) = scan[start + 1]
        /\ \A i \in 1 .. n :
             scan[i] = IF FailsAt(c, i) THEN i - 1 ELSE scan[i + DecodedAt(c, i).len]
  BY FirstInvalidScan
<1>4. scan[1] = 0
  <2>1. FirstInvalid(c, 0) = scan[0 + 1] /\ 0 + 1 = 1
    BY <1>3
  <2>2. QED
    BY <2>1
<1>5. ASSUME NEW k \in 1 .. m, scan[at[k - 1]] = 0
      PROVE  ~ FailsAt(c, at[k - 1]) /\ scan[at[k]] = 0
  <2> DEFINE a == at[k - 1]
  <2>1. a \in 1 .. n /\ at[k] = a + DecodedAt(c, a).len /\ scan[a] = 0
    BY <1>1, <1>5
  <2> HIDE DEF a
  <2>2. scan[a] = IF FailsAt(c, a) THEN a - 1 ELSE scan[a + DecodedAt(c, a).len]
    BY <1>3, <2>1
  <2>3. ~ FailsAt(c, a)
    <3> SUFFICES ASSUME FailsAt(c, a) PROVE FALSE
      OBVIOUS
    <3>1. a = 1
      BY <1>2, <2>1, <2>2
    <3>2. DecodedAt(c, a).cp # kInvalidUnicodePoint
      BY <3>1, DecodedFirst
    <3> DEFINE l == DecodedAt(c, a).len
    <3>3. l \in 1 .. n + 1 - a
      BY <2>1, DecodedLengths
    <3>4. l - 1 >= n - a + 1
      BY <3>2 DEF FailsAt
    <3> HIDE DEF l
    <3>5. QED
      BY <1>2, <2>1, <3>3, <3>4
  <2>4. QED
    BY <2>1, <2>2, <2>3 DEF a
<1> DEFINE Wrong == {k \in 0 .. m : scan[at[k]] # 0}
<1>6. Wrong = {}
  <2> SUFFICES ASSUME Wrong # {} PROVE FALSE
    OBVIOUS
  <2>1. Wrong \subseteq Nat
    BY <1>2
  <2>2. PICK k \in Wrong : \A j \in Wrong : k <= j
    <3> HIDE DEF Wrong
    <3>1. QED
      BY <2>1, Least
  <2>3. k \in 0 .. m /\ scan[at[k]] # 0
    BY <2>2
  <2>4. k # 0
    BY <1>1, <1>4, <2>3
  <2>5. k \in 1 .. m /\ k - 1 \in 0 .. m /\ ~ (k <= k - 1)
    BY <1>2, <2>3, <2>4
  <2>6. scan[at[k - 1]] = 0
    BY <2>2, <2>5
  <2>7. scan[at[k]] = 0
    BY <1>5, <2>5, <2>6, Zenon
  <2>8. QED
    BY <2>3, <2>7
<1>7. \A k \in 1 .. m : k - 1 \in 0 .. m
  BY <1>2
<1>8. QED
  BY <1>5, <1>6, <1>7

\* Every byte is one of those the walk takes at once.
LEMMA WalkCovers ==
  ASSUME NEW c \in Contents, NEW cps, NEW at, Walk(c, 1, cps, at), NEW i \in 1 .. Len(c)
  PROVE  \E k \in 1 .. Len(cps) : at[k - 1] <= i /\ i <= at[k] - 1
<1> DEFINE n == Len(c)
           m == Len(cps)
           Behind == {k \in 0 .. m : at[k] > i}
<1>1. /\ cps \in Seq(AllAt(c)) /\ at \in [0 .. m -> 1 .. n + 1]
      /\ at[0] = 1 /\ at[m] = n + 1
  BY DEF Walk
<1>2. m \in Nat /\ n \in Nat
  BY <1>1, BytesAre
<1>3. m \in Behind /\ Behind \subseteq Nat
  BY <1>1, <1>2
<1>4. PICK k \in Behind : \A j \in Behind : k <= j
  <2> HIDE DEF Behind
  <2>1. QED
    BY <1>3, Least
<1>5. k \in 0 .. m /\ at[k] > i /\ at[k] \in 1 .. n + 1
  BY <1>1, <1>4
<1>6. k # 0
  BY <1>1, <1>5
<1>7. k \in 1 .. m /\ k - 1 \in 0 .. m /\ ~ (k <= k - 1)
  BY <1>2, <1>5, <1>6
<1>8. ~ (at[k - 1] > i) /\ at[k - 1] \in 1 .. n + 1
  BY <1>1, <1>4, <1>7
<1>9. at[k - 1] <= i /\ i <= at[k] - 1
  <2> DEFINE a == at[k - 1]
             b == at[k]
  <2>1. a \in 1 .. n + 1 /\ b \in 1 .. n + 1 /\ ~ (a > i) /\ b > i
    BY <1>5, <1>8
  <2> HIDE DEF a, b
  <2>2. a <= i /\ i <= b - 1
    BY <1>2, <2>1
  <2>3. QED
    BY <2>2 DEF a, b
<1>10. QED
  BY <1>7, <1>9

\* Whatever init() accepts is UTF-8, but for the exceptions.
LEMMA AcceptedIsUtf8 ==
  ASSUME NEW c \in Contents, c # << >>, ValidateUtf8(c) = 0, ~ LetThrough(c)
  PROVE  IsUtf8(c)
<1>1. FirstScalar(c) = 0 /\ Len(c) \in Nat /\ Len(c) >= 1
  <2>1. Len(c) \in Nat /\ Len(c) # 0
    BY BytesAre DEF Contents
  <2>2. FirstScalar(c) \in Nat /\ ~ (FirstScalar(c) > 0)
    BY FirstScalarIs DEF LetThrough
  <2>3. QED
    BY <2>1, <2>2
<1>2. FirstInvalid(c, 0) = 0
  BY <1>1 DEF ValidateUtf8
<1>3. Decode(c).cp # kInvalidUnicodePoint
  BY DEF LetThrough
<1>4. \A i, k \in DOMAIN c :
        k \in i + 1 .. i + Utf8SequenceLength(c[i]) - 1 => IsContinuation(c[k])
  BY DEF LetThrough
<1>5. PICK at : Walk(c, 1, DecodeBulk(c), at)
  BY WalkIs
<1> DEFINE cps == DecodeBulk(c)
<1>6. Walk(c, 1, cps, at)
  BY <1>5
<1> HIDE DEF cps
<1>7. \A k \in 1 .. Len(cps) :
        /\ at[k - 1] \in 1 .. Len(c)
        /\ at[k] = at[k - 1] + DecodedAt(c, at[k - 1]).len
  BY <1>6 DEF Walk
<1>8. ASSUME NEW k \in 1 .. Len(cps)
      PROVE  Begins(c, at[k - 1], DecodedAt(c, at[k - 1]).len)
  <2> DEFINE a == at[k - 1]
  <2>1. ~ FailsAt(c, a) /\ a \in 1 .. Len(c)
    BY <1>2, <1>3, <1>6, <1>7, ScanPassed
  <2> HIDE DEF a
  <2>2. DecodedAt(c, a).cp # kInvalidUnicodePoint
    BY <2>1 DEF FailsAt
  <2>3. DOMAIN c = 1 .. Len(c)
    BY DEF Contents
  <2>4. Utf8SequenceLength(c[a]) \in 0 .. 4
    BY DEF Utf8SequenceLength
  <2>5. ASSUME NEW j \in a + 1 .. a + Utf8SequenceLength(c[a]) - 1, j <= Len(c)
        PROVE  IsContinuation(c[j])
    <3> DEFINE l == Utf8SequenceLength(c[a])
    <3>1. j \in 1 .. Len(c)
      <4> HIDE DEF l
      <4>1. j \in a + 1 .. a + l - 1 /\ l \in 0 .. 4
        BY <2>4 DEF l
      <4>2. QED
        BY <1>1, <2>1, <2>5, <4>1
    <3>2. QED
      BY <1>4, <2>1, <2>3, <3>1
  <2>6. Begins(c, a, DecodedAt(c, a).len)
    BY <2>1, <2>2, <2>5, DecodedSound, Zenon
  <2>7. QED
    BY <2>6 DEF a
<1>9. ASSUME NEW i \in 1 .. Len(c)
      PROVE  \E head \in 1 .. i, end \in i .. Len(c) :
               WellFormedSequence(SubSeq(c, head, end))
  <2>1. PICK k \in 1 .. Len(cps) : at[k - 1] <= i /\ i <= at[k] - 1
    BY <1>6, WalkCovers
  <2> DEFINE a == at[k - 1]
             l == DecodedAt(c, a).len
  <2>2. a <= i /\ i <= a + l - 1 /\ Begins(c, a, l)
    <3>1. at[k] = a + l /\ Begins(c, a, l)
      BY <1>7, <1>8, Zenon
    <3> DEFINE b == at[k]
    <3>2. a <= i /\ i <= b - 1 /\ b = a + l
      BY <2>1, <3>1
    <3>3. a \in 1 .. Len(c) /\ l \in 1 .. Len(c) + 1 - a
      BY <3>1 DEF Begins
    <3> HIDE DEF a, b, l
    <3>4. a \in Int /\ l \in Int
      BY <1>1, <3>3
    <3>5. i <= a + l - 1
      BY <3>2, <3>4
    <3>6. QED
      BY <3>1, <3>2, <3>5, Zenon
  <2> HIDE DEF a, l
  <2>3. /\ a \in 1 .. Len(c) /\ l \in 1 .. Len(c) + 1 - a
        /\ WellFormedSequence(SubSeq(c, a, a + l - 1))
    BY <2>2 DEF Begins
  <2>4. a \in 1 .. i /\ a + l - 1 \in i .. Len(c)
    BY <1>1, <2>2, <2>3
  <2>5. QED
    BY <2>3, <2>4
<1>10. QED
  BY <1>9 DEF IsUtf8

\* UTF-8 that init() turns away is one of the exceptions.
LEMMA RefusedIsTurnedAway ==
  ASSUME NEW c \in Contents, ValidateUtf8(c) # 0, IsUtf8(c)
  PROVE  TurnedAway(c)
<1> SUFFICES ASSUME ~ TurnedAway(c) PROVE FALSE
  OBVIOUS
<1> DEFINE n == Len(c)
           start == FirstScalar(c)
<1>1. n \in Nat /\ start \in Nat
  BY BytesAre, FirstScalarIs
<1>2. ~ (start >= n) /\ FirstInvalid(c, start) # 0
  BY DEF ValidateUtf8
<1>3. start < n /\ start + 1 \in 1 .. n
  BY <1>1, <1>2
<1>4. ~ IsContinuation(c[start + 1])
  BY <1>3 DEF TurnedAway
<1>5. \A i \in 1 .. n - 2 : SubSeq(c, i, i + 2) # Encode(kInvalidUnicodePoint)
  BY DEF TurnedAway
<1>6. \E l : Begins(c, start + 1, l)
  BY <1>3, <1>4, FirstBegins
<1>7. PICK scan :
        /\ \A s : FirstInvalid(c, s) = scan[s + 1]
        /\ scan[n + 1] = 0
        /\ \A i \in 1 .. n :
             scan[i] = IF FailsAt(c, i) THEN i - 1 ELSE scan[i + DecodedAt(c, i).len]
  BY FirstInvalidScan
<1> HIDE DEF start
<1>8. ASSUME NEW i, NEW l, Begins(c, i, l) PROVE ~ FailsAt(c, i)
  <2>1. i \in 1 .. n /\ l \in 1 .. n + 1 - i
    BY <1>8 DEF Begins
  <2>2. DecodedAt(c, i).len = l /\ Encode(DecodedAt(c, i).cp) = SubSeq(c, i, i + l - 1)
    BY <1>8, DecodedWell, Zenon
  <2>3. ~ (l - 1 >= n - i + 1)
    BY <1>1, <2>1
  <2>4. DecodedAt(c, i).cp # kInvalidUnicodePoint
    <3> SUFFICES ASSUME DecodedAt(c, i).cp = kInvalidUnicodePoint PROVE FALSE
      OBVIOUS
    <3>1. Len(Encode(kInvalidUnicodePoint)) = 3
      BY SMT DEF Encode, kInvalidUnicodePoint
    <3>2. Len(SubSeq(c, i, i + l - 1)) = l
      <4>1. i \in 1 .. n + 1 /\ i + l - 1 \in i - 1 .. n /\ (i + l - 1) - i + 1 = l
        BY <1>1, <2>1
      <4>2. Len(SubSeq(c, i, i + l - 1)) = (i + l - 1) - i + 1
        BY <4>1, PartIs, ZenonT(60)
      <4>3. QED
        BY <4>1, <4>2
    <3>3. l = 3
      BY <2>2, <3>1, <3>2, Zenon
    <3>4. i \in 1 .. n - 2 /\ i + l - 1 = i + 2
      BY <1>1, <2>1, <3>3
    <3>5. SubSeq(c, i, i + 2) = Encode(kInvalidUnicodePoint)
      BY <2>2, <3>4, Zenon
    <3>6. QED
      BY <1>5, <3>4, <3>5, Zenon
  <2>5. QED
    BY <2>2, <2>3, <2>4 DEF FailsAt
<1> DEFINE Starts(i) == \E l : Begins(c, i, l)
           Wrong == {k \in 0 .. n : Starts(n + 1 - k) /\ scan[n + 1 - k] # 0}
<1>9. Wrong = {}
  <2> SUFFICES ASSUME Wrong # {} PROVE FALSE
    OBVIOUS
  <2> HIDE DEF Starts
  <2>1. Wrong \subseteq Nat
    BY <1>1
  <2>2. PICK k \in Wrong : \A j \in Wrong : k <= j
    <3> HIDE DEF Wrong
    <3>1. QED
      BY <2>1, Least
  <2> DEFINE i == n + 1 - k
  <2>3. k \in 0 .. n /\ Starts(i) /\ scan[i] # 0
    BY <2>2
  <2>4. PICK l : Begins(c, i, l)
    BY <2>3 DEF Starts
  <2>5. i \in 1 .. n /\ l \in 1 .. n + 1 - i
    BY <2>4 DEF Begins
  <2>6. DecodedAt(c, i).len = l
    BY <2>4, DecodedWell
  <2>7. scan[i] = scan[i + l]
    <3> HIDE DEF i
    <3>1. ~ FailsAt(c, i)
      BY <1>8, <2>4, Zenon
    <3>2. QED
      BY <1>7, <2>5, <2>6, <3>1
  <2> DEFINE j == k - l
  <2>8. j \in 0 .. n /\ ~ (k <= j) /\ n + 1 - j = i + l
    BY <1>1, <2>3, <2>5
  <2>9. j \notin Wrong
    <3> HIDE DEF Wrong, j
    <3>1. QED
      BY <2>2, <2>8
  <2>10. scan[i + l] # 0
    BY <2>3, <2>7
  <2>11. ~ Starts(i + l)
    <3>1. ~ (Starts(n + 1 - j) /\ scan[n + 1 - j] # 0)
      BY <2>8, <2>9
    <3> HIDE DEF i, j
    <3>2. QED
      BY <2>8, <2>10, <3>1
  <2> HIDE DEF i, j
  <2>12. i + l # n + 1
    BY <1>7, <2>10
  <2>13. i + l <= n
    BY <1>1, <2>5, <2>12
  <2>14. Starts(i + l)
    BY <2>4, <2>13, NextBegins DEF Starts
  <2>15. QED
    BY <2>11, <2>14
<1>10. scan[start + 1] # 0
  BY <1>2, <1>7 DEF start
<1> DEFINE k == n - start
<1>11. k \in 0 .. n /\ n + 1 - k = start + 1
  BY <1>1, <1>3
<1>12. k \in Wrong
  BY <1>6, <1>10, <1>11 DEF start
<1>13. QED
  BY <1>9, <1>12

LEMMA DecodedLength ==
  ASSUME NEW bytes \in Contents
  PROVE  Len(DecodeBulk(bytes)) \in Nat
<1> DEFINE S == AllAt(bytes)
<1>1. DecodeBulk(bytes) \in Seq(S)
  BY WalkIs DEF Walk
<1> HIDE DEF S
<1>2. QED
  BY <1>1

-----------------------------------------------------------------------------
(* Line feeds *)

\* Where the first n of a sequence are line feeds.
Feeds(s, n) == {i \in 1 .. n : s[i] = LF}
FeedCount(s, n) == Cardinality(Feeds(s, n))

LEMMA FeedsAre ==
  ASSUME NEW s, NEW n \in Nat
  PROVE  /\ IsFiniteSet(Feeds(s, n)) /\ FeedCount(s, n) \in Nat
         /\ \A m \in 0 .. n : FeedCount(s, m) <= FeedCount(s, n)
<1>1. IsFiniteSet(1 .. n)
  BY FS_Interval
<1>2. IsFiniteSet(Feeds(s, n))
  <2>1. Feeds(s, n) \in SUBSET (1 .. n)
    BY DEF Feeds
  <2>2. QED
    BY <1>1, <2>1, FS_Subset
<1>3. FeedCount(s, n) \in Nat
  BY <1>2, FS_CardinalityType DEF FeedCount
<1>4. ASSUME NEW m \in 0 .. n PROVE FeedCount(s, m) <= FeedCount(s, n)
  <2>1. Feeds(s, m) \in SUBSET Feeds(s, n)
    BY DEF Feeds
  <2>2. QED
    BY <1>2, <2>1, FS_Subset DEF FeedCount
<1>5. QED
  BY <1>2, <1>3, <1>4

LEMMA FeedsNone == \A s : FeedCount(s, 0) = 0
<1>1. \A s : Feeds(s, 0) = {}
  BY DEF Feeds
<1>2. QED
  BY <1>1, FS_EmptySet DEF FeedCount

LEMMA FeedsNext ==
  ASSUME NEW s, NEW n \in Nat, n # 0
  PROVE  FeedCount(s, n) = IF s[n] = LF THEN FeedCount(s, n - 1) + 1
                           ELSE FeedCount(s, n - 1)
<1> DEFINE before == Feeds(s, n - 1)
<1>1. n - 1 \in Nat /\ n \in 1 .. n
  OBVIOUS
<1>2. IsFiniteSet(before)
  BY <1>1, FeedsAre
<1>3. CASE s[n] = LF
  <2>1. Feeds(s, n) = before \cup {n}
    BY <1>1, <1>3 DEF Feeds
  <2>2. n \notin before
    BY DEF Feeds
  <2> HIDE DEF before
  <2>3. Cardinality(before \cup {n}) = Cardinality(before) + 1
    BY <1>2, <2>2, FS_AddElement
  <2>4. QED
    BY <1>3, <2>1, <2>3 DEF FeedCount, before
<1>4. CASE s[n] # LF
  <2>1. Feeds(s, n) = before
    BY <1>1, <1>4 DEF Feeds
  <2>2. QED
    BY <1>4, <2>1 DEF FeedCount
<1>5. QED
  BY <1>3, <1>4

\* Within what follows, a line feed more.
LEMMA FeedsFurther ==
  ASSUME NEW s, NEW n \in Nat, NEW m \in Nat, m < n, s[n] = LF
  PROVE  FeedCount(s, m) + 1 <= FeedCount(s, n)
<1>1. n # 0 /\ n - 1 \in Nat /\ m \in 0 .. n - 1
  OBVIOUS
<1>2. FeedCount(s, n) = FeedCount(s, n - 1) + 1
  BY <1>1, FeedsNext
<1>3. FeedCount(s, m) <= FeedCount(s, n - 1) /\ FeedCount(s, n - 1) \in Nat
  BY <1>1, FeedsAre
<1>4. FeedCount(s, m) \in Nat
  BY FeedsAre
<1>5. QED
  BY <1>2, <1>3, <1>4

\* The loop of index_newlines(): one position for each line feed, the last one's
\* the last.
LEMMA NewlinesAre ==
  ASSUME NEW text, Len(text) \in Nat
  PROVE  LET ends == NewlinePositions(text)
             n == Len(text)
         IN  /\ ends \in Seq(Nat) /\ Len(ends) = FeedCount(text, n)
             /\ \A k \in 1 .. Len(ends) : ends[k] < n
             /\ n # 0 /\ text[n] = LF => Len(ends) # 0 /\ ends[Len(ends)] = n - 1
             /\ n # 0 /\ text[n] # LF => \A k \in 1 .. Len(ends) : ends[k] < n - 1
<1> DEFINE N == Len(text)
           Turn(f, n) == IF n = 0 THEN << >>
                         ELSE IF text[n] = LF THEN Append(f[n - 1], n - 1) ELSE f[n - 1]
           found == CHOOSE f : f = [n \in 0 .. N |-> Turn(f, n)]
           Some(n) == \E f : f = [k \in 0 .. n |-> Turn(f, k)]
           Missing == {n \in 0 .. N : ~ Some(n)}
<1>1. NewlinePositions(text) = found[N]
  BY DEF NewlinePositions
<1>2. \A f : Turn(f, 0) = << >>
  OBVIOUS
<1>3. \A f, n : n # 0 => Turn(f, n) = IF text[n] = LF THEN Append(f[n - 1], n - 1)
                                      ELSE f[n - 1]
  OBVIOUS
<1>4. \A f, g, n : f[n - 1] = g[n - 1] => Turn(f, n) = Turn(g, n)
  OBVIOUS
<1> HIDE DEF Turn
<1>5. Missing = {}
  <2> SUFFICES ASSUME Missing # {} PROVE FALSE
    OBVIOUS
  <2>1. Missing \subseteq Nat
    OBVIOUS
  <2>2. PICK n \in Missing : \A m \in Missing : n <= m
    <3> HIDE DEF Missing
    <3>1. QED
      BY <2>1, Least
  <2>3. n # 0
    <3> DEFINE f == [k \in 0 .. 0 |-> << >>]
    <3>1. f = [k \in 0 .. 0 |-> Turn(f, k)]
      BY <1>2
    <3>2. QED
      BY <2>2, <3>1
  <2>4. n \in 1 .. N /\ n - 1 \in 0 .. N /\ ~ (n <= n - 1)
    BY <2>2, <2>3
  <2>5. PICK f : f = [k \in 0 .. n - 1 |-> Turn(f, k)]
    BY <2>2, <2>4
  <2> DEFINE g == [k \in 0 .. n |-> IF k = n THEN Turn(f, n) ELSE f[k]]
  <2>6. \A k \in 0 .. n : g[k] = Turn(g, k)
    <3> SUFFICES ASSUME NEW k \in 0 .. n PROVE g[k] = Turn(g, k)
      OBVIOUS
    <3>1. CASE k = 0
      BY <1>2, <2>3, <2>4, <2>5, <3>1
    <3>2. CASE k # 0
      <4>1. k - 1 \in 0 .. n - 1 /\ k - 1 \in 0 .. n /\ k - 1 # n
        BY <2>4, <3>2
      <4>2. g[k - 1] = f[k - 1]
        BY <4>1
      <4>3. Turn(g, k) = Turn(f, k)
        BY <1>4, <4>2
      <4>4. g[k] = Turn(f, k)
        <5>1. CASE k = n
          BY <5>1
        <5>2. CASE k # n
          <6>1. k \in 0 .. n - 1
            BY <2>4, <5>2
          <6>2. QED
            BY <2>5, <5>2, <6>1
        <5>3. QED
          BY <5>1, <5>2
      <4>5. QED
        BY <4>3, <4>4
    <3>3. QED
      BY <3>1, <3>2
  <2>7. g = [k \in 0 .. n |-> Turn(g, k)]
    BY <2>6
  <2> HIDE DEF g
  <2>8. QED
    BY <2>2, <2>7
<1>6. N \in 0 .. N
  OBVIOUS
<1>7. Some(N)
  BY <1>5, <1>6
<1>8. found = [n \in 0 .. N |-> Turn(found, n)]
  BY <1>7
<1> HIDE DEF found
<1>9. \A n \in 0 .. N : found[n] = Turn(found, n)
  BY <1>8
<1> DEFINE Right(n) == /\ found[n] \in Seq(Nat) /\ Len(found[n]) = FeedCount(text, n)
                       /\ \A k \in 1 .. Len(found[n]) : found[n][k] < n
           Wrong == {n \in 0 .. N : ~ Right(n)}
<1>10. ASSUME NEW n \in 1 .. N, Right(n - 1)
       PROVE  /\ Right(n)
              /\ text[n] = LF => Len(found[n]) # 0 /\ found[n][Len(found[n])] = n - 1
              /\ text[n] # LF => \A k \in 1 .. Len(found[n]) : found[n][k] < n - 1
  <2>1. n \in 0 .. N /\ n # 0 /\ n \in Nat
    OBVIOUS
  <2>2. found[n] = IF text[n] = LF THEN Append(found[n - 1], n - 1) ELSE found[n - 1]
    BY <1>3, <1>9, <2>1
  <2>3. FeedCount(text, n) = IF text[n] = LF THEN FeedCount(text, n - 1) + 1
                             ELSE FeedCount(text, n - 1)
    BY <2>1, FeedsNext
  <2> DEFINE old == found[n - 1]
             new == found[n]
             count == FeedCount(text, n - 1)
  <2>4. old \in Seq(Nat) /\ Len(old) = count /\ \A k \in 1 .. Len(old) : old[k] < n - 1
    BY <1>10
  <2>5. CASE text[n] = LF
    <3>1. new = Append(old, n - 1) /\ FeedCount(text, n) = count + 1
      BY <2>2, <2>3, <2>5
    <3> HIDE DEF new, old, count
    <3>2. n - 1 \in Nat
      BY <2>1
    <3>3. /\ new \in Seq(Nat) /\ Len(new) = Len(old) + 1
          /\ \A k \in 1 .. Len(old) : new[k] = old[k]
          /\ new[Len(old) + 1] = n - 1
      BY <2>4, <3>1, <3>2
    <3>4. Len(old) \in Nat
      BY <2>4
    <3>5. \A k \in 1 .. Len(new) : new[k] < n
      <4> TAKE k \in 1 .. Len(new)
      <4>1. CASE k = Len(old) + 1
        BY <2>1, <3>3, <4>1
      <4>2. CASE k \in 1 .. Len(old)
        <5>1. new[k] = old[k] /\ old[k] < n - 1 /\ old[k] \in Nat
          BY <2>4, <3>3, <4>2
        <5>2. QED
          BY <2>1, <5>1
      <4>3. QED
        BY <3>3, <3>4, <4>1, <4>2
    <3>6. Len(new) = FeedCount(text, n) /\ Len(new) # 0 /\ new[Len(new)] = n - 1
      BY <2>4, <3>1, <3>3, <3>4
    <3>7. QED
      BY <2>5, <3>3, <3>5, <3>6 DEF new
  <2>6. CASE text[n] # LF
    <3>1. new = old /\ FeedCount(text, n) = count
      BY <2>2, <2>3, <2>6
    <3> HIDE DEF new, old, count
    <3>2. \A k \in 1 .. Len(new) : new[k] < n - 1 /\ new[k] \in Nat
      BY <2>4, <3>1
    <3>3. \A k \in 1 .. Len(new) : new[k] < n
      BY <2>1, <3>2
    <3>4. QED
      BY <2>4, <2>6, <3>1, <3>2, <3>3 DEF new
  <2>7. QED
    BY <2>5, <2>6
<1>11. Right(0)
  <2>1. found[0] = << >> /\ 0 \in 0 .. N
    BY <1>2, <1>9
  <2>2. << >> \in Seq(Nat) /\ Len(<< >>) = 0
    OBVIOUS
  <2>3. QED
    BY <2>1, <2>2, FeedsNone
<1>12. Wrong = {}
  <2> SUFFICES ASSUME Wrong # {} PROVE FALSE
    OBVIOUS
  <2> HIDE DEF Right
  <2>1. Wrong \subseteq Nat
    OBVIOUS
  <2>2. PICK n \in Wrong : \A m \in Wrong : n <= m
    <3> HIDE DEF Wrong
    <3>1. QED
      BY <2>1, Least
  <2>3. n \in 1 .. N /\ n - 1 \in 0 .. N /\ ~ (n <= n - 1) /\ ~ Right(n)
    BY <1>11, <2>2
  <2>4. Right(n - 1)
    BY <2>2, <2>3
  <2>5. QED
    BY <1>10, <2>3, <2>4
<1>13. Right(N)
  <2> HIDE DEF Right
  <2>1. QED
    BY <1>6, <1>12
<1>14. N # 0 => /\ text[N] = LF => Len(found[N]) # 0 /\ found[N][Len(found[N])] = N - 1
                /\ text[N] # LF => \A k \in 1 .. Len(found[N]) : found[N][k] < N - 1
  <2> SUFFICES ASSUME N # 0 PROVE
         /\ text[N] = LF => Len(found[N]) # 0 /\ found[N][Len(found[N])] = N - 1
         /\ text[N] # LF => \A k \in 1 .. Len(found[N]) : found[N][k] < N - 1
    OBVIOUS
  <2> HIDE DEF Right
  <2>1. N \in 1 .. N /\ N - 1 \in 0 .. N
    OBVIOUS
  <2>2. Right(N - 1)
    BY <1>12, <2>1
  <2> HIDE DEF N
  <2>3. QED
    BY <1>10, <2>1, <2>2
<1>15. QED
  BY <1>1, <1>13, <1>14

\* How many lines a file has.
LEMMA LineCountIs ==
  ASSUME NEW c \in Contents, c # << >>
  PROVE  LET n == Len(c)
         IN  Len(IndexNewlines(c)) = IF c[n] = LF THEN FeedCount(c, n) ELSE FeedCount(c, n) + 1
<1> DEFINE n == Len(c)
           ends == NewlinePositions(c)
<1>1. n \in Nat /\ n # 0
  BY BytesAre DEF Contents
<1>2. /\ ends \in Seq(Nat) /\ Len(ends) = FeedCount(c, n)
      /\ c[n] = LF => Len(ends) # 0 /\ ends[Len(ends)] = n - 1
      /\ c[n] # LF => \A k \in 1 .. Len(ends) : ends[k] < n - 1
  BY <1>1, NewlinesAre
<1>3. IndexNewlines(c) = IF ends = << >> \/ Last(ends) # n - 1 THEN Append(ends, n) ELSE ends
  BY DEF IndexNewlines
<1>4. Last(ends) = ends[Len(ends)]
  BY DEF Last
<1> HIDE DEF ends, n
<1>5. CASE c[n] = LF
  <2>1. ends # << >> /\ Last(ends) = n - 1
    BY <1>2, <1>4, <1>5
  <2>2. QED
    BY <1>2, <1>3, <1>5, <2>1 DEF n
<1>6. CASE c[n] # LF
  <2>1. ends = << >> \/ Last(ends) # n - 1
    <3> SUFFICES ASSUME ends # << >> PROVE ends[Len(ends)] # n - 1
      BY <1>4
    <3>1. Len(ends) \in 1 .. Len(ends) /\ ends[Len(ends)] \in Nat
      BY <1>2
    <3>2. ends[Len(ends)] < n - 1
      BY <1>2, <1>6, <3>1
    <3>3. QED
      BY <1>1, <3>1, <3>2
  <2>2. Len(Append(ends, n)) = Len(ends) + 1
    BY <1>1, <1>2
  <2>3. QED
    BY <1>2, <1>3, <1>6, <2>1, <2>2 DEF n
<1>7. QED
  BY <1>5, <1>6

LEMMA AppendedIs ==
  ASSUME NEW k \in Nat, NEW f, DOMAIN f = 1 .. k, f = [n \in 1 .. k |-> f[n]], NEW x
  PROVE  Append(f, x) = [n \in 1 .. k + 1 |-> IF n = k + 1 THEN x ELSE f[n]]
<1> DEFINE S == {f[n] : n \in 1 .. k} \cup {x}
           g == Append(f, x)
<1>1. f \in Seq(S) /\ Len(f) = k /\ x \in S
  OBVIOUS
<1> HIDE DEF S
<1>2. /\ g \in Seq(S) /\ Len(g) = k + 1 /\ g[k + 1] = x
      /\ \A n \in 1 .. k : g[n] = f[n]
  BY <1>1, AppendProperties
<1> HIDE DEF g
<1>3. DOMAIN g = 1 .. k + 1 /\ g = [n \in 1 .. k + 1 |-> g[n]]
  BY <1>2
<1>4. \A n \in 1 .. k + 1 : g[n] = IF n = k + 1 THEN x ELSE f[n]
  <2> TAKE n \in 1 .. k + 1
  <2>1. n # k + 1 => n \in 1 .. k
    OBVIOUS
  <2>2. QED
    BY <1>2, <2>1
<1>5. g = [n \in 1 .. k + 1 |-> IF n = k + 1 THEN x ELSE f[n]]
  BY <1>3, <1>4
<1>6. QED
  BY <1>5 DEF g

\* The lines handed out by number are those that read_lines() makes.
LEMMA LinesAre ==
  ASSUME NEW c \in Contents, c # << >>
  PROVE  LET ends == IndexNewlines(c)
         IN  [n \in 1 .. Len(ends) |-> LineOf(c, ends, n)] = ReadLines(c)
<1> DEFINE m == Len(c)
           feeds == NewlinePositions(c)
           k == Len(feeds)
           ends == IndexNewlines(c)
           start == IF feeds = << >> THEN 0 ELSE Last(feeds) + 1
           lines == [n \in DOMAIN feeds |-> Slice(c, LineStart(feeds, n), feeds[n])]
<1>1. m \in Nat /\ m # 0
  BY BytesAre DEF Contents
<1>2. /\ feeds \in Seq(Nat)
      /\ c[m] = LF => k # 0 /\ feeds[k] = m - 1
      /\ c[m] # LF => \A n \in 1 .. k : feeds[n] < m - 1
  BY <1>1, NewlinesAre
<1>3. /\ ends = IF feeds = << >> \/ feeds[k] # m - 1 THEN Append(feeds, m) ELSE feeds
      /\ start = IF feeds = << >> THEN 0 ELSE feeds[k] + 1
      /\ ReadLines(c) = IF start < m THEN Append(lines, Slice(c, start, m)) ELSE lines
  BY DEF IndexNewlines, ReadLines, Last
<1>4. lines = [n \in 1 .. k |-> Slice(c, LineStart(feeds, n), feeds[n])] /\ k \in Nat
  BY <1>2
<1> HIDE DEF m, feeds, ends, start, lines
<1>5. CASE c[m] = LF
  <2>1. k \in Nat /\ k # 0 /\ feeds[k] = m - 1 /\ feeds # << >>
    BY <1>2, <1>5
  <2> HIDE DEF k
  <2>2. ends = feeds /\ ~ (start < m)
    BY <1>1, <1>3, <2>1
  <2>3. ReadLines(c) = lines /\ Len(ends) = k
    BY <1>3, <2>2 DEF k
  <2>4. \A n \in 1 .. k : LineOf(c, ends, n) = Slice(c, LineStart(feeds, n), feeds[n])
    BY <2>2 DEF LineOf
  <2>5. QED
    BY <1>4, <2>3, <2>4 DEF ends
<1>6. CASE c[m] # LF
  <2>1. k # 0 => feeds # << >> /\ feeds[k] \in Nat /\ feeds[k] < m - 1
    BY <1>2, <1>6
  <2>2. k = 0 => feeds = << >>
    BY <1>2
  <2>3. ends = Append(feeds, m) /\ start < m
    BY <1>1, <1>3, <1>4, <2>1, <2>2
  <2>4. /\ Len(ends) = k + 1 /\ ends[k + 1] = m
        /\ \A n \in 1 .. k : ends[n] = feeds[n]
    BY <1>1, <1>2, <2>3, AppendProperties
  <2>5. ReadLines(c) = Append(lines, Slice(c, start, m))
    BY <1>3, <2>3
  <2>6. DOMAIN lines = 1 .. k /\ lines = [n \in 1 .. k |-> lines[n]]
    BY <1>4
  <2>7. ReadLines(c) = [n \in 1 .. k + 1 |-> IF n = k + 1 THEN Slice(c, start, m) ELSE lines[n]]
    BY <1>4, <2>5, <2>6, AppendedIs
  <2>8. ASSUME NEW n \in 1 .. k + 1
        PROVE  LineOf(c, ends, n) = IF n = k + 1 THEN Slice(c, start, m) ELSE lines[n]
    <3>1. k \in Nat
      BY <1>4
    <3> HIDE DEF k
    <3>2. CASE n = k + 1
      <4>1. LineStart(ends, n) = start
        <5>1. CASE k = 0
          BY <1>3, <2>2, <3>2, <5>1 DEF LineStart
        <5>2. CASE k # 0
          <6>1. n # 1 /\ n - 1 = k /\ k \in 1 .. k
            BY <3>1, <3>2, <5>2
          <6>2. ends[n - 1] = feeds[k]
            BY <2>4, <6>1
          <6>3. QED
            BY <1>3, <2>1, <5>2, <6>1, <6>2 DEF LineStart
        <5>3. QED
          BY <5>1, <5>2
      <4>2. QED
        BY <2>4, <3>2, <4>1 DEF LineOf
    <3>3. CASE n # k + 1
      <4>1. n \in 1 .. k /\ (n # 1 => n - 1 \in 1 .. k)
        BY <3>1, <3>3
      <4>2. ends[n] = feeds[n] /\ LineStart(ends, n) = LineStart(feeds, n)
        BY <2>4, <4>1 DEF LineStart
      <4>3. lines[n] = Slice(c, LineStart(feeds, n), feeds[n])
        BY <1>4, <4>1
      <4>4. QED
        BY <3>3, <4>2, <4>3 DEF LineOf
    <3>4. QED
      BY <3>2, <3>3
  <2>9. [n \in 1 .. k + 1 |-> LineOf(c, ends, n)] = ReadLines(c)
    BY <2>7, <2>8
  <2>10. QED
    BY <2>4, <2>9 DEF ends
<1>7. QED
  BY <1>5, <1>6

\* A line feed is decoded from the byte that is one.
LEMMA DecodedFeed ==
  ASSUME NEW c \in Contents, NEW i \in 1 .. Len(c), DecodedAt(c, i).cp = LF
  PROVE  c[i] = LF
<1> DEFINE t == SubSeq(c, i, Len(c))
           n == Utf8SequenceLength(t[1])
           w == SubSeq(t, 1, n)
           d == Decode(t)
           bad == kInvalidUnicodePoint
<1>1. t \in Contents /\ Len(t) >= 1 /\ t[1] = c[i] /\ Len(t) \in Nat
  BY TailIs, BytesAre
<1>2. d.cp = LF
  BY DEF DecodedAt
<1>3. n \in 0 .. 4
  BY DEF Utf8SequenceLength
<1>4. /\ n = 0 \/ Len(t) < n => d.cp = bad
      /\ n = 1 => d.cp = t[1]
      /\ n > 1 /\ n <= Len(t) =>
           (IsValidCodepoint(Assemble(w), n) /\ d.cp = Assemble(w)) \/ d.cp = bad
  BY <1>1, DecodeIs
<1>5. LF # bad
  BY SMT DEF LF, kInvalidUnicodePoint
<1>6. ~ IsValidCodepoint(LF, 2) /\ ~ IsValidCodepoint(LF, 3) /\ ~ IsValidCodepoint(LF, 4)
  BY SMT DEF LF, IsValidCodepoint, MinValues
<1> HIDE DEF t, n, w, d, bad
<1>7. CASE n = 1
  BY <1>1, <1>2, <1>4, <1>7
<1>8. CASE n > 1 /\ n <= Len(t)
  <2>1. IsValidCodepoint(LF, n)
    BY <1>2, <1>4, <1>5, <1>8
  <2>2. n = 2 \/ n = 3 \/ n = 4
    BY <1>3, <1>8
  <2>3. QED
    BY <1>6, <2>1, <2>2
<1>9. n = 0 \/ n = 1 \/ Len(t) < n \/ (n > 1 /\ n <= Len(t))
  BY <1>1, <1>3
<1>10. QED
  BY <1>2, <1>4, <1>5, <1>7, <1>8, <1>9

\* The first n code points have no more line feeds than the bytes they were
\* decoded from.
LEMMA FeedsDecoded ==
  ASSUME NEW c \in Contents, NEW cps, NEW at, Walk(c, 1, cps, at), NEW n \in 0 .. Len(cps)
  PROVE  FeedCount(cps, n) <= FeedCount(c, at[n] - 1)
<1> DEFINE m == Len(cps)
           Wrong == {k \in 0 .. m : ~ (FeedCount(cps, k) <= FeedCount(c, at[k] - 1))}
<1>1. /\ cps \in Seq(AllAt(c)) /\ at \in [0 .. m -> 1 .. Len(c) + 1] /\ at[0] = 1
      /\ \A k \in 1 .. m : /\ at[k - 1] \in 1 .. Len(c)
                           /\ at[k] = at[k - 1] + DecodedAt(c, at[k - 1]).len
                           /\ cps[k] = DecodedAt(c, at[k - 1]).cp
  BY DEF Walk
<1>2. m \in Nat /\ Len(c) \in Nat
  BY <1>1, BytesAre
<1>3. Wrong = {}
  <2> SUFFICES ASSUME Wrong # {} PROVE FALSE
    OBVIOUS
  <2>1. Wrong \subseteq Nat
    BY <1>2
  <2>2. PICK k \in Wrong : \A j \in Wrong : k <= j
    <3> HIDE DEF Wrong
    <3>1. QED
      BY <2>1, Least
  <2>3. k \in 0 .. m /\ ~ (FeedCount(cps, k) <= FeedCount(c, at[k] - 1))
    BY <2>2
  <2>4. k # 0
    <3> SUFFICES ASSUME k = 0 PROVE FALSE
      OBVIOUS
    <3>1. at[k] - 1 = 0
      BY <1>1
    <3>2. FeedCount(cps, k) = 0 /\ FeedCount(c, at[k] - 1) = 0
      BY <3>1, FeedsNone
    <3>3. QED
      BY <2>3, <3>2
  <2>5. k \in 1 .. m /\ k - 1 \in 0 .. m /\ ~ (k <= k - 1) /\ k \in Nat /\ k - 1 \in Nat
    BY <1>2, <2>3, <2>4
  <2> DEFINE a == at[k - 1]
             b == at[k]
             l == DecodedAt(c, a).len
  <2>6. a \in 1 .. Len(c) /\ b = a + l /\ cps[k] = DecodedAt(c, a).cp
    BY <1>1, <2>5
  <2>7. l \in 1 .. Len(c) + 1 - a
    <3> HIDE DEF a
    <3>1. QED
      BY <2>6, DecodedLengths
  <2>8. FeedCount(cps, k - 1) <= FeedCount(c, a - 1)
    BY <2>2, <2>5
  <2> HIDE DEF a, b, l, Wrong
  <2>9. a - 1 \in Nat /\ a \in Nat /\ b - 1 \in Nat /\ a - 1 \in 0 .. b - 1 /\ a \in 0 .. b - 1
        /\ a # 0
    BY <1>2, <2>6, <2>7
  <2>10. /\ FeedCount(c, a - 1) \in Nat /\ FeedCount(c, a) \in Nat
         /\ FeedCount(c, b - 1) \in Nat /\ FeedCount(cps, k - 1) \in Nat
         /\ FeedCount(c, a - 1) <= FeedCount(c, b - 1)
         /\ FeedCount(c, a) <= FeedCount(c, b - 1)
    BY <2>5, <2>9, FeedsAre
  <2>11. FeedCount(cps, k) = IF cps[k] = LF THEN FeedCount(cps, k - 1) + 1
                             ELSE FeedCount(cps, k - 1)
    BY <2>4, <2>5, FeedsNext
  <2>12. FeedCount(cps, k) <= FeedCount(c, b - 1)
    <3>1. CASE cps[k] = LF
      <4>1. c[a] = LF
        BY <2>6, <3>1, DecodedFeed
      <4>2. FeedCount(c, a) = FeedCount(c, a - 1) + 1
        BY <2>9, <4>1, FeedsNext
      <4>3. QED
        BY <2>8, <2>10, <2>11, <3>1, <4>2
    <3>2. CASE cps[k] # LF
      BY <2>8, <2>10, <2>11, <3>2
    <3>3. QED
      BY <3>1, <3>2
  <2>13. QED
    BY <2>3, <2>12 DEF b
<1>4. QED
  BY <1>3

\* The line feeds before the n-th code point leave one line more in the file.
LEMMA LineInFile ==
  ASSUME NEW c \in Contents, c # << >>, NEW n \in 0 .. Len(DecodeBulk(c)),
         n = Len(DecodeBulk(c)) => DecodeBulk(c)[n] # LF
  PROVE  FeedCount(DecodeBulk(c), n) + 1 <= Len(IndexNewlines(c))
<1> DEFINE cps == DecodeBulk(c)
           m == Len(cps)
           N == Len(c)
<1>1. PICK at : Walk(c, 1, cps, at)
  BY WalkIs
<1> HIDE DEF cps
<1>2. /\ cps \in Seq(AllAt(c)) /\ at \in [0 .. m -> 1 .. N + 1] /\ at[0] = 1 /\ at[m] = N + 1
      /\ \A k \in 1 .. m : at[k - 1] \in 1 .. N
  BY <1>1 DEF Walk
<1>3. m \in Nat /\ N \in Nat /\ N # 0
  BY <1>2, BytesAre DEF Contents
<1>4. m # 0
  BY <1>2, <1>3
<1>5. n \in 0 .. m /\ (n = m => cps[n] # LF)
  BY DEF cps
<1>6. Len(IndexNewlines(c)) = IF c[N] = LF THEN FeedCount(c, N) ELSE FeedCount(c, N) + 1
  BY LineCountIs
<1> HIDE DEF m, N
<1> DEFINE k == IF n = m THEN m - 1 ELSE n
<1>7. k \in 0 .. m - 1 /\ k \in 0 .. m /\ k + 1 \in 1 .. m /\ k + 1 - 1 = k
  BY <1>3, <1>4, <1>5
<1>8. FeedCount(cps, n) = FeedCount(cps, k)
  <2>1. CASE n = m
    <3>1. m # 0 /\ cps[m] # LF
      BY <1>4, <1>5, <2>1
    <3>2. FeedCount(cps, m) = FeedCount(cps, m - 1)
      BY <1>3, <3>1, FeedsNext
    <3>3. QED
      BY <2>1, <3>2
  <2>2. CASE n # m
    BY <2>2
  <2>3. QED
    BY <2>1, <2>2
<1> HIDE DEF k
<1>9. at[k] \in 1 .. N
  BY <1>2, <1>7
<1>10. FeedCount(cps, k) <= FeedCount(c, at[k] - 1)
  BY <1>1, <1>7, FeedsDecoded DEF m
<1> DEFINE a == at[k] - 1
<1>11. a \in 0 .. N /\ a \in Nat /\ a < N
  BY <1>3, <1>9
<1> HIDE DEF a
<1>12. /\ FeedCount(c, a) <= FeedCount(c, N) /\ FeedCount(c, a) \in Nat
       /\ FeedCount(c, N) \in Nat /\ FeedCount(cps, k) \in Nat
  <2>1. k \in Nat
    BY <1>7
  <2>2. QED
    BY <1>3, <1>11, <2>1, FeedsAre
<1>13. c[N] = LF => FeedCount(c, a) + 1 <= FeedCount(c, N)
  BY <1>3, <1>11, FeedsFurther
<1>14. FeedCount(cps, k) + 1 <= Len(IndexNewlines(c))
  <2>1. FeedCount(cps, k) <= FeedCount(c, a)
    BY <1>10 DEF a
  <2>2. QED
    BY <1>6, <1>12, <1>13, <2>1
<1>15. QED
  BY <1>8, <1>14 DEF cps

-----------------------------------------------------------------------------
(* The stream *)

StreamFields == {"status", "codepoints", "position", "line", "column", "file"}

\* The line that is counted, or one less after reset().
LineFits(line, codepoints, position) ==
  \/ line = FeedCount(codepoints, position)
  \/ line = FeedCount(codepoints, position) + 1

StreamOK(s) ==
  /\ DOMAIN s = StreamFields
  /\ s.status \in {"not_initialized", "initialized", "valid", "invalid"}
  /\ Len(s.codepoints) \in Nat
  /\ s.position \in 0 .. Len(s.codepoints)
  /\ s.file \in Nat
  /\ s.line \in Nat
  /\ LineFits(s.line, s.codepoints, s.position)

LEMMA NewStreamOK == StreamOK(NewStream)
<1>1. Len(<< >>) = 0 /\ LineFits(1, << >>, 0)
  BY FeedsNone DEF LineFits
<1>2. QED
  BY <1>1 DEF StreamOK, NewStream, StreamFields

\* The fields an operation leaves alone, and the position it sets.
LEMMA MovedOK ==
  ASSUME NEW s, StreamOK(s), NEW t, DOMAIN t = DOMAIN s,
         t.status = s.status, t.codepoints = s.codepoints, t.file = s.file,
         t.position \in 0 .. Len(s.codepoints), t.line \in Nat,
         LineFits(t.line, s.codepoints, t.position)
  PROVE  StreamOK(t)
BY DEF StreamOK

\* A state of the stream after another, over the same code points.
Follows(s, t) ==
  /\ StreamOK(t)
  /\ t.status = s.status /\ t.codepoints = s.codepoints /\ t.file = s.file

LEMMA AdvancedOK ==
  ASSUME NEW s, StreamOK(s)
  PROVE  Follows(s, Advanced(s))
<1> DEFINE t == Advanced(s)
<1>1. CASE Eof(s)
  BY <1>1 DEF Advanced, Follows
<1>2. CASE ~ Eof(s)
  <2>1. {"status", "codepoints", "position", "line", "column"} \subseteq DOMAIN s
    BY DEF StreamOK, StreamFields
  <2>2. /\ DOMAIN t = DOMAIN s /\ t.status = s.status /\ t.file = s.file
        /\ t.codepoints = s.codepoints /\ t.position = s.position + 1
        /\ t.line = IF s.codepoints[s.position + 1] = LF THEN s.line + 1 ELSE s.line
    BY <1>2, <2>1 DEF Advanced, EndsLine, Peek
  <2>3. s.position + 1 \in 0 .. Len(s.codepoints)
    BY <1>2 DEF StreamOK, Eof
  <2> HIDE DEF t
  <2>4. StreamOK(t)
    <3> DEFINE cps == s.codepoints
               n == s.position + 1
               line == s.line
    <3>1. n \in Nat /\ n # 0 /\ n - 1 = s.position /\ n - 1 \in Nat /\ line \in Nat
      BY DEF StreamOK
    <3>2. LineFits(line, cps, n - 1)
      BY <3>1 DEF StreamOK
    <3>3. t.line = IF cps[n] = LF THEN line + 1 ELSE line
      BY <2>2
    <3>4. t.position = n
      BY <2>2
    <3> HIDE DEF cps, n, line
    <3>5. FeedCount(cps, n) = IF cps[n] = LF THEN FeedCount(cps, n - 1) + 1
                              ELSE FeedCount(cps, n - 1)
      BY <3>1, FeedsNext
    <3>6. FeedCount(cps, n - 1) \in Nat
      BY <3>1, FeedsAre
    <3>7. LineFits(t.line, cps, n) /\ t.line \in Nat
      BY <3>1, <3>2, <3>3, <3>5, <3>6 DEF LineFits
    <3>8. QED
      BY <2>2, <2>3, <3>4, <3>7, MovedOK DEF cps
  <2>5. QED
    BY <2>2, <2>4 DEF t, Follows
<1>3. QED
  BY <1>1, <1>2

\* The loop of consume_sequence().
LEMMA AdvancedByOK ==
  ASSUME NEW s, StreamOK(s), NEW count \in Nat
  PROVE  Follows(s, AdvancedBy(s, count))
<1> DEFINE Turn(f, i) == IF i = 0 THEN s ELSE Advanced(f[i - 1])
           Some(n) == \E f : f = [i \in 0 .. n |-> Turn(f, i)]
           Missing == {n \in Nat : ~ Some(n)}
           after == CHOOSE f : f = [i \in 0 .. count |-> Turn(f, i)]
<1>1. AdvancedBy(s, count) = after[count]
  BY DEF AdvancedBy
<1>2. \A f, g, i : f[i - 1] = g[i - 1] => Turn(f, i) = Turn(g, i)
  OBVIOUS
<1>3. /\ \A f : Turn(f, 0) = s
      /\ \A f : \A i \in Nat : i # 0 => Turn(f, i) = Advanced(f[i - 1])
  OBVIOUS
<1> HIDE DEF Turn
<1>4. Missing = {}
  <2> SUFFICES ASSUME Missing # {} PROVE FALSE
    OBVIOUS
  <2>1. PICK n \in Missing : \A m \in Missing : n <= m
    BY Least
  <2>2. n # 0
    <3> DEFINE f == [i \in 0 .. 0 |-> s]
    <3>1. f = [i \in 0 .. 0 |-> Turn(f, i)]
      BY <1>3
    <3>2. QED
      BY <2>1, <3>1
  <2>3. n \in Nat /\ n - 1 \in Nat /\ n - 1 \notin Missing
    BY <2>1, <2>2
  <2>4. PICK f : f = [i \in 0 .. n - 1 |-> Turn(f, i)]
    BY <2>3
  <2> DEFINE g == [i \in 0 .. n |-> IF i = n THEN Turn(f, n) ELSE f[i]]
  <2>5. \A i \in 0 .. n : g[i] = Turn(g, i)
    <3> SUFFICES ASSUME NEW i \in 0 .. n PROVE g[i] = Turn(g, i)
      OBVIOUS
    <3>1. CASE i = 0
      BY <1>3, <2>2, <2>3, <2>4, <3>1
    <3>2. CASE i # 0
      <4>1. i - 1 \in 0 .. n - 1 /\ i - 1 \in 0 .. n /\ i - 1 # n
        BY <2>3, <3>2
      <4>2. g[i - 1] = f[i - 1]
        BY <4>1
      <4>3. Turn(g, i) = Turn(f, i)
        BY <1>2, <4>2
      <4>4. g[i] = Turn(f, i)
        <5>1. CASE i = n
          BY <5>1
        <5>2. CASE i # n
          <6>1. i \in 0 .. n - 1
            BY <2>3, <5>2
          <6>2. QED
            BY <2>4, <5>2, <6>1
        <5>3. QED
          BY <5>1, <5>2
      <4>5. QED
        BY <4>3, <4>4
    <3>3. QED
      BY <3>1, <3>2
  <2>6. g = [i \in 0 .. n |-> Turn(g, i)]
    BY <2>5
  <2> HIDE DEF g
  <2>7. QED
    BY <2>1, <2>6
<1>5. Some(count)
  BY <1>4
<1>6. after = [i \in 0 .. count |-> Turn(after, i)]
  BY <1>5
<1> HIDE DEF after
<1> DEFINE Bad == {i \in 0 .. count : ~ Follows(s, after[i])}
<1>7. Bad = {}
  <2> SUFFICES ASSUME Bad # {} PROVE FALSE
    OBVIOUS
  <2>1. Bad \subseteq Nat
    OBVIOUS
  <2>2. PICK i \in Bad : \A j \in Bad : i <= j
    <3> HIDE DEF Bad
    <3>1. QED
      BY <2>1, Least
  <2>3. after[i] = Turn(after, i) /\ i \in 0 .. count
    BY <1>6
  <2>4. i # 0
    BY <1>3, <2>2, <2>3 DEF Follows
  <2>5. i - 1 \in 0 .. count /\ ~ (i <= i - 1) /\ i \in Nat
    BY <2>3, <2>4
  <2>6. Follows(s, after[i - 1])
    BY <2>2, <2>5
  <2>7. after[i] = Advanced(after[i - 1])
    BY <1>3, <2>3, <2>4, <2>5
  <2>8. Follows(after[i - 1], after[i])
    BY <2>6, <2>7, AdvancedOK DEF Follows
  <2>9. QED
    BY <2>2, <2>6, <2>8 DEF Follows
<1>8. count \in 0 .. count
  OBVIOUS
<1>9. QED
  BY <1>1, <1>7, <1>8

LEMMA FirstLineFits == \A cps : LineFits(1, cps, 0)
BY FeedsNone DEF LineFits

LEMMA RestartedIs ==
  ASSUME StreamOK(stream), NEW id \in Nat
  PROVE  LET s == Restarted(id)
         IN  /\ StreamOK(s) /\ DOMAIN s = StreamFields
             /\ s.position = 0 /\ s.codepoints = stream.codepoints
             /\ s.line = 1 /\ s.file = id
<1> DEFINE s == Restarted(id)
<1>1. /\ DOMAIN stream = StreamFields /\ Len(stream.codepoints) \in Nat
  BY DEF StreamOK
<1>2. /\ DOMAIN s = StreamFields /\ s.position = 0 /\ s.status = "initialized"
      /\ s.codepoints = stream.codepoints /\ s.line = 1 /\ s.file = id
  BY <1>1 DEF Restarted, StreamFields
<1> HIDE DEF s
<1>3. StreamOK(s)
  BY <1>1, <1>2, FirstLineFits DEF StreamOK
<1>4. QED
  BY <1>2, <1>3 DEF s

LEMMA StreamInitOK ==
  ASSUME StreamOK(stream), NEW id \in Nat, NEW content \in Contents,
         stream' = IF ValidateUtf8(content) # 0
                   THEN [Restarted(id) EXCEPT !.status = "invalid"]
                   ELSE [Restarted(id) EXCEPT !.status = "valid",
                                              !.codepoints = DecodeContent(content)]
  PROVE  StreamOK(stream') /\ stream'.file = id
<1> DEFINE s == Restarted(id)
           cps == DecodeContent(content)
<1>1. /\ StreamOK(s) /\ DOMAIN s = StreamFields
      /\ s.position = 0 /\ s.codepoints = stream.codepoints
      /\ s.line = 1 /\ s.file = id
  BY RestartedIs
<1>2. Len(cps) \in Nat /\ Len(stream.codepoints) \in Nat
  BY DecodedLength DEF DecodeContent, StreamOK
<1> HIDE DEF s, cps
<1>3. CASE stream' = [s EXCEPT !.status = "invalid"]
  <2>1. /\ DOMAIN stream' = StreamFields /\ stream'.status = "invalid"
        /\ stream'.position = 0 /\ stream'.codepoints = stream.codepoints
        /\ stream'.line = 1 /\ stream'.file = id
    BY <1>1, <1>3 DEF StreamFields
  <2>2. QED
    BY <1>2, <2>1, FirstLineFits DEF StreamOK
<1>4. CASE stream' = [s EXCEPT !.status = "valid", !.codepoints = cps]
  <2>1. /\ DOMAIN stream' = StreamFields /\ stream'.status = "valid"
        /\ stream'.position = 0 /\ stream'.codepoints = cps
        /\ stream'.line = 1 /\ stream'.file = id
    BY <1>1, <1>4 DEF StreamFields
  <2>2. QED
    BY <1>2, <2>1, FirstLineFits DEF StreamOK
<1>5. QED
  BY <1>3, <1>4 DEF s, cps

LEMMA OpenOK ==
  ASSUME DiskInv, FilesOK(files), StreamOK(stream), NEW id \in Nat, OpenStream(id)
  PROVE  /\ FilesOK(files') /\ StreamOK(stream') /\ files'[id + 1].content \in Contents
         /\ stream'.file < Len(files')
<1>1. /\ FilesOK(files') /\ files'[id + 1].content \in Contents
      /\ Len(files) <= Len(files') /\ id < Len(files)
  BY LoadedOK DEF OpenStream, StreamInit
<1> DEFINE content == files'[id + 1].content
<1>2. stream' = IF ValidateUtf8(content) # 0
                THEN [Restarted(id) EXCEPT !.status = "invalid"]
                ELSE [Restarted(id) EXCEPT !.status = "valid",
                                           !.codepoints = DecodeContent(content)]
  BY DEF OpenStream, StreamInit
<1>3. content \in Contents
  BY <1>1
<1> HIDE DEF content
<1>4. StreamOK(stream') /\ stream'.file = id
  BY <1>2, <1>3, StreamInitOK
<1>5. Len(files) \in Nat /\ Len(files') \in Nat
  BY <1>1, EntriesAreOK
<1>6. id < Len(files')
  BY <1>1, <1>5
<1>7. QED
  BY <1>1, <1>4, <1>6 DEF content

\* What the decoding of the content said of it is what the stream says.
DecodedFrom(s, content) ==
  /\ s.status = "valid" /\ content # << >> =>
       s.codepoints = DecodeBulk(content) /\ ValidateUtf8(content) = 0
  /\ s.status = "invalid" => ValidateUtf8(content) # 0

StreamInv == StreamOK(stream) /\ seen \in Contents /\ DecodedFrom(stream, seen)

LEMMA OpenDecodes ==
  ASSUME NEW id \in Nat, OpenStream(id), StreamOK(stream), files'[id + 1].content \in Contents
  PROVE  seen' \in Contents /\ DecodedFrom(stream', seen')
<1> DEFINE s == Restarted(id)
           content == files'[id + 1].content
           cps == DecodeContent(content)
<1>1. content \in Contents /\ seen' = content
  BY DEF OpenStream, StreamInit
<1>2. stream' = IF ValidateUtf8(content) # 0
                THEN [s EXCEPT !.status = "invalid"]
                ELSE [s EXCEPT !.status = "valid", !.codepoints = cps]
  BY DEF OpenStream, StreamInit
<1>3. DOMAIN s = StreamFields
  BY RestartedIs
<1>4. content # << >> => cps = DecodeBulk(content)
  BY DEF DecodeContent
<1> HIDE DEF s, content, cps
<1>5. CASE ValidateUtf8(content) # 0
  <2>1. stream'.status = "invalid"
    BY <1>2, <1>3, <1>5 DEF StreamFields
  <2>2. QED
    BY <1>1, <1>5, <2>1 DEF DecodedFrom
<1>6. CASE ValidateUtf8(content) = 0
  <2>1. stream'.status = "valid" /\ stream'.codepoints = cps
    BY <1>2, <1>3, <1>6 DEF StreamFields
  <2>2. QED
    BY <1>1, <1>4, <1>6, <2>1 DEF DecodedFrom
<1>7. QED
  BY <1>5, <1>6

LEMMA StreamStepOK ==
  ASSUME StreamInv,
         \/ StreamNext
         \/ \E codepoint \in CodePoints : StreamConsume(codepoint)
         \/ \E sequence \in Sequences : StreamConsumeSequence(sequence)
         \/ StreamReset
         \/ \E id \in Nat : StreamInitNoFile(id),
         UNCHANGED seen
  PROVE  StreamInv' /\ (stream'.status = "valid" => stream.status = "valid"
                                               /\ stream'.file = stream.file)
<1> DEFINE Kept == stream'.status = "valid" => stream.status = "valid"
                                                    /\ stream'.file = stream.file
<1>1. StreamOK(stream) /\ Follows(stream, stream)
  BY DEF StreamInv, Follows
<1>2. Follows(stream, Advanced(stream))
  BY <1>1, AdvancedOK
<1>3. CASE Follows(stream, stream')
  BY <1>3 DEF StreamInv, Follows, DecodedFrom
<1>4. CASE StreamNext
  BY <1>2, <1>3, <1>4 DEF StreamNext
<1>5. CASE \E codepoint \in CodePoints : StreamConsume(codepoint)
  BY <1>1, <1>2, <1>3, <1>5 DEF StreamConsume
<1>6. ASSUME NEW sequence \in Sequences, StreamConsumeSequence(sequence)
      PROVE  StreamInv' /\ Kept
  <2>1. sequence \in Seq(Nat)
    BY SourceFilesAssumption
  <2>2. Len(sequence) \in Nat
    BY <2>1
  <2>3. Follows(stream, AdvancedBy(stream, Len(sequence)))
    BY <1>1, <2>2, AdvancedByOK
  <2>4. QED
    BY <1>1, <1>3, <1>6, <2>3 DEF StreamConsumeSequence
<1>7. CASE StreamReset
  <2>1. /\ DOMAIN stream = StreamFields /\ Len(stream.codepoints) \in Nat
    BY <1>1 DEF StreamOK
  <2>2. /\ DOMAIN stream' = DOMAIN stream /\ stream'.position = 0
        /\ stream'.status = stream.status /\ stream'.codepoints = stream.codepoints
        /\ stream'.file = stream.file /\ stream'.line = 0
    BY <1>7, <2>1 DEF StreamReset, StreamFields
  <2>3. /\ stream'.position \in 0 .. Len(stream.codepoints) /\ stream'.line \in Nat
        /\ LineFits(stream'.line, stream.codepoints, stream'.position)
    BY <2>1, <2>2, FeedsNone DEF LineFits
  <2>4. StreamOK(stream')
    BY <1>1, <2>2, <2>3, MovedOK
  <2>5. QED
    BY <1>3, <2>2, <2>4 DEF Follows
<1>8. ASSUME NEW id \in Nat, StreamInitNoFile(id)
      PROVE  StreamInv' /\ Kept
  <2>1. stream' = Restarted(id)
    BY <1>8 DEF StreamInitNoFile
  <2>2. StreamOK(stream')
    BY <1>1, <2>1, RestartedIs
  <2>3. stream'.status = "initialized"
    BY <1>1, <2>1 DEF Restarted, StreamOK, StreamFields
  <2>4. QED
    BY <2>2, <2>3 DEF StreamInv, DecodedFrom
<1>9. QED
  BY <1>4, <1>5, <1>6, <1>7, <1>8

ReadInv ==
  /\ FilesOK(files) /\ StreamInv
  /\ stream.status = "valid" => stream.file < Len(files)

LEMMA InitReads == Init => ReadInv
<1> SUFFICES ASSUME Init PROVE ReadInv
  OBVIOUS
<1> DEFINE none == {}
<1>1. << >> \in Seq(none) /\ \A e \in none : EntryOK(e)
  OBVIOUS
<1> HIDE DEF none
<1>2. \E S : << >> \in Seq(S) /\ \A e \in S : EntryOK(e)
  BY <1>1, Zenon
<1>3. FilesOK(<< >>)
  BY <1>2, Zenon DEF FilesOK
<1>4. StreamInv
  BY NewStreamOK, EmptyIn DEF Init, StreamInv, DecodedFrom, NewStream
<1>5. stream.status # "valid"
  BY DEF Init, NewStream
<1>6. QED
  BY <1>3, <1>4, <1>5 DEF Init, ReadInv

LEMMA NextReads == DiskInv /\ ReadInv /\ [Next]_vars => ReadInv'
<1> SUFFICES ASSUME DiskInv, ReadInv, [Next]_vars PROVE ReadInv'
  OBVIOUS
<1>1. FilesOK(files) /\ StreamInv /\ StreamOK(stream)
  BY DEF ReadInv, StreamInv
<1>2. CASE UNCHANGED <<files, streamVars>>
  BY <1>1, <1>2 DEF ReadInv, StreamInv, streamVars
<1>3. CASE UNCHANGED streamVars /\ FilesOK(files') /\ Len(files) <= Len(files')
  <2>1. Len(files) \in Nat /\ Len(files') \in Nat
    BY <1>1, <1>3, EntriesAreOK
  <2>2. stream.file \in Nat
    BY <1>1 DEF StreamOK
  <2>3. stream.status = "valid" => stream.file < Len(files)
    BY DEF ReadInv
  <2>4. stream.status = "valid" => stream.file < Len(files')
    BY <1>3, <2>1, <2>2, <2>3
  <2>5. QED
    BY <1>1, <1>3, <2>4 DEF ReadInv, StreamInv, streamVars
<1>4. CASE /\ UNCHANGED files /\ StreamInv'
           /\ stream'.status = "valid" => stream.status = "valid"
                                         /\ stream'.file = stream.file
  BY <1>1, <1>4 DEF ReadInv
<1>5. ASSUME NEW id \in Nat, OpenStream(id) PROVE ReadInv'
  <2>1. /\ FilesOK(files') /\ StreamOK(stream') /\ files'[id + 1].content \in Contents
        /\ stream'.file < Len(files')
    BY <1>1, <1>5, OpenOK
  <2>2. seen' \in Contents /\ DecodedFrom(stream', seen')
    BY <1>1, <1>5, <2>1, OpenDecodes
  <2>3. QED
    BY <2>1, <2>2 DEF ReadInv, StreamInv
<1>6. CASE Read
  <2>1. CASE OnFiles(RegisterFile(Source))
    BY <1>1, <1>3, <2>1, RegisterOK DEF OnFiles, streamVars
  <2>2. CASE Load(0) /\ UNCHANGED streamVars
    BY <1>1, <1>3, <2>2, LoadOK DEF streamVars
  <2>3. CASE OpenStream(0)
    BY <1>5, <2>3
  <2>4. CASE OnStream(StreamNext)
    BY <1>1, <1>4, <2>4, StreamStepOK DEF OnStream, fileVars
  <2>5. QED
    BY <1>6, <2>1, <2>2, <2>3, <2>4 DEF Read
<1>7. CASE EditDisk
  BY <1>2, <1>7 DEF EditDisk, OnDisk, fileVars, streamVars
<1>8. CASE EditFiles
  <2>1. CASE OnFiles(RegisterFile(Source))
    BY <1>1, <1>3, <2>1, RegisterOK DEF OnFiles, streamVars
  <2>2. CASE \E text \in Texts : \/ OnFiles(RegisterFileLoaded(Source, text))
                                 \/ OnFiles(RegisterVirtualFile(text))
    BY <1>1, <1>3, <2>2, RegisterOK DEF OnFiles, streamVars
  <2>3. CASE \E id : Load(id) /\ UNCHANGED streamVars
    BY <1>1, <1>3, <2>3, LoadOK DEF streamVars
  <2>4. CASE \E id : OnFiles(Unload(id))
    BY <1>1, <1>3, <2>4, LoadOK DEF OnFiles, streamVars
  <2>5. QED
    BY <1>8, <2>1, <2>2, <2>3, <2>4 DEF EditFiles
<1>9. CASE EditStream
  <2>1. \A id \in 0 .. MaxFiles : id \in Nat
    BY SourceFilesAssumption
  <2>2. CASE \E id \in 0 .. MaxFiles : OpenStream(id)
    BY <1>5, <2>1, <2>2
  <2>3. CASE \E id \in 0 .. MaxFiles : StreamInitNoFile(id)
    BY <1>1, <1>4, <2>1, <2>3, StreamStepOK DEF StreamInitNoFile
  <2>4. CASE \/ OnStream(StreamNext)
             \/ \E codepoint \in CodePoints : OnStream(StreamConsume(codepoint))
             \/ \E sequence \in Sequences : OnStream(StreamConsumeSequence(sequence))
             \/ OnStream(StreamReset)
    BY <1>1, <1>4, <2>4, StreamStepOK DEF OnStream, fileVars
  <2>5. QED
    BY <1>9, <2>2, <2>3, <2>4 DEF EditStream
<1>10. CASE KeepFiles \/ KeepDirectories \/ KeepTemps
  BY <1>2, <1>10 DEF KeepFiles, KeepDirectories, KeepTemps, OnDisk, fileVars, streamVars
<1>11. CASE UNCHANGED vars
  BY <1>2, <1>11 DEF vars, fileVars, streamVars
<1>12. QED
  BY <1>6, <1>7, <1>8, <1>9, <1>10, <1>11 DEF Next, Edit, Keep

\* Whatever calls fail and whatever is renamed, every node lies in a directory
\* that is there; a file that is not loaded keeps nothing of what it read; and
\* the stream never stands behind what it decoded.
THEOREM TypeCorrect == Spec => []TypeOK
<1>1. FilesInv /\ ReadInv => TypeOK
  <2> SUFFICES ASSUME FilesInv, ReadInv PROVE TypeOK
    OBVIOUS
  <2>1. /\ Len(files) \in Nat /\ DOMAIN files = 1 .. Len(files)
        /\ \A i \in 1 .. Len(files) : EntryOK(files[i])
    BY EntriesAreOK DEF ReadInv
  <2>2. \A i \in DOMAIN files :
          files[i].status = "not_loaded" =>
            files[i].content = << >> /\ files[i].line_ends = << >>
    BY <2>1 DEF EntryOK
  <2>3. \A node \in Nodes : Exists(node) => InDirectory(disk, node)
    BY DEF FilesInv, DiskInv, Tree, There, Exists
  <2>4. faults \in 0 .. MaxFaults
    BY DEF FilesInv, DiskInv
  <2>5. QED
    BY <2>2, <2>3, <2>4 DEF TypeOK, ReadInv, StreamInv, StreamOK
<1>2. FilesInv => DiskInv
  BY DEF FilesInv
<1>3. FilesInv /\ ReadInv /\ [Next]_vars => FilesInv' /\ ReadInv'
  BY <1>2, NextFiles, NextReads
<1>4. Init => FilesInv /\ ReadInv
  BY InitFiles, InitReads
<1>5. QED
  BY <1>1, <1>3, <1>4, PTL DEF Spec

\* Whatever is registered, loaded, unloaded and edited: the lines that a loaded
\* file hands out by number are those read_lines() makes of its content, if it
\* has one.
THEOREM CutsCorrect == Spec => []LinesAgree
<1>1. ReadInv => LinesAgree
  <2> SUFFICES ASSUME ReadInv, NEW id \in 0 .. Len(files) - 1, Loaded(id),
                      FileAt(id).content # << >>
               PROVE  [n \in 1 .. LineCount(id) |-> LineAt(id, n)]
                        = ReadLines(FileAt(id).content)
    BY DEF LinesAgree
  <2> DEFINE e == FileAt(id)
  <2>1. EntryOK(e)
    <3>1. Len(files) \in Nat /\ \A i \in 1 .. Len(files) : EntryOK(files[i])
      BY EntriesAreOK DEF ReadInv
    <3>2. id + 1 \in 1 .. Len(files)
      BY <3>1
    <3>3. QED
      BY <3>1, <3>2 DEF FileAt
  <2>2. e.content \in Contents /\ e.line_ends = IndexNewlines(e.content)
    BY <2>1 DEF EntryOK, Loaded
  <2>3. QED
    BY <2>2, LinesAre DEF LineCount, LineAt
<1>2. FilesInv => DiskInv
  BY DEF FilesInv
<1>3. FilesInv /\ ReadInv /\ [Next]_vars => FilesInv' /\ ReadInv'
  BY <1>2, NextFiles, NextReads
<1>4. Init => FilesInv /\ ReadInv
  BY InitFiles, InitReads
<1>5. QED
  BY <1>1, <1>3, <1>4, PTL DEF Spec

-----------------------------------------------------------------------------
(* The stream and UTF-8 *)

\* What the stream decoded of a content that is UTF-8 encodes it, as far as
\* utf8_truncate() cuts it.
LEMMA DecodedEncodes ==
  ASSUME NEW c \in Contents, IsUtf8(c)
  PROVE  LET cps == DecodeBulk(c)
         IN  /\ EncodeAll(cps) = c
             /\ \A n \in 0 .. Len(cps) : EncodeAll(SubSeq(cps, 1, n)) = Utf8Truncate(c, n)
<1>1. PICK at : Walk(c, 1, DecodeBulk(c), at)
  BY WalkIs
<1> DEFINE cps == DecodeBulk(c)
           m == Len(cps)
           S == AllAt(c)
<1>2. Walk(c, 1, cps, at)
  BY <1>1
<1> HIDE DEF cps, S
<1>3. cps \in Seq(S) /\ at[m] = Len(c) + 1
  BY <1>2 DEF Walk, S
<1>4. m \in Nat
  BY <1>3
<1> HIDE DEF m
<1>5. ASSUME NEW n \in 0 .. m
      PROVE  /\ EncodeAll(SubSeq(cps, 1, n)) = SubSeq(c, 1, at[n] - 1)
             /\ Utf8Truncate(c, n) = SubSeq(c, 1, at[n] - 1)
  BY <1>2, EncodedIs, TruncatedIs DEF m
<1>6. EncodeAll(cps) = c
  <2>1. SubSeq(cps, 1, m) = cps
    BY <1>3, <1>4 DEF m
  <2> DEFINE B == 0 .. 255
  <2>2. Len(c) \in Nat /\ c \in Seq(B)
    BY BytesAre DEF Contents
  <2>3. Len(c) + 1 - 1 = Len(c)
    BY <2>2
  <2> HIDE DEF B
  <2>4. SubSeq(c, 1, Len(c)) = c
    BY <2>2
  <2>5. m \in 0 .. m
    BY <1>4
  <2>6. EncodeAll(SubSeq(cps, 1, m)) = SubSeq(c, 1, at[m] - 1)
    BY <1>5, <2>5
  <2>7. SubSeq(c, 1, at[m] - 1) = c
    <3>1. at[m] - 1 = Len(c)
      BY <1>3, <2>2
    <3>2. QED
      BY <2>4, <3>1, Zenon
  <2>8. QED
    BY <2>1, <2>6, <2>7, Zenon
<1>7. QED
  BY <1>5, <1>6 DEF cps, m

\* Whatever bytes a file holds and however often it is read, edited and read
\* again: init() accepts them when they are UTF-8 and turns them away when they
\* are not, but for the exceptions it names, and the code points of the stream
\* are those the bytes encode, which utf8_truncate() cuts at the same places.
THEOREM DecodesCorrect == Spec => []DecodesUtf8
<1>1. ReadInv => DecodesUtf8
  <2> SUFFICES ASSUME ReadInv PROVE DecodesUtf8
    OBVIOUS
  <2>1. seen \in Contents /\ DecodedFrom(stream, seen)
    BY DEF ReadInv, StreamInv
  <2>2. CASE stream.status = "valid" /\ seen # << >>
    <3>1. stream.codepoints = DecodeBulk(seen) /\ ValidateUtf8(seen) = 0
      BY <2>1, <2>2 DEF DecodedFrom
    <3>2. IsUtf8(seen) =>
            /\ EncodeAll(stream.codepoints) = seen
            /\ \A n \in 0 .. Len(stream.codepoints) :
                 EncodeAll(SubSeq(stream.codepoints, 1, n)) = Utf8Truncate(seen, n)
      BY <2>1, <3>1, DecodedEncodes
    <3>3. ~ IsUtf8(seen) => LetThrough(seen)
      BY <2>1, <2>2, <3>1, AcceptedIsUtf8
    <3>4. stream.status # "invalid"
      BY <2>2
    <3>5. QED
      BY <2>2, <3>2, <3>3, <3>4, Zenon DEF DecodesUtf8, TruncateAgrees
  <2>3. CASE ~ (stream.status = "valid" /\ seen # << >>)
    <3>1. stream.status = "invalid" => ~ IsUtf8(seen) \/ TurnedAway(seen)
      BY <2>1, RefusedIsTurnedAway DEF DecodedFrom
    <3>2. QED
      BY <2>3, <3>1, Zenon DEF DecodesUtf8, TruncateAgrees
  <2>4. QED
    BY <2>2, <2>3
<1>2. FilesInv => DiskInv
  BY DEF FilesInv
<1>3. FilesInv /\ ReadInv /\ [Next]_vars => FilesInv' /\ ReadInv'
  BY <1>2, NextFiles, NextReads
<1>4. Init => FilesInv /\ ReadInv
  BY InitFiles, InitReads
<1>5. QED
  BY <1>1, <1>3, <1>4, PTL DEF Spec

\* The line a stream counts, over whatever content and after whatever calls, is
\* the number of line feeds it has gone past or one more, and a line that its
\* file has, as long as that is loaded with what the stream decoded.
THEOREM LinesCorrect == Spec => []StreamLineInFile
<1>1. ReadInv => StreamLineInFile
  <2> SUFFICES ASSUME ReadInv, stream.status = "valid", seen # << >>
               PROVE  /\ stream.line \in {LinesBefore(stream), LinesBefore(stream) + 1}
                      /\ Loaded(stream.file) /\ FileAt(stream.file).content = seen =>
                           \/ stream.line <= LineCount(stream.file)
                           \/ Eof(stream) /\ Last(stream.codepoints) = LF
    BY DEF StreamLineInFile
  <2> DEFINE cps == stream.codepoints
             n == stream.position
             line == stream.line
             id == stream.file
  <2>1. /\ StreamOK(stream) /\ seen \in Contents /\ DecodedFrom(stream, seen)
        /\ FilesOK(files) /\ id < Len(files)
    BY DEF ReadInv, StreamInv
  <2>2. /\ n \in 0 .. Len(cps) /\ Len(cps) \in Nat /\ id \in Nat /\ line \in Nat
        /\ LineFits(line, cps, n)
    BY <2>1 DEF StreamOK
  <2>3. cps = DecodeBulk(seen)
    BY <2>1 DEF DecodedFrom
  <2>4. LinesBefore(stream) = FeedCount(cps, n)
    BY DEF LinesBefore, FeedCount, Feeds
  <2>5. FeedCount(cps, n) \in Nat
    BY <2>2, FeedsAre
  <2>6. line <= FeedCount(cps, n) + 1
    BY <2>2, <2>5 DEF LineFits
  <2>7. ASSUME Loaded(id), FileAt(id).content = seen
        PROVE  line <= LineCount(id) \/ (Eof(stream) /\ Last(cps) = LF)
    <3>1. id + 1 \in 1 .. Len(files) /\ EntryOK(files[id + 1])
      <4>1. FilesOK(files)
        BY <2>1
      <4>2. Len(files) \in Nat
        BY <4>1, EntriesAreOK
      <4>3. id + 1 \in 1 .. Len(files)
        BY <2>1, <2>2, <4>2
      <4>4. QED
        BY <4>1, <4>3, EntriesAreOK
    <3>2. FileAt(id).line_ends = IndexNewlines(seen)
      BY <2>7, <3>1 DEF EntryOK, FileAt, Loaded
    <3>3. LineCount(id) = Len(IndexNewlines(seen))
      BY <3>2 DEF LineCount
    <3>4. CASE n = Len(cps) /\ cps[n] = LF
      BY <3>4 DEF Eof, Last
    <3>5. CASE ~ (n = Len(cps) /\ cps[n] = LF)
      <4>1. FeedCount(cps, n) + 1 <= Len(IndexNewlines(seen))
        BY <2>1, <2>2, <2>3, <3>5, LineInFile
      <4>2. Len(IndexNewlines(seen)) \in Nat
        <5>1. Len(seen) \in Nat
          BY <2>1, BytesAre
        <5>2. FeedCount(seen, Len(seen)) \in Nat
          BY <5>1, FeedsAre
        <5>3. QED
          BY <2>1, <5>2, LineCountIs
      <4>3. QED
        BY <2>2, <2>5, <2>6, <3>3, <4>1, <4>2
    <3>6. QED
      BY <3>4, <3>5
  <2>8. line \in {LinesBefore(stream), LinesBefore(stream) + 1}
    BY <2>2, <2>4 DEF LineFits
  <2>9. QED
    BY <2>7, <2>8
<1>2. FilesInv => DiskInv
  BY DEF FilesInv
<1>3. FilesInv /\ ReadInv /\ [Next]_vars => FilesInv' /\ ReadInv'
  BY <1>2, NextFiles, NextReads
<1>4. Init => FilesInv /\ ReadInv
  BY InitFiles, InitReads
<1>5. QED
  BY <1>1, <1>3, <1>4, PTL DEF Spec
=============================================================================
