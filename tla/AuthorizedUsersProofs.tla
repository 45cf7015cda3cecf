------------------------ MODULE AuthorizedUsersProofs -------------------------
(***************************************************************************)
(* Theorems about AuthorizedUsers, for any sets of names and passwords,    *)
(* and any number of edits: the two parsers of the file agree, after a     *)
(* save only what the screen showed logs in, and saving implements         *)
(* Credentials.                                                            *)
(*                                                                         *)
(* A file is read line by line into a map.  What the map holds after i     *)
(* lines, Says below, is shown by induction over i: the last line of each  *)
(* key and no other.  From there on a file is known by the last plain line *)
(* of each role, a map by its entry for the role.                          *)
(***************************************************************************)
EXTENDS AuthorizedUsers, SequenceTheorems, WellFoundedInduction, TLAPS

-----------------------------------------------------------------------------
(* Maps. *)

(* What is in a map. *)
In(m, e) == \E i \in 1 .. Len(m) : m[i] = e

(* LinkedHashMap.put() *)
LEMMA PutMap ==
  ASSUME NEW m \in Seq(Entry), OneEntryPerKey(m), NEW e \in Entry
  PROVE  /\ Put(m, e) \in Seq(Entry) /\ OneEntryPerKey(Put(m, e)) /\ Put(m, e) # <<>>
         /\ \A x : In(Put(m, e), x) <=> x = e \/ (In(m, x) /\ x.key # e.key)
<1>. DEFINE p == Put(m, e)
<1>1. Len(m) \in Nat /\ DOMAIN m = 1 .. Len(m) /\ \A i \in 1 .. Len(m) : m[i] \in Entry
  OBVIOUS
<1>2. \A i, j \in 1 .. Len(m) : m[i].key = m[j].key => i = j
  BY <1>1 DEF OneEntryPerKey
<1>3. CASE \E i \in DOMAIN m : m[i].key = e.key
  <2>1. p = [i \in 1 .. Len(m) |-> IF m[i].key = e.key THEN e ELSE m[i]]
    BY <1>1, <1>3 DEF Put
  <2>. HIDE DEF p
  <2>2. p \in Seq(Entry) /\ Len(p) = Len(m) /\ DOMAIN p = 1 .. Len(m)
    BY <1>1, <2>1
  <2>3. \A i \in 1 .. Len(m) : p[i] = (IF m[i].key = e.key THEN e ELSE m[i]) /\ p[i].key = m[i].key
    BY <1>1, <2>1
  <2>4. OneEntryPerKey(p)
    BY <1>2, <2>2, <2>3 DEF OneEntryPerKey
  <2>5. PICK k \in 1 .. Len(m) : m[k].key = e.key
    BY <1>1, <1>3
  <2>6. p # <<>> /\ p[k] = e
    BY <1>1, <2>2, <2>3, <2>5
  <2>7. ASSUME NEW x PROVE In(p, x) <=> x = e \/ (In(m, x) /\ x.key # e.key)
    <3>1. ASSUME In(p, x) PROVE x = e \/ (In(m, x) /\ x.key # e.key)
      BY <2>2, <2>3, <3>1 DEF In
    <3>2. ASSUME In(m, x), x.key # e.key PROVE In(p, x)
      BY <2>2, <2>3, <3>2 DEF In
    <3>3. In(p, e)
      BY <2>2, <2>5, <2>6 DEF In
    <3>. QED
      BY <3>1, <3>2, <3>3
  <2>. QED
    BY <2>2, <2>4, <2>6, <2>7 DEF p
<1>4. CASE ~ \E i \in DOMAIN m : m[i].key = e.key
  <2>1. p = Append(m, e)
    BY <1>4 DEF Put
  <2>. HIDE DEF p
  <2>2. /\ p \in Seq(Entry) /\ Len(p) = Len(m) + 1 /\ DOMAIN p = 1 .. (Len(m) + 1) /\ p # <<>>
        /\ p[Len(m) + 1] = e /\ \A i \in 1 .. Len(m) : p[i] = m[i]
    BY <1>1, <2>1
  <2>3. \A i \in 1 .. (Len(m) + 1) : i \in 1 .. Len(m) \/ i = Len(m) + 1
    BY <1>1
  <2>4. OneEntryPerKey(p)
    <3>. SUFFICES ASSUME NEW i \in 1 .. (Len(m) + 1), NEW j \in 1 .. (Len(m) + 1), p[i].key = p[j].key
                  PROVE  i = j
      BY <2>2 DEF OneEntryPerKey
    <3>. QED
      BY <1>1, <1>2, <1>4, <2>2, <2>3
  <2>5. ASSUME NEW x PROVE In(p, x) <=> x = e \/ (In(m, x) /\ x.key # e.key)
    <3>1. In(p, x) <=> x = e \/ In(m, x)
      BY <1>1, <2>2, <2>3 DEF In
    <3>2. In(m, x) => x.key # e.key
      BY <1>1, <1>4 DEF In
    <3>. QED
      BY <3>1, <3>2
  <2>. QED
    BY <2>2, <2>4, <2>5 DEF p
<1>. QED
  BY <1>3, <1>4

(* LinkedHashMap.remove() *)
LEMMA RemoveMap ==
  ASSUME NEW m \in Seq(Entry), OneEntryPerKey(m), NEW k
  PROVE  /\ RemoveKey(m, k) \in Seq(Entry) /\ OneEntryPerKey(RemoveKey(m, k))
         /\ \A x : In(RemoveKey(m, k), x) <=> In(m, x) /\ x.key # k
<1>. DEFINE p == RemoveKey(m, k)
            at == {i \in DOMAIN m : m[i].key = k}
            n == CHOOSE i \in at : TRUE
<1>1. Len(m) \in Nat /\ DOMAIN m = 1 .. Len(m) /\ \A i \in 1 .. Len(m) : m[i] \in Entry
  OBVIOUS
<1>2. \A i, j \in 1 .. Len(m) : m[i].key = m[j].key => i = j
  BY <1>1 DEF OneEntryPerKey
<1>3. CASE at = {}
  <2>1. p = m
    BY <1>3 DEF RemoveKey
  <2>2. \A x : In(m, x) => x.key # k
    BY <1>1, <1>3 DEF In
  <2>. QED
    BY <2>1, <2>2
<1>4. CASE at # {}
  <2>1. p = RemoveAt(m, n)
    BY <1>4 DEF RemoveKey
  <2>2. n \in 1 .. Len(m) /\ m[n].key = k
    BY <1>1, <1>4
  <2>. HIDE DEF n, p, at
  <2>3. /\ p \in Seq(Entry) /\ Len(p) = Len(m) - 1 /\ DOMAIN p = 1 .. (Len(m) - 1)
        /\ \A i \in 1 .. (Len(m) - 1) : p[i] = m[IF i < n THEN i ELSE i + 1]
    <3>. DEFINE a == SubSeq(m, 1, n - 1)
                b == SubSeq(m, n + 1, Len(m))
    <3>1. /\ a \in Seq(Entry) /\ Len(a) = n - 1 /\ \A i \in 1 .. (n - 1) : a[i] = m[i]
      BY <1>1, <2>2
    <3>2. /\ b \in Seq(Entry) /\ Len(b) = Len(m) - n
          /\ \A i \in 1 .. (Len(m) - n) : b[i] = m[i + n]
      <4>1. n + 1 \in Int /\ Len(m) \in Int /\ \A i \in (n + 1) .. Len(m) : m[i] \in Entry
        BY <1>1, <2>2
      <4>2. /\ b \in Seq(Entry) /\ Len(b) = IF n + 1 <= Len(m) THEN Len(m) - (n + 1) + 1 ELSE 0
            /\ \A i \in 1 .. Len(m) - (n + 1) + 1 : b[i] = m[n + 1 + i - 1]
        BY <4>1, SubSeqProperties
      <4>. HIDE DEF b
      <4>3. Len(b) = Len(m) - n
        <5>1. \A x \in Nat : \A y \in 1 .. x :
                /\ y + 1 <= x => x - (y + 1) + 1 = x - y
                /\ ~(y + 1 <= x) => 0 = x - y
          OBVIOUS
        <5>2. Len(m) \in Nat /\ n \in 1 .. Len(m)
          BY <1>1, <2>2
        <5>. QED
          BY <4>2, <5>1, <5>2, Zenon
      <4>4. ASSUME NEW i \in 1 .. (Len(m) - n) PROVE b[i] = m[i + n]
        <5>1. i \in 1 .. Len(m) - (n + 1) + 1 /\ n + 1 + i - 1 = i + n
          BY <1>1, <2>2
        <5>. QED
          BY <4>2, <5>1
      <4>. QED
        BY <4>2, <4>3, <4>4
    <3>3. p = a \o b
      BY <2>1 DEF RemoveAt
    <3>. HIDE DEF a, b
    <3>4. p \in Seq(Entry) /\ Len(p) = Len(m) - 1 /\ DOMAIN p = 1 .. (Len(m) - 1)
      <4>1. p \in Seq(Entry) /\ Len(p) = Len(a) + Len(b)
        BY <3>1, <3>2, <3>3
      <4>2. Len(a) + Len(b) = Len(m) - 1
        BY <1>1, <2>2, <3>1, <3>2
      <4>. QED
        BY <4>1, <4>2
    <3>5. ASSUME NEW i \in 1 .. (Len(m) - 1)
          PROVE  p[i] = m[IF i < n THEN i ELSE i + 1]
      <4>1. CASE i < n
        BY <1>1, <2>2, <3>1, <3>2, <3>3, <4>1
      <4>2. CASE ~(i < n)
        <5>1. p[i] = b[i - (n - 1)] /\ i - (n - 1) \in 1 .. (Len(m) - n)
          BY <1>1, <2>2, <3>1, <3>2, <3>3, <4>2
        <5>2. b[i - (n - 1)] = m[i - (n - 1) + n]
          BY <3>2, <5>1
        <5>3. i - (n - 1) + n = i + 1
          BY <1>1, <2>2
        <5>. QED
          BY <4>2, <5>1, <5>2, <5>3
      <4>. QED
        BY <4>1, <4>2
    <3>. QED
      BY <3>4, <3>5
  <2>4. OneEntryPerKey(p)
    <3>. SUFFICES ASSUME NEW i \in 1 .. (Len(m) - 1), NEW j \in 1 .. (Len(m) - 1), p[i].key = p[j].key
                  PROVE  i = j
      BY <2>3 DEF OneEntryPerKey
    <3>. QED
      BY <1>1, <1>2, <2>2, <2>3
  <2>5. ASSUME NEW x PROVE In(p, x) <=> In(m, x) /\ x.key # k
    <3>1. ASSUME In(p, x) PROVE In(m, x) /\ x.key # k
      BY <1>1, <1>2, <2>2, <2>3, <3>1 DEF In
    <3>2. ASSUME In(m, x), x.key # k PROVE In(p, x)
      <4>1. PICK i \in 1 .. Len(m) : m[i] = x
        BY <3>2 DEF In
      <4>2. i # n
        BY <2>2, <3>2, <4>1
      <4>3. CASE i < n
        <5>1. i \in 1 .. (Len(m) - 1) /\ p[i] = x
          BY <1>1, <2>2, <2>3, <4>1, <4>3
        <5>. QED
          BY <2>3, <5>1 DEF In
      <4>4. CASE i > n
        <5>1. i - 1 \in 1 .. (Len(m) - 1) /\ ~(i - 1 < n) /\ i - 1 + 1 = i
          BY <1>1, <2>2, <4>4
        <5>2. p[i - 1] = x
          BY <2>3, <4>1, <5>1
        <5>. QED
          BY <2>3, <5>1, <5>2 DEF In
      <4>. QED
        BY <1>1, <2>2, <4>2, <4>3, <4>4
    <3>. QED
      BY <3>1, <3>2
  <2>. QED
    BY <2>3, <2>4, <2>5 DEF p
<1>. QED
  BY <1>3, <1>4

-----------------------------------------------------------------------------
(* Reading the file, by induction over its lines. *)

(* A set of natural numbers has a least element. *)
LEMMA Least ==
  ASSUME NEW T \in SUBSET Nat, T # {}
  PROVE  \E x \in T : \A y \in T : x <= y
<1>. DEFINE R == {ss \in Nat \X Nat : ss[1] < ss[2]}
<1>1. IsWellFoundedOn(R, Nat)
  BY NatLessThanWellFounded, Zenon DEF OpToRel
<1>2. PICK x \in T : \A y \in T : ~ (<<y, x>> \in R)
  <2>. HIDE DEF R
  <2>. QED
    BY <1>1, WFMin, Zenon
<1>3. ASSUME NEW y \in T PROVE ~ (y < x)
  <2>1. <<y, x>> \in Nat \X Nat /\ <<y, x>>[1] = y /\ <<y, x>>[2] = x
    OBVIOUS
  <2>. SUFFICES ASSUME y < x PROVE FALSE
    OBVIOUS
  <2>2. <<y, x>> \in R
    BY <2>1
  <2>. QED
    BY <1>2, <2>2, Zenon
<1>. QED
  BY <1>3

(* Induction: a set that has 0 and, with each number, the next, has all. *)
LEMMA Induction ==
  ASSUME NEW T, 0 \in T, \A n \in Nat : n \in T => n + 1 \in T
  PROVE  Nat \subseteq T
<1>. DEFINE Bad == Nat \ T
<1>. SUFFICES ASSUME Bad # {} PROVE FALSE
  OBVIOUS
<1>1. PICK n \in Bad : \A m \in Bad : n <= m
  <2>1. Bad \in SUBSET Nat
    OBVIOUS
  <2>. HIDE DEF Bad
  <2>. QED
    BY <2>1, Least
<1>2. n # 0 /\ n - 1 \in Nat /\ n - 1 \in T
  BY <1>1
<1>. QED
  BY <1>2

(* What readAllAuthorizedUsers() computes from the lines f, line by line. *)
ReadStep(f, d, i) ==
  IF i = 0 THEN <<>>
  ELSE IF f[i].form \in Hidden THEN d[i - 1]
  ELSE Put(d[i - 1], ParsedLine(f[i]))

ReadUpTo(f) ==
  LET map[i \in 0 .. Len(f)] ==
        IF i = 0 THEN <<>>
        ELSE IF f[i].form \in Hidden THEN map[i - 1]
        ELSE Put(map[i - 1], ParsedLine(f[i]))
  IN  map

ReadMap(f) == ReadUpTo(f)[Len(f)]

(* The recursion defines a function. *)
LEMMA ReadRecursion ==
  ASSUME NEW f, Len(f) \in Nat
  PROVE  ReadUpTo(f) = [i \in 0 .. Len(f) |-> ReadStep(f, ReadUpTo(f), i)]
<1>. DEFINE T == {n \in Nat : \E d : d = [i \in 0 .. n |-> ReadStep(f, d, i)]}
<1>1. 0 \in T
  <2>. DEFINE e == [i \in 0 .. 0 |-> <<>>]
  <2>1. e = [i \in 0 .. 0 |-> ReadStep(f, e, i)]
    BY DEF ReadStep
  <2>. QED
    BY <2>1
<1>2. ASSUME NEW n \in Nat, n \in T PROVE n + 1 \in T
  <2>1. PICK d : d = [i \in 0 .. n |-> ReadStep(f, d, i)]
    BY <1>2
  <2>. DEFINE e == [i \in 0 .. (n + 1) |-> IF i <= n THEN d[i] ELSE ReadStep(f, d, n + 1)]
  <2>2. ASSUME NEW i \in 0 .. (n + 1) PROVE e[i] = ReadStep(f, e, i)
    <3>1. CASE i <= n
      <4>1. e[i] = d[i] /\ i \in 0 .. n
        BY <3>1
      <4>2. d[i] = ReadStep(f, d, i)
        BY <2>1, <4>1, Zenon
      <4>3. i # 0 => e[i - 1] = d[i - 1]
        BY <3>1
      <4>. QED
        BY <4>1, <4>2, <4>3 DEF ReadStep
    <3>2. CASE i = n + 1
      BY <3>2 DEF ReadStep
    <3>. QED
      BY <3>1, <3>2
  <2>3. e = [i \in 0 .. (n + 1) |-> ReadStep(f, e, i)]
    BY <2>2
  <2>. HIDE DEF e
  <2>4. n + 1 \in Nat
    OBVIOUS
  <2>. QED
    BY <2>3, <2>4, Zenon
<1>3. Nat \subseteq T
  <2>. HIDE DEF T
  <2>. QED
    BY <1>1, <1>2, Induction
<1>4. \E d : d = [i \in 0 .. Len(f) |-> ReadStep(f, d, i)]
  BY <1>3
<1>. QED
  BY <1>4, Zenon DEF ReadUpTo, ReadStep

(* A line through the app's parser: who it is an entry for. *)
LEMMA Parsed ==
  ASSUME NEW l \in Line, l.form \notin Hidden
  PROVE  /\ ParsedLine(l) \in Entry /\ ParsedLine(l).user = <<"plain", l.user>>
         /\ \A r : ParsedLine(l).key = <<Blank, r>> <=> l.form = "plain" /\ l.role = r
         /\ l.form = "plain" => ParsedLine(l).hash = l.hash
<1>1. l.form \in Form /\ l.user \in Name /\ l.hash \in Hash /\ l.role \in Role /\ l.hash # Blank
  BY TokenAssumption DEF Line
<1>2. CASE l.form = "tail"
  BY <1>1, <1>2 DEF ParsedLine, Entry, TailEntry
<1>3. CASE l.form = "plain"
  BY <1>1, <1>3 DEF ParsedLine, Entry, RoleEntry, Form, Hidden, WithRest
<1>. QED
  BY <1>1, <1>2, <1>3 DEF Form, Hidden, WithRest

(* Line i of the first n of f is the last one for its key. *)
LastFor(f, i, n) ==
  /\ f[i].form \notin Hidden
  /\ \A j \in (i + 1) .. n :
       f[j].form \notin Hidden => ParsedLine(f[j]).key # ParsedLine(f[i]).key

(* The map m is what the first n lines of f say. *)
Says(f, n, m) ==
  /\ m \in Seq(Entry) /\ OneEntryPerKey(m)
  /\ \A e : In(m, e) <=> \E i \in 1 .. n : LastFor(f, i, n) /\ e = ParsedLine(f[i])
  /\ \A i \in 1 .. n : f[i].form \notin Hidden => \E e : In(m, e) /\ e.key = ParsedLine(f[i]).key

(* One line more. *)
LEMMA SaysNext ==
  ASSUME NEW f \in Seq(Line), NEW n \in Nat, n + 1 <= Len(f), NEW m, Says(f, n, m)
  PROVE  Says(f, n + 1, ReadStep(f, [i \in {n} |-> m], n + 1))
<1>. DEFINE l == f[n + 1]
            e == ParsedLine(l)
            p == IF l.form \in Hidden THEN m ELSE Put(m, e)
<1>1. ReadStep(f, [i \in {n} |-> m], n + 1) = p
  BY DEF ReadStep
<1>2. l \in Line /\ 1 .. (n + 1) = 1 .. n \cup {n + 1}
  OBVIOUS
<1>3. m \in Seq(Entry) /\ OneEntryPerKey(m)
  BY DEF Says
<1>4. ASSUME NEW i \in 1 .. n
      PROVE  LastFor(f, i, n + 1) <=>
               LastFor(f, i, n) /\ (l.form \notin Hidden => e.key # ParsedLine(f[i]).key)
  <2>1. (i + 1) .. (n + 1) = (i + 1) .. n \cup {n + 1}
    OBVIOUS
  <2>. HIDE DEF e
  <2>. QED
    BY <2>1, Zenon DEF LastFor, e, l
<1>5. LastFor(f, n + 1, n + 1) <=> l.form \notin Hidden
  <2>1. (n + 1 + 1) .. (n + 1) = {}
    OBVIOUS
  <2>. QED
    BY <2>1, Zenon DEF LastFor
<1>6. CASE l.form \in Hidden
  <2>1. \A x : In(m, x) <=> \E i \in 1 .. (n + 1) : LastFor(f, i, n + 1) /\ x = ParsedLine(f[i])
    BY <1>2, <1>4, <1>5, <1>6, Zenon DEF Says
  <2>2. \A i \in 1 .. (n + 1) :
          f[i].form \notin Hidden => \E x : In(m, x) /\ x.key = ParsedLine(f[i]).key
    BY <1>2, <1>6, Zenon DEF Says
  <2>. QED
    BY <1>1, <1>3, <1>6, <2>1, <2>2 DEF Says
<1>7. CASE l.form \notin Hidden
  <2>1. e \in Entry
    BY <1>2, <1>7, Parsed
  <2>. HIDE DEF e, l
  <2>2. /\ p \in Seq(Entry) /\ OneEntryPerKey(p)
        /\ \A x : In(p, x) <=> x = e \/ (In(m, x) /\ x.key # e.key)
    BY <1>3, <1>7, <2>1, PutMap
  <2>. HIDE DEF p
  <2>3. ASSUME NEW x
        PROVE  In(p, x) <=> \E i \in 1 .. (n + 1) : LastFor(f, i, n + 1) /\ x = ParsedLine(f[i])
    <3>1. In(p, x) <=> x = e \/ (In(m, x) /\ x.key # e.key)
      BY <2>2
    <3>2. In(m, x) <=> \E i \in 1 .. n : LastFor(f, i, n) /\ x = ParsedLine(f[i])
      BY DEF Says
    <3>3. (In(m, x) /\ x.key # e.key)
            <=> \E i \in 1 .. n : LastFor(f, i, n + 1) /\ x = ParsedLine(f[i])
      BY <1>4, <1>7, <3>2, Zenon
    <3>4. x = e <=> LastFor(f, n + 1, n + 1) /\ x = ParsedLine(f[n + 1])
      BY <1>5, <1>7 DEF e, l
    <3>. QED
      BY <1>2, <3>1, <3>3, <3>4, Zenon
  <2>4. ASSUME NEW i \in 1 .. (n + 1), f[i].form \notin Hidden
        PROVE  \E x : In(p, x) /\ x.key = ParsedLine(f[i]).key
    <3>1. CASE ParsedLine(f[i]).key = e.key
      BY <2>2, <3>1, Zenon
    <3>2. CASE ParsedLine(f[i]).key # e.key
      <4>1. i \in 1 .. n
        BY <1>2, <3>2 DEF e, l
      <4>2. PICK x : In(m, x) /\ x.key = ParsedLine(f[i]).key
        BY <2>4, <4>1 DEF Says
      <4>. QED
        BY <2>2, <3>2, <4>2
    <3>. QED
      BY <3>1, <3>2
  <2>5. Says(f, n + 1, p)
    BY <2>2, <2>3, <2>4, Zenon DEF Says
  <2>. QED
    BY <1>1, <2>5
<1>. QED
  BY <1>6, <1>7

(* All lines. *)
LEMMA ReadSays ==
  ASSUME NEW f \in Seq(Line)
  PROVE  Says(f, Len(f), ReadMap(f))
<1>. DEFINE d == ReadUpTo(f)
            T == {n \in Nat : n <= Len(f) => Says(f, n, d[n])}
<1>1. Len(f) \in Nat
  OBVIOUS
<1>2. d = [i \in 0 .. Len(f) |-> ReadStep(f, d, i)]
  BY <1>1, ReadRecursion
<1>. HIDE DEF d
<1>3. \A i \in 0 .. Len(f) : d[i] = ReadStep(f, d, i)
  BY <1>2, Zenon
<1>4. 0 \in T
  <2>1. d[0] = <<>>
    BY <1>1, <1>3 DEF ReadStep
  <2>2. <<>> \in Seq(Entry) /\ Len(<<>>) = 0 /\ DOMAIN <<>> = {} /\ 1 .. 0 = {}
    OBVIOUS
  <2>3. \A e : ~In(<<>>, e)
    BY <2>2 DEF In
  <2>4. OneEntryPerKey(<<>>)
    BY <2>2 DEF OneEntryPerKey
  <2>5. Says(f, 0, <<>>)
    BY <2>2, <2>3, <2>4, Zenon DEF Says
  <2>. QED
    BY <2>1, <2>5
<1>5. ASSUME NEW n \in Nat, n \in T PROVE n + 1 \in T
  <2>. SUFFICES ASSUME n + 1 <= Len(f) PROVE Says(f, n + 1, d[n + 1])
    OBVIOUS
  <2>1. Says(f, n, d[n])
    BY <1>1, <1>5
  <2>. DEFINE m == d[n]
  <2>2. Says(f, n + 1, ReadStep(f, [i \in {n} |-> m], n + 1))
    BY <2>1, SaysNext
  <2>3. ReadStep(f, [i \in {n} |-> m], n + 1) = ReadStep(f, d, n + 1)
    BY DEF ReadStep
  <2>4. d[n + 1] = ReadStep(f, d, n + 1)
    BY <1>1, <1>3
  <2>. QED
    BY <2>2, <2>3, <2>4
<1>6. Nat \subseteq T
  <2>. HIDE DEF T
  <2>. QED
    BY <1>4, <1>5, Induction
<1>. QED
  BY <1>1, <1>6 DEF ReadMap, d

-----------------------------------------------------------------------------
(* The entry of a role. *)

(* readAuthorizedUser(), of a map and of the lines of a file. *)
UserOf(m, r) ==
  LET found == {e \in ToSet(m) : e.key = <<Blank, r>>}
  IN  IF found = {} THEN NoEntry
      ELSE LET e == CHOOSE e \in found : TRUE IN [user |-> e.user[2], hash |-> e.hash]

ReadUser(f, r) == UserOf(ReadMap(f), r)

(* The entry as a credential. *)
Of(e) == [user |-> e.user[2], hash |-> e.hash]

(* What is in a map is in its set. *)
LEMMA InSet ==
  ASSUME NEW S, NEW m \in Seq(S), NEW e
  PROVE  e \in ToSet(m) <=> In(m, e)
BY DEF ToSet, In

(* A key has one entry. *)
LEMMA OneEntry ==
  ASSUME NEW m \in Seq(Entry), OneEntryPerKey(m), NEW e, NEW x, In(m, e), In(m, x), e.key = x.key
  PROVE  e = x
BY DEF OneEntryPerKey, In

(* An entry of a role is a credential. *)
LEMMA RoleEntries ==
  ASSUME NEW m \in Seq(Entry), NEW e, In(m, e), NEW r, e.key = <<Blank, r>>
  PROVE  /\ e \in RoleEntry /\ e.user \in Form \X Name /\ e.hash \in Hash /\ r \in Role
         /\ Of(e) \in [user : Name, hash : Hash] /\ Of(e) # NoEntry
<1>1. e \in Entry
  BY DEF In
<1>2. e \notin TailEntry
  BY TokenAssumption DEF TailEntry
<1>3. e \in RoleEntry
  BY <1>1, <1>2 DEF Entry
<1>4. e.user \in Form \X Name /\ e.hash \in Hash /\ e.key \in {Blank} \X Role
  BY <1>3 DEF RoleEntry
<1>5. e.user[2] \in Name /\ r \in Role
  BY <1>4
<1>6. Of(e) \in [user : Name, hash : Hash]
  BY <1>4, <1>5 DEF Of
<1>. QED
  BY <1>3, <1>4, <1>5, <1>6, TokenAssumption

(* readAuthorizedUser() of a map. *)
LEMMA UserOfMap ==
  ASSUME NEW m \in Seq(Entry), OneEntryPerKey(m), NEW r
  PROVE  /\ \A e : In(m, e) /\ e.key = <<Blank, r>> => UserOf(m, r) = Of(e) /\ UserOf(m, r) # NoEntry
         /\ UserOf(m, r) # NoEntry => \E e : In(m, e) /\ e.key = <<Blank, r>>
<1>. DEFINE found == {e \in ToSet(m) : e.key = <<Blank, r>>}
            c == CHOOSE e \in found : TRUE
<1>1. \A e : e \in found <=> In(m, e) /\ e.key = <<Blank, r>>
  BY InSet
<1>2. UserOf(m, r) = IF found = {} THEN NoEntry ELSE Of(c)
  BY DEF UserOf, Of
<1>3. found # {} => c \in found
  BY Zenon
<1>. HIDE DEF found, c
<1>4. ASSUME NEW e, In(m, e), e.key = <<Blank, r>>
      PROVE  UserOf(m, r) = Of(e) /\ UserOf(m, r) # NoEntry
  <2>1. e \in found /\ c \in found
    BY <1>1, <1>3, <1>4
  <2>2. In(m, c) /\ c.key = e.key
    BY <1>1, <1>4, <2>1
  <2>3. c = e
    BY <1>4, <2>2, OneEntry
  <2>4. UserOf(m, r) = Of(e)
    BY <1>2, <2>1, <2>3
  <2>5. Of(e) # NoEntry
    BY <1>4, RoleEntries
  <2>. QED
    BY <2>4, <2>5
<1>5. UserOf(m, r) # NoEntry => \E e : In(m, e) /\ e.key = <<Blank, r>>
  BY <1>1, <1>2
<1>. QED
  BY <1>4, <1>5

(* A plain line of a role, and the last one of the role. *)
PlainFor(l, r) == l.form = "plain" /\ l.role = r
LastPlain(f, i, r) ==
  PlainFor(f[i], r) /\ \A j \in (i + 1) .. Len(f) : ~PlainFor(f[j], r)

CredOf(l) == [user |-> l.user, hash |-> l.hash]

(* The entries the app reads. *)
LEMMA ReadEntries ==
  ASSUME NEW f \in Seq(Line)
  PROVE  /\ ReadMap(f) \in Seq(Entry) /\ OneEntryPerKey(ReadMap(f))
         /\ \A e : In(ReadMap(f), e) => Usable(e.user)
         /\ \A e, r : In(ReadMap(f), e) /\ e.key = <<Blank, r>> =>
              \E i \in 1 .. Len(f) : LastPlain(f, i, r) /\ Of(e) = CredOf(f[i])
         /\ \A r : \A i \in 1 .. Len(f) : PlainFor(f[i], r) =>
              \E e : In(ReadMap(f), e) /\ e.key = <<Blank, r>>
<1>. DEFINE m == ReadMap(f)
<1>1. Says(f, Len(f), m)
  BY ReadSays
<1>. HIDE DEF m
<1>2. \A i \in 1 .. Len(f) : f[i] \in Line
  OBVIOUS
<1>3. m \in Seq(Entry) /\ OneEntryPerKey(m)
  BY <1>1 DEF Says
<1>4. ASSUME NEW e, In(m, e)
      PROVE  \E i \in 1 .. Len(f) : LastFor(f, i, Len(f)) /\ e = ParsedLine(f[i])
  BY <1>1, <1>4, Zenon DEF Says
<1>5. ASSUME NEW e, In(m, e) PROVE Usable(e.user)
  <2>1. PICK i \in 1 .. Len(f) : LastFor(f, i, Len(f)) /\ e = ParsedLine(f[i])
    BY <1>4, <1>5
  <2>2. f[i].form \notin Hidden
    BY <2>1 DEF LastFor
  <2>3. e.user = <<"plain", f[i].user>>
    BY <1>2, <2>1, <2>2, Parsed
  <2>. QED
    BY <2>3 DEF Usable
<1>6. ASSUME NEW e, NEW r, In(m, e), e.key = <<Blank, r>>
      PROVE  \E i \in 1 .. Len(f) : LastPlain(f, i, r) /\ Of(e) = CredOf(f[i])
  <2>1. PICK i \in 1 .. Len(f) : LastFor(f, i, Len(f)) /\ e = ParsedLine(f[i])
    BY <1>4, <1>6
  <2>2. /\ f[i].form \notin Hidden
        /\ \A j \in (i + 1) .. Len(f) : f[j].form \notin Hidden => ParsedLine(f[j]).key # e.key
    BY <2>1 DEF LastFor
  <2>3. PlainFor(f[i], r) /\ e.user = <<"plain", f[i].user>> /\ e.hash = f[i].hash
    BY <1>2, <1>6, <2>1, <2>2, Parsed DEF PlainFor
  <2>4. ASSUME NEW j \in (i + 1) .. Len(f), PlainFor(f[j], r) PROVE FALSE
    <3>1. j \in 1 .. Len(f)
      OBVIOUS
    <3>2. f[j] \in Line /\ f[j].form \notin Hidden /\ f[j].form = "plain" /\ f[j].role = r
      BY <1>2, <2>4, <3>1 DEF PlainFor, Hidden
    <3>3. ParsedLine(f[j]).key = <<Blank, r>>
      BY <3>2, Parsed
    <3>. QED
      BY <1>6, <2>2, <3>2, <3>3
  <2>5. Of(e) = CredOf(f[i])
    BY <2>3 DEF Of, CredOf
  <2>. QED
    BY <2>3, <2>4, <2>5, Zenon DEF LastPlain
<1>7. ASSUME NEW r, NEW i \in 1 .. Len(f), PlainFor(f[i], r)
      PROVE  \E e : In(m, e) /\ e.key = <<Blank, r>>
  <2>1. f[i] \in Line /\ f[i].form \notin Hidden /\ f[i].form = "plain" /\ f[i].role = r
    BY <1>2, <1>7 DEF PlainFor, Hidden
  <2>2. ParsedLine(f[i]).key = <<Blank, r>>
    BY <2>1, Parsed
  <2>. QED
    BY <1>1, <2>1, <2>2 DEF Says
<1>. QED
  BY <1>3, <1>5, <1>6, <1>7 DEF m

(* readAuthorizedUser() of a file: the last plain line of the role. *)
LEMMA ReadLast ==
  ASSUME NEW f \in Seq(Line), NEW r, NEW i \in 1 .. Len(f), LastPlain(f, i, r)
  PROVE  ReadUser(f, r) = CredOf(f[i]) /\ ReadUser(f, r) # NoEntry
<1>. DEFINE m == ReadMap(f)
<1>1. PlainFor(f[i], r)
  BY DEF LastPlain
<1>2. PICK e : In(m, e) /\ e.key = <<Blank, r>>
  BY <1>1, ReadEntries
<1>3. PICK j \in 1 .. Len(f) : LastPlain(f, j, r) /\ Of(e) = CredOf(f[j])
  BY <1>2, ReadEntries
<1>4. i = j
  <2>1. Len(f) \in Nat
    OBVIOUS
  <2>2. ~(i < j) /\ ~(j < i)
    BY <1>3, <2>1 DEF LastPlain
  <2>. QED
    BY <2>1, <2>2
<1>5. m \in Seq(Entry) /\ OneEntryPerKey(m)
  BY ReadEntries
<1>6. UserOf(m, r) = Of(e) /\ UserOf(m, r) # NoEntry
  BY <1>2, <1>5, UserOfMap
<1>. QED
  BY <1>3, <1>4, <1>6 DEF ReadUser

(* A file without one. *)
LEMMA ReadNone ==
  ASSUME NEW f \in Seq(Line), NEW r, \A i \in 1 .. Len(f) : ~PlainFor(f[i], r)
  PROVE  ReadUser(f, r) = NoEntry
<1>. DEFINE m == ReadMap(f)
<1>1. m \in Seq(Entry) /\ OneEntryPerKey(m)
  BY ReadEntries
<1>2. ~ \E e : In(m, e) /\ e.key = <<Blank, r>>
  BY ReadEntries DEF LastPlain
<1>. QED
  BY <1>1, <1>2, UserOfMap DEF ReadUser

(* There is none, or a last one. *)
LEMMA ReadEither ==
  ASSUME NEW f \in Seq(Line), NEW r
  PROVE  \/ ReadUser(f, r) = NoEntry /\ \A i \in 1 .. Len(f) : ~PlainFor(f[i], r)
         \/ \E i \in 1 .. Len(f) : LastPlain(f, i, r)
<1>1. CASE \A i \in 1 .. Len(f) : ~PlainFor(f[i], r)
  BY <1>1, ReadNone
<1>2. CASE ~ \A i \in 1 .. Len(f) : ~PlainFor(f[i], r)
  <2>1. \E e : In(ReadMap(f), e) /\ e.key = <<Blank, r>>
    BY <1>2, ReadEntries
  <2>. QED
    BY <2>1, ReadEntries
<1>. QED
  BY <1>1, <1>2

(* The operators of the specification are these, of the file. *)
LEMMA ReadersOfFile ==
  /\ readAllAuthorizedUsers = ReadMap(file)
  /\ \A r : readAuthorizedUser(r) = ReadUser(file, r)
<1>1. readAllAuthorizedUsers = ReadMap(file)
  BY Zenon DEF readAllAuthorizedUsers, ReadMap, ReadUpTo
<1>2. \A r : readAuthorizedUser(r) = ReadUser(file, r)
  BY <1>1, Zenon DEF readAuthorizedUser, ReadUser, UserOf
<1>. QED
  BY <1>1, <1>2

-----------------------------------------------------------------------------
(* Writing a map back. *)

(* An entry as a line: plain only where a role has an entry without a colon *)
(* in its name.                                                             *)
LEMMA Written ==
  ASSUME NEW e \in Entry
  PROVE  /\ LineOf(e) \in Line
         /\ \A r : PlainFor(LineOf(e), r) <=> e.key = <<Blank, r>> /\ Usable(e.user)
         /\ LineOf(e).form = "plain" => CredOf(LineOf(e)) = Of(e)
<1>. DEFINE l == LineOf(e)
<1>1. CASE e \in RoleEntry
  <2>1. /\ e.user \in Form \X Name /\ e.hash \in Hash /\ e.key \in {Blank} \X Role
        /\ e.hash # Rest
    BY <1>1, TokenAssumption DEF RoleEntry
  <2>2. /\ e.user[1] \in Form /\ e.user[2] \in Name /\ e.key[1] = Blank /\ e.key[2] \in Role
        /\ e.key = <<Blank, e.key[2]>>
    BY <2>1
  <2>3. l.form = e.user[1] /\ l.user = e.user[2] /\ l.hash = e.hash /\ l.role = e.key[2]
    BY <2>1 DEF LineOf
  <2>4. l \in Line
    BY <2>1, <2>2 DEF LineOf, Line
  <2>. HIDE DEF l
  <2>5. \A r : PlainFor(l, r) <=> e.key = <<Blank, r>> /\ Usable(e.user)
    BY <2>2, <2>3 DEF PlainFor, Usable
  <2>6. CredOf(l) = Of(e)
    BY <2>3 DEF CredOf, Of
  <2>. QED
    BY <2>4, <2>5, <2>6 DEF l
<1>2. CASE e \in TailEntry
  <2>1. e.user \in {"plain"} \X Name /\ e.hash = Rest /\ e.key \in Hash \X Role
    BY <1>2 DEF TailEntry
  <2>2. e.user[2] \in Name /\ e.key[1] \in Hash /\ e.key[2] \in Role /\ e.key[1] # Blank
    BY <2>1, TokenAssumption
  <2>3. l.form = "tail" /\ l \in Line
    BY <2>1, <2>2 DEF LineOf, Line, Form, Hidden, WithRest
  <2>4. \A r : e.key # <<Blank, r>>
    BY <2>1, <2>2
  <2>. QED
    BY <2>3, <2>4 DEF PlainFor
<1>. QED
  BY <1>1, <1>2 DEF Entry

(* What the app reads back: what was in the map under a role, if its name  *)
(* has no colon.                                                           *)
MapCred(m, r) ==
  IF \E e : In(m, e) /\ e.key = <<Blank, r>> /\ Usable(e.user) THEN UserOf(m, r) ELSE NoEntry

(* Written and read back, the file gives each role what the map had. *)
LEMMA ReadWritten ==
  ASSUME NEW m \in Seq(Entry), OneEntryPerKey(m), NEW f, f = [i \in DOMAIN m |-> LineOf(m[i])],
         NEW r
  PROVE  f \in Seq(Line) /\ ReadUser(f, r) = MapCred(m, r)
<1>1. Len(m) \in Nat /\ DOMAIN m = 1 .. Len(m) /\ \A i \in 1 .. Len(m) : m[i] \in Entry
  OBVIOUS
<1>2. \A i \in 1 .. Len(m) : LineOf(m[i]) \in Line
  BY <1>1, Written
<1>3. /\ f \in Seq(Line) /\ Len(f) = Len(m)
      /\ \A i \in 1 .. Len(m) : f[i] = LineOf(m[i])
  BY <1>1, <1>2
<1>4. \A i \in 1 .. Len(m) : PlainFor(f[i], r) <=> m[i].key = <<Blank, r>> /\ Usable(m[i].user)
  BY <1>1, <1>3, Written
<1>5. CASE \E e : In(m, e) /\ e.key = <<Blank, r>> /\ Usable(e.user)
  <2>1. PICK i \in 1 .. Len(m) : m[i].key = <<Blank, r>> /\ Usable(m[i].user)
    BY <1>5 DEF In
  <2>2. UserOf(m, r) = Of(m[i])
    BY <2>1, UserOfMap DEF In
  <2>3. PlainFor(f[i], r)
    BY <1>4, <2>1
  <2>4. ASSUME NEW j \in (i + 1) .. Len(f), PlainFor(f[j], r) PROVE FALSE
    <3>1. j \in 1 .. Len(m) /\ i # j
      BY <1>1, <1>3
    <3>2. m[j].key = m[i].key
      BY <1>4, <2>1, <2>4, <3>1
    <3>. QED
      BY <1>1, <2>1, <3>1, <3>2 DEF OneEntryPerKey
  <2>5. LastPlain(f, i, r)
    BY <2>3, <2>4, Zenon DEF LastPlain
  <2>6. ReadUser(f, r) = CredOf(f[i])
    BY <1>3, <2>1, <2>5, ReadLast
  <2>7. CredOf(f[i]) = Of(m[i])
    BY <1>1, <1>3, <2>1, <2>3, Written DEF PlainFor
  <2>. QED
    BY <1>3, <1>5, <2>2, <2>6, <2>7 DEF MapCred
<1>6. CASE ~ \E e : In(m, e) /\ e.key = <<Blank, r>> /\ Usable(e.user)
  <2>1. \A i \in 1 .. Len(f) : ~PlainFor(f[i], r)
    BY <1>3, <1>4, <1>6 DEF In
  <2>. QED
    BY <1>3, <1>6, <2>1, ReadNone DEF MapCred
<1>. QED
  BY <1>5, <1>6

-----------------------------------------------------------------------------
(* The two parsers. *)

(* With the names of the lines different, dropbear finds the line. *)
LEMMA FindLine ==
  ASSUME file \in Seq(Line), \A i, j \in DOMAIN file : i # j => file[i].user # file[j].user,
         NEW i \in 1 .. Len(file)
  PROVE  sshd4a_find_user(file[i].user) = NativeLine(file[i])
<1>. DEFINE found == {j \in DOMAIN file : file[j].user = file[i].user}
<1>1. DOMAIN file = 1 .. Len(file) /\ Len(file) \in Nat
  OBVIOUS
<1>2. found = {i}
  BY <1>1
<1>3. Min({i}) = i
  BY <1>1 DEF Min
<1>. QED
  BY <1>2, <1>3 DEF sshd4a_find_user

(* A name without a line. *)
LEMMA FindNone ==
  ASSUME file \in Seq(Line), NEW u, \A i \in DOMAIN file : file[i].user # u
  PROVE  sshd4a_find_user(u) = NoEntry
BY DEF sshd4a_find_user

(* A line through dropbear's parser: a password that can match only where  *)
(* the name has no colon behind it.                                        *)
LEMMA NativeFields ==
  ASSUME NEW l \in Line
  PROVE  /\ NativeLine(l) # NoEntry /\ NativeLine(l).user = l.user
         /\ NativeLine(l).password \in Hash <=> l.form \notin WithRest
         /\ l.form \notin WithRest => NativeLine(l).password = l.hash /\ NativeLine(l).role = l.role
<1>1. l.form \in Form /\ l.user \in Name /\ l.hash \in Hash /\ l.role \in Role /\ Rest \notin Hash
  BY TokenAssumption DEF Line
<1>2. NativeLine(l) \in [user : Name, password : Hash \cup {Rest}, role : Role]
  BY <1>1 DEF NativeLine, Role
<1>3. NativeLine(l) # NoEntry
  BY <1>2, TokenAssumption
<1>. QED
  BY <1>1, <1>3 DEF NativeLine

(* The logins, as records. *)
LEMMA LoginsAre ==
  \A l : l \in Logins <=>
    \E u \in Name : /\ sshd4a_find_user(u) # NoEntry
                    /\ sshd4a_find_user(u).password \in Hash
                    /\ l = [user |-> u, hash |-> sshd4a_find_user(u).password,
                            role |-> sshd4a_find_user(u).role]
BY Zenon DEF Logins

(* Any well-formed file is read alike by the two parsers. *)
LEMMA FilesAgree == TypeOK => ReadersAgree
<1>. DEFINE shown == {[user |-> readAuthorizedUser(r).user, hash |-> readAuthorizedUser(r).hash,
                       role |-> r] : r \in {q \in Role : readAuthorizedUser(q) # NoEntry}}
<1>. SUFFICES ASSUME TypeOK, NothingHidden,
                     \A i, j \in DOMAIN file :
                       i # j => /\ file[i].user # file[j].user
                                /\ ParsedLine(file[i]).key # ParsedLine(file[j]).key
              PROVE  Logins = shown
  BY Zenon DEF ReadersAgree
<1>1. /\ file \in Seq(Line) /\ DOMAIN file = 1 .. Len(file) /\ Len(file) \in Nat
      /\ \A i \in 1 .. Len(file) : file[i] \in Line /\ file[i].form \notin Hidden
  BY DEF TypeOK, NothingHidden
<1>2. \A i \in 1 .. Len(file) : \A r : PlainFor(file[i], r) => LastPlain(file, i, r)
  <2>. SUFFICES ASSUME NEW i \in 1 .. Len(file), NEW r, PlainFor(file[i], r),
                       NEW j \in (i + 1) .. Len(file), PlainFor(file[j], r)
                PROVE  FALSE
    BY DEF LastPlain
  <2>1. j \in 1 .. Len(file) /\ i # j
    BY <1>1
  <2>2. ParsedLine(file[i]).key = <<Blank, r>> /\ ParsedLine(file[j]).key = <<Blank, r>>
    BY <1>1, <2>1, Parsed DEF PlainFor
  <2>. QED
    BY <1>1, <2>1, <2>2
<1>3. ASSUME NEW l, l \in Logins PROVE l \in shown
  <2>1. PICK u \in Name : /\ sshd4a_find_user(u) # NoEntry
                          /\ sshd4a_find_user(u).password \in Hash
                          /\ l = [user |-> u, hash |-> sshd4a_find_user(u).password,
                                  role |-> sshd4a_find_user(u).role]
    BY <1>3, LoginsAre
  <2>2. PICK i \in 1 .. Len(file) : file[i].user = u
    BY <1>1, <2>1, FindNone
  <2>3. sshd4a_find_user(u) = NativeLine(file[i])
    BY <1>1, <2>2, FindLine
  <2>4. file[i].form \notin WithRest /\ file[i].form = "plain" /\ file[i].role \in Role
    BY <1>1, <2>1, <2>3, NativeFields DEF Line, Form, Hidden, WithRest
  <2>5. l = [user |-> u, hash |-> file[i].hash, role |-> file[i].role]
    BY <1>1, <2>1, <2>3, <2>4, NativeFields
  <2>6. LastPlain(file, i, file[i].role)
    BY <1>2, <2>4 DEF PlainFor
  <2>7. ReadUser(file, file[i].role) = CredOf(file[i]) /\ ReadUser(file, file[i].role) # NoEntry
    BY <1>1, <2>6, ReadLast
  <2>8. /\ readAuthorizedUser(file[i].role) # NoEntry
        /\ readAuthorizedUser(file[i].role).user = u
        /\ readAuthorizedUser(file[i].role).hash = file[i].hash
    BY <2>2, <2>7, ReadersOfFile DEF CredOf
  <2>. QED
    BY <2>4, <2>5, <2>8
<1>4. ASSUME NEW l, l \in shown PROVE l \in Logins
  <2>1. PICK r \in Role : /\ readAuthorizedUser(r) # NoEntry
                          /\ l = [user |-> readAuthorizedUser(r).user,
                                  hash |-> readAuthorizedUser(r).hash, role |-> r]
    BY <1>4
  <2>2. ReadUser(file, r) # NoEntry
    BY <2>1, ReadersOfFile
  <2>3. PICK i \in 1 .. Len(file) : LastPlain(file, i, r)
    BY <1>1, <2>2, ReadEither
  <2>4. ReadUser(file, r) = CredOf(file[i])
    BY <1>1, <2>3, ReadLast
  <2>5. file[i].form = "plain" /\ file[i].role = r /\ file[i].user \in Name
    BY <1>1, <2>3 DEF LastPlain, PlainFor, Line
  <2>6. sshd4a_find_user(file[i].user) = NativeLine(file[i])
    BY <1>1, FindLine
  <2>7. l = [user |-> file[i].user, hash |-> file[i].hash, role |-> file[i].role]
    BY <2>1, <2>4, <2>5, ReadersOfFile DEF CredOf
  <2>8. /\ NativeLine(file[i]) # NoEntry /\ NativeLine(file[i]).password \in Hash
        /\ NativeLine(file[i]).password = file[i].hash /\ NativeLine(file[i]).role = file[i].role
    BY <1>1, <2>5, NativeFields DEF WithRest
  <2>. QED
    BY <2>5, <2>6, <2>7, <2>8, LoginsAre
<1>. HIDE DEF shown
<1>. QED
  BY <1>3, <1>4

-----------------------------------------------------------------------------
(* writeAuthorizedUser() up to its writes. *)

(* The table, as Credentials has it. *)
Row(old, n, updated, pw) == Promise!Stored(old, n, updated, pw)

(* The new map m of role r, when it is to be written. *)
Renewed(m, r) ==
  /\ m \in Seq(Entry) /\ OneEntryPerKey(m)
  /\ \A e, q : In(m, e) /\ e.key = <<Blank, q>> /\ q # r => In(ReadMap(file), e)
  /\ \A e, q : In(ReadMap(file), e) /\ e.key = <<Blank, q>> /\ q # r => In(m, e)
  /\ \A e : In(m, e) /\ e.key = <<Blank, r>> => name[r] # Blank /\ e.user = name[r]

(* The entry of the role is put into the map ... *)
LEMMA PutsRole ==
  ASSUME TypeOK, NEW r \in Role, name[r] # Blank, NEW h \in Hash,
         NEW m, m = Put(ReadMap(file), [key |-> <<Blank, r>>, user |-> name[r], hash |-> h])
  PROVE  /\ Renewed(m, r) /\ m # <<>>
         /\ MapCred(m, r) = IF Usable(name[r]) THEN [user |-> name[r][2], hash |-> h] ELSE NoEntry
<1>. DEFINE e == [key |-> <<Blank, r>>, user |-> name[r], hash |-> h]
            a == ReadMap(file)
<1>1. a \in Seq(Entry) /\ OneEntryPerKey(a)
  BY ReadEntries DEF TypeOK
<1>2. e.key = <<Blank, r>> /\ e.user = name[r] /\ e.hash = h
  OBVIOUS
<1>3. e \in Entry
  <2>1. name[r] \in Form \X Name
    BY DEF TypeOK
  <2>. QED
    BY <2>1 DEF Entry, RoleEntry
<1>. HIDE DEF e, a
<1>4. /\ m \in Seq(Entry) /\ OneEntryPerKey(m) /\ m # <<>>
      /\ \A x : In(m, x) <=> x = e \/ (In(a, x) /\ x.key # e.key)
  BY <1>1, <1>3, PutMap DEF e, a
<1>5. Renewed(m, r)
  <2>1. ASSUME NEW x, NEW q, In(m, x), x.key = <<Blank, q>>, q # r PROVE In(a, x)
    BY <1>2, <1>4, <2>1
  <2>2. ASSUME NEW x, NEW q, In(a, x), x.key = <<Blank, q>>, q # r PROVE In(m, x)
    BY <1>2, <1>4, <2>2
  <2>3. ASSUME NEW x, In(m, x), x.key = <<Blank, r>> PROVE name[r] # Blank /\ x.user = name[r]
    BY <1>2, <1>4, <2>3
  <2>. QED
    BY <1>4, <2>1, <2>2, <2>3 DEF Renewed, a
<1>6. UserOf(m, r) = Of(e)
  BY <1>2, <1>4, UserOfMap
<1>7. (\E x : In(m, x) /\ x.key = <<Blank, r>> /\ Usable(x.user)) <=> Usable(name[r])
  BY <1>2, <1>4
<1>8. Of(e) = [user |-> name[r][2], hash |-> h]
  BY <1>2 DEF Of
<1>. QED
  BY <1>4, <1>5, <1>6, <1>7, <1>8 DEF MapCred

(* ... or removed from it. *)
LEMMA RemovesRole ==
  ASSUME TypeOK, NEW r \in Role, NEW m, m = RemoveKey(ReadMap(file), <<Blank, r>>)
  PROVE  Renewed(m, r) /\ MapCred(m, r) = NoEntry
<1>. DEFINE a == ReadMap(file)
<1>1. a \in Seq(Entry) /\ OneEntryPerKey(a)
  BY ReadEntries DEF TypeOK
<1>. HIDE DEF a
<1>2. /\ m \in Seq(Entry) /\ OneEntryPerKey(m)
      /\ \A x : In(m, x) <=> In(a, x) /\ x.key # <<Blank, r>>
  BY <1>1, RemoveMap DEF a
<1>3. Renewed(m, r)
  <2>1. ASSUME NEW x, NEW q, In(m, x), x.key = <<Blank, q>>, q # r PROVE In(a, x)
    BY <1>2, <2>1
  <2>2. ASSUME NEW x, NEW q, In(a, x), x.key = <<Blank, q>>, q # r PROVE In(m, x)
    BY <1>2, <2>2
  <2>. QED
    BY <1>2, <2>1, <2>2 DEF Renewed, a
<1>. QED
  BY <1>2, <1>3 DEF MapCred

(* The map to be written follows the table; where there is none the table  *)
(* changes nothing.                                                        *)
LEMMA NewMaps ==
  ASSUME TypeOK, NEW r \in Role, NEW n, n = NewMap(r)
  PROVE  LET old == ReadUser(file, r)
             row == Row(old, name[r], passwordUpdated[r], password[r])
         IN  /\ n.write \in BOOLEAN
             /\ n.write => Renewed(n.map, r) /\ MapCred(n.map, r) = row
             /\ n.write /\ n.map = <<>> => row = NoEntry
             /\ ~n.write => old = NoEntry /\ row = NoEntry /\ name[r] # Blank
<1>. DEFINE old == ReadUser(file, r)
            row == Row(old, name[r], passwordUpdated[r], password[r])
            key == <<Blank, r>>
            a == ReadMap(file)
<1>1. /\ readAllAuthorizedUsers = a /\ readAuthorizedUser(r) = old
  BY ReadersOfFile
<1>2. passwordUpdated[r] \in BOOLEAN /\ password[r] \in Hash \cup {Blank}
  BY DEF TypeOK
<1>3. old # NoEntry => old.hash \in Hash
  <2>. SUFFICES ASSUME old # NoEntry PROVE old.hash \in Hash
    OBVIOUS
  <2>1. file \in Seq(Line)
    BY DEF TypeOK
  <2>2. PICK i \in 1 .. Len(file) : LastPlain(file, i, r)
    BY <2>1, ReadEither
  <2>3. old = CredOf(file[i])
    BY <2>1, <2>2, ReadLast
  <2>4. file[i] \in Line
    BY <2>1
  <2>5. file[i].hash \in Hash
    BY <2>4 DEF Line
  <2>. QED
    BY <2>3, <2>5 DEF CredOf
<1>. HIDE DEF old
<1>4. CASE name[r] = Blank
  <2>1. n = [write |-> TRUE, map |-> RemoveKey(a, key)]
    BY <1>1, <1>4 DEF NewMap
  <2>2. n.write = TRUE /\ n.map = RemoveKey(a, key)
    BY <2>1
  <2>3. row = NoEntry
    BY <1>4 DEF Row, Promise!Stored
  <2>. HIDE DEF row, a, key
  <2>4. Renewed(n.map, r) /\ MapCred(n.map, r) = NoEntry
    BY <2>2, RemovesRole DEF a, key
  <2>. QED
    BY <2>2, <2>3, <2>4 DEF row, old
<1>5. CASE name[r] # Blank /\ ~passwordUpdated[r]
  <2>1. n = [write |-> old # NoEntry,
             map |-> IF old = NoEntry THEN a
                     ELSE Put(a, [key |-> key, user |-> name[r], hash |-> old.hash])]
    BY <1>1, <1>5 DEF NewMap
  <2>2. /\ n.write <=> old # NoEntry
        /\ n.write \in BOOLEAN
        /\ old # NoEntry => n.map = Put(a, [key |-> key, user |-> name[r], hash |-> old.hash])
    <3>. DEFINE w == old # NoEntry
                p == IF old = NoEntry THEN a
                     ELSE Put(a, [key |-> key, user |-> name[r], hash |-> old.hash])
    <3>0. n = [write |-> w, map |-> p]
      BY <2>1
    <3>. HIDE DEF w, p
    <3>1. n.write = w
      BY <3>0
    <3>2. old # NoEntry => n.map = Put(a, [key |-> key, user |-> name[r], hash |-> old.hash])
      BY <2>1
    <3>. QED
      BY <3>1, <3>2, Zenon DEF w
  <2>3. row = IF old = NoEntry THEN NoEntry
              ELSE IF Usable(name[r]) THEN [user |-> name[r][2], hash |-> old.hash] ELSE NoEntry
    BY <1>5 DEF Row, Promise!Stored
  <2>. HIDE DEF row, a, key
  <2>4. old # NoEntry => Renewed(n.map, r) /\ n.map # <<>> /\ MapCred(n.map, r) = row
    BY <1>3, <1>5, <2>2, <2>3, PutsRole DEF a, key
  <2>. QED
    BY <1>5, <2>2, <2>3, <2>4 DEF row, old
<1>6. CASE name[r] # Blank /\ passwordUpdated[r] /\ password[r] = Blank
  <2>1. n = [write |-> old # NoEntry, map |-> RemoveKey(a, key)]
    BY <1>1, <1>6 DEF NewMap
  <2>2. n.write \in BOOLEAN /\ (n.write <=> old # NoEntry) /\ n.map = RemoveKey(a, key)
    <3>. DEFINE w == old # NoEntry
    <3>0. n = [write |-> w, map |-> RemoveKey(a, key)]
      BY <2>1
    <3>. HIDE DEF w
    <3>1. n.write = w
      BY <3>0
    <3>2. n.map = RemoveKey(a, key)
      BY <2>1
    <3>. QED
      BY <3>1, <3>2, Zenon DEF w
  <2>3. row = NoEntry
    BY <1>6 DEF Row, Promise!Stored
  <2>. HIDE DEF row, a, key
  <2>4. Renewed(n.map, r) /\ MapCred(n.map, r) = NoEntry
    BY <2>2, RemovesRole DEF a, key
  <2>. QED
    BY <1>6, <2>2, <2>3, <2>4 DEF row, old
<1>7. CASE name[r] # Blank /\ passwordUpdated[r] /\ password[r] # Blank
  <2>1. n = [write |-> TRUE, map |-> Put(a, [key |-> key, user |-> name[r], hash |-> password[r]])]
    BY <1>1, <1>7 DEF NewMap
  <2>2. n.write = TRUE /\ n.map = Put(a, [key |-> key, user |-> name[r], hash |-> password[r]])
    BY <2>1
  <2>3. row = IF Usable(name[r]) THEN [user |-> name[r][2], hash |-> password[r]] ELSE NoEntry
    BY <1>7 DEF Row, Promise!Stored
  <2>4. password[r] \in Hash
    BY <1>2, <1>7
  <2>. HIDE DEF row, a, key
  <2>5. Renewed(n.map, r) /\ n.map # <<>> /\ MapCred(n.map, r) = row
    BY <1>7, <2>2, <2>3, <2>4, PutsRole DEF a, key
  <2>. QED
    BY <2>2, <2>5 DEF row, old
<1>. QED
  BY <1>2, <1>4, <1>5, <1>6, <1>7

-----------------------------------------------------------------------------
(* The inductive invariant. *)

(* How far a save is. *)
PhaseOK ==
  /\ saving => screen = "open"
  /\ ok => screen # "open"
  /\ ~saving => todo = <<>> /\ all = <<>>
  /\ all # <<>> => todo # <<>> /\ file = <<>>

(* The screen has shown the name u for role r. *)
Shows(nm, r, u) == nm[r] # Blank /\ nm[r][2] = u

(* A line the app skips may be of another name, not of a cleared role. *)
FileShows(f, nm, r) ==
  \A i \in 1 .. Len(f) :
    /\ PlainFor(f[i], r) => Shows(nm, r, f[i].user)
    /\ f[i].form = "hidden" /\ f[i].role = r => nm[r] # Blank
MapShows(m, nm, r) ==
  \A e : In(m, e) /\ e.key = <<Blank, r>> => Shows(nm, r, e.user[2])

(* The roles that are stored already have the names shown, in the file     *)
(* and, with the one that is being stored, in the map on its way there.    *)
DoneOK ==
  /\ saving \/ ok => \A r \in Role \ ToSet(todo) : FileShows(file, name, r)
  /\ all # <<>> => \A r \in Role \ ToSet(Tail(todo)) : MapShows(all, name, r)

IndInv == TypeOK /\ PhaseOK /\ DoneOK

(* One role after the other. *)
LEMMA NextRole ==
  ASSUME TypeOK, todo # <<>>
  PROVE  /\ Head(todo) \in Role
         /\ Tail(todo) \in {<<>>, <<"shell">>, <<"root", "shell">>, <<"user", "root", "shell">>}
         /\ Role \ ToSet(Tail(todo)) = (Role \ ToSet(todo)) \cup {Head(todo)}
<1>1. \/ todo = <<"shell">> \/ todo = <<"root", "shell">> \/ todo = <<"user", "root", "shell">>
  BY DEF TypeOK
<1>2. ToSet(<<>>) = {}
  BY DEF ToSet
<1>3. ToSet(<<"shell">>) = {"shell"}
  BY DEF ToSet
<1>4. ToSet(<<"root", "shell">>) = {"root", "shell"}
  BY DEF ToSet
<1>5. ToSet(<<"user", "root", "shell">>) = {"user", "root", "shell"}
  BY DEF ToSet
<1>6. CASE todo = <<"shell">>
  <2>1. Head(todo) = "shell" /\ Tail(todo) = <<>>
    BY <1>6
  <2>. QED
    BY <1>2, <1>3, <1>6, <2>1 DEF Role
<1>7. CASE todo = <<"root", "shell">>
  <2>1. Head(todo) = "root" /\ Tail(todo) = <<"shell">>
    BY <1>7
  <2>. QED
    BY <1>3, <1>4, <1>7, <2>1 DEF Role
<1>8. CASE todo = <<"user", "root", "shell">>
  <2>1. Head(todo) = "user" /\ Tail(todo) = <<"root", "shell">>
    BY <1>8
  <2>. QED
    BY <1>4, <1>5, <1>8, <2>1 DEF Role
<1>. QED
  BY <1>1, <1>6, <1>7, <1>8

(* An empty file, an empty map. *)
LEMMA Empty ==
  /\ <<>> \in Seq(Line) /\ <<>> \in Seq(Entry) /\ OneEntryPerKey(<<>>)
  /\ \A e : ~In(<<>>, e)
  /\ \A nm, r : FileShows(<<>>, nm, r) /\ MapShows(<<>>, nm, r)
<1>1. /\ <<>> \in Seq(Line) /\ <<>> \in Seq(Entry) /\ Len(<<>>) = 0 /\ DOMAIN <<>> = {}
      /\ 1 .. 0 = {}
  OBVIOUS
<1>2. \A e : ~In(<<>>, e)
  BY <1>1 DEF In
<1>3. \A nm, r : FileShows(<<>>, nm, r) /\ MapShows(<<>>, nm, r)
  BY <1>1, <1>2, Zenon DEF FileShows, MapShows
<1>. QED
  BY <1>1, <1>2, <1>3 DEF OneEntryPerKey

(* Reading keeps to the names shown ... *)
LEMMA ReadShows ==
  ASSUME NEW f \in Seq(Line), NEW nm, NEW r, FileShows(f, nm, r)
  PROVE  MapShows(ReadMap(f), nm, r)
<1>. SUFFICES ASSUME NEW e, In(ReadMap(f), e), e.key = <<Blank, r>>
              PROVE  Shows(nm, r, e.user[2])
  BY DEF MapShows
<1>1. PICK i \in 1 .. Len(f) : LastPlain(f, i, r) /\ Of(e) = CredOf(f[i])
  BY ReadEntries
<1>2. PlainFor(f[i], r) /\ e.user[2] = f[i].user
  BY <1>1 DEF LastPlain, Of, CredOf
<1>. QED
  BY <1>2 DEF FileShows

(* ... the new map does, of the role that is stored too ... *)
LEMMA NewShows ==
  ASSUME TypeOK, NEW r \in Role, NEW m, Renewed(m, r), NEW q,
         q # r => FileShows(file, name, q)
  PROVE  MapShows(m, name, q)
<1>. SUFFICES ASSUME NEW e, In(m, e), e.key = <<Blank, q>>
              PROVE  Shows(name, q, e.user[2])
  BY DEF MapShows
<1>1. CASE q = r
  BY <1>1 DEF Renewed, Shows
<1>2. CASE q # r
  <2>1. In(ReadMap(file), e)
    BY <1>2 DEF Renewed
  <2>2. MapShows(ReadMap(file), name, q)
    BY <1>2, ReadShows DEF TypeOK
  <2>. QED
    BY <2>1, <2>2 DEF MapShows
<1>. QED
  BY <1>1, <1>2

(* ... and writing it. *)
LEMMA WriteShows ==
  ASSUME NEW m \in Seq(Entry), NEW f, f = [i \in DOMAIN m |-> LineOf(m[i])],
         NEW nm, NEW r, MapShows(m, nm, r)
  PROVE  FileShows(f, nm, r)
<1>1. Len(m) \in Nat /\ DOMAIN m = 1 .. Len(m) /\ \A i \in 1 .. Len(m) : m[i] \in Entry
  OBVIOUS
<1>2. Len(f) = Len(m) /\ \A i \in 1 .. Len(m) : f[i] = LineOf(m[i])
  BY <1>1
<1>3. ASSUME NEW i \in 1 .. Len(f)
      PROVE  m[i] \in Entry /\ f[i] = LineOf(m[i]) /\ In(m, m[i])
  BY <1>1, <1>2 DEF In
<1>4. ASSUME NEW i \in 1 .. Len(f), PlainFor(f[i], r)
      PROVE  Shows(nm, r, f[i].user)
  <2>1. m[i].key = <<Blank, r>> /\ CredOf(f[i]) = Of(m[i])
    BY <1>3, <1>4, Written DEF PlainFor
  <2>2. f[i].user = m[i].user[2]
    BY <2>1 DEF CredOf, Of
  <2>. QED
    BY <1>3, <2>1, <2>2 DEF MapShows
<1>5. ASSUME NEW i \in 1 .. Len(f), f[i].form = "hidden", f[i].role = r
      PROVE  nm[r] # Blank
  <2>1. m[i].hash # Rest /\ m[i].key[2] = r
    BY <1>3, <1>5 DEF LineOf
  <2>2. m[i].key = <<Blank, r>>
    BY <1>3, <2>1 DEF Entry, RoleEntry, TailEntry
  <2>. QED
    BY <1>3, <2>2 DEF MapShows, Shows
<1>. QED
  BY <1>4, <1>5 DEF FileShows

(* What the screen shows when it opens is a name. *)
LEMMA OpenNames ==
  ASSUME TypeOK, NEW r \in Role
  PROVE  readAuthorizedUser(r) = NoEntry
         \/ <<"plain", readAuthorizedUser(r).user>> \in Form \X Name
<1>1. file \in Seq(Line)
  BY DEF TypeOK
<1>2. readAuthorizedUser(r) = ReadUser(file, r)
  BY ReadersOfFile
<1>3. CASE \E i \in 1 .. Len(file) : LastPlain(file, i, r)
  <2>1. PICK i \in 1 .. Len(file) : LastPlain(file, i, r)
    BY <1>3
  <2>2. ReadUser(file, r) = CredOf(file[i])
    BY <1>1, <2>1, ReadLast
  <2>3. file[i] \in Line
    BY <1>1
  <2>4. file[i].user \in Name
    BY <2>3 DEF Line
  <2>. QED
    BY <1>2, <2>2, <2>4 DEF CredOf, Form, Hidden, WithRest
<1>. QED
  BY <1>1, <1>2, <1>3, ReadEither

-----------------------------------------------------------------------------
(* It holds at the start, every step keeps it, and what follows from it. *)

(* The first state. *)
LEMMA Starts ==
  ASSUME Init
  PROVE  IndInv
<1>1. /\ name \in [Role -> (Form \X Name) \cup {Blank}] /\ password \in [Role -> Hash \cup {Blank}]
      /\ passwordUpdated \in [Role -> BOOLEAN]
  BY DEF Init
<1>2. 0 \in 0 .. MaxTyped /\ 0 \in 0 .. MaxHandEdits
  BY LimitAssumption
<1>3. TypeOK
  BY <1>1, <1>2, Empty DEF Init, TypeOK
<1>4. PhaseOK /\ DoneOK
  BY DEF Init, PhaseOK, DoneOK
<1>. QED
  BY <1>3, <1>4 DEF IndInv

(* The screen opens. *)
LEMMA OpenKeeps ==
  ASSUME IndInv, OpenScreen
  PROVE  IndInv'
<1>1. TypeOK /\ PhaseOK
  BY DEF IndInv
<1>2. name' \in [Role -> (Form \X Name) \cup {Blank}]
  <2>1. \A r \in Role : (LET up == readAuthorizedUser(r)
                         IN  IF up = NoEntry THEN Blank ELSE <<"plain", up.user>>)
                        \in (Form \X Name) \cup {Blank}
    BY <1>1, OpenNames
  <2>. QED
    BY <2>1, Zenon DEF OpenScreen
<1>3. TypeOK'
  BY <1>1, <1>2 DEF OpenScreen, TypeOK
<1>4. ~saving
  BY <1>1 DEF PhaseOK, OpenScreen
<1>5. PhaseOK'
  BY <1>1, <1>4 DEF OpenScreen, PhaseOK
<1>6. DoneOK'
  BY <1>1, <1>4 DEF OpenScreen, PhaseOK, DoneOK
<1>. QED
  BY <1>3, <1>5, <1>6 DEF IndInv

(* Somebody types. *)
LEMMA TypingKeeps ==
  ASSUME IndInv, NEW r \in Role,
         \/ \E n \in Typed \cup {Blank} : putUsername(r, n)
         \/ \E p \in Hash \cup {Blank} : putPassword(r, p)
  PROVE  IndInv'
<1>1. TypeOK /\ PhaseOK
  BY DEF IndInv
<1>2. /\ ~saving /\ ~ok /\ typed' = typed + 1 /\ typed < MaxTyped
      /\ UNCHANGED <<file, screen, todo, saving, all, popping, ok, handEdits>>
  BY <1>1 DEF putUsername, putPassword, Typing, PhaseOK
<1>3. typed' \in 0 .. MaxTyped
  BY <1>1, <1>2, LimitAssumption DEF TypeOK
<1>4. /\ name' \in [Role -> (Form \X Name) \cup {Blank}]
      /\ password' \in [Role -> Hash \cup {Blank}] /\ passwordUpdated' \in [Role -> BOOLEAN]
  <2>1. CASE \E n \in Typed \cup {Blank} : putUsername(r, n)
    <3>1. PICK n \in Typed \cup {Blank} : putUsername(r, n)
      BY <2>1
    <3>2. n \in (Form \X Name) \cup {Blank}
      BY <3>1, TokenAssumption DEF Typed, Form, Hidden, WithRest
    <3>. QED
      BY <1>1, <3>1, <3>2 DEF putUsername, TypeOK
  <2>2. CASE \E p \in Hash \cup {Blank} : putPassword(r, p)
    <3>1. PICK p \in Hash \cup {Blank} : putPassword(r, p)
      BY <2>2
    <3>. QED
      BY <1>1, <3>1 DEF putPassword, TypeOK
  <2>. QED
    BY <2>1, <2>2
<1>5. TypeOK'
  BY <1>1, <1>2, <1>3, <1>4 DEF TypeOK
<1>6. PhaseOK' /\ DoneOK'
  BY <1>1, <1>2 DEF PhaseOK, DoneOK
<1>. QED
  BY <1>5, <1>6 DEF IndInv

(* A save begins. *)
LEMMA BackKeeps ==
  ASSUME IndInv, handleOnBackPressed
  PROVE  IndInv'
<1>1. TypeOK /\ PhaseOK
  BY DEF IndInv
<1>2. TypeOK'
  BY <1>1 DEF handleOnBackPressed, TypeOK, fields
<1>3. PhaseOK'
  BY <1>1 DEF handleOnBackPressed, PhaseOK, fields
<1>4. Role \ ToSet(<<"user", "root", "shell">>) = {}
  BY DEF ToSet, Role
<1>5. DoneOK'
  BY <1>1, <1>4 DEF handleOnBackPressed, PhaseOK, DoneOK, fields
<1>. QED
  BY <1>2, <1>3, <1>5 DEF IndInv

(* A role has nothing to write, or the last entry goes. *)
LEMMA NothingKeeps ==
  ASSUME IndInv, StoreNothing
  PROVE  IndInv'
<1>. DEFINE r == Head(todo)
            n == NewMap(r)
<1>1. TypeOK /\ PhaseOK /\ DoneOK
  BY DEF IndInv
<1>2. /\ saving /\ todo # <<>> /\ all = <<>> /\ todo' = Tail(todo)
      /\ (~n.write /\ file' = file) \/ (n.write /\ n.map = <<>> /\ file' = <<>>)
      /\ UNCHANGED <<screen, name, password, passwordUpdated, saving, all, popping, ok, typed, handEdits>>
  BY Zenon DEF StoreNothing, Storing, fields
<1>3. /\ r \in Role
      /\ Tail(todo) \in {<<>>, <<"shell">>, <<"root", "shell">>, <<"user", "root", "shell">>}
      /\ Role \ ToSet(Tail(todo)) = (Role \ ToSet(todo)) \cup {r}
  BY <1>1, <1>2, NextRole
<1>. HIDE DEF n
<1>4. TypeOK'
  BY <1>1, <1>2, <1>3, Empty DEF TypeOK
<1>5. PhaseOK'
  BY <1>1, <1>2 DEF PhaseOK
<1>6. \A q \in Role \ ToSet(todo)' : FileShows(file, name, q)'
  <2>. SUFFICES ASSUME NEW q \in Role \ ToSet(Tail(todo)) PROVE FileShows(file', name', q)
    BY <1>2
  <2>1. CASE file' = <<>>
    BY <2>1, Empty
  <2>2. CASE ~n.write /\ file' = file
    <3>1. CASE q = r
      <4>1. ReadUser(file, r) = NoEntry /\ name[r] # Blank
        BY <1>1, <1>3, <2>2, NewMaps DEF n
      <4>2. \A i \in 1 .. Len(file) : ~PlainFor(file[i], r)
        BY <1>1, <4>1, ReadEither, ReadLast DEF TypeOK
      <4>. QED
        BY <1>2, <2>2, <3>1, <4>1, <4>2 DEF FileShows
    <3>2. CASE q # r
      <4>1. FileShows(file, name, q)
        BY <1>1, <1>2, <1>3, <3>2 DEF DoneOK
      <4>. QED
        BY <1>2, <2>2, <4>1
    <3>. QED
      BY <3>1, <3>2
  <2>. QED
    BY <1>2, <2>1, <2>2
<1>7. DoneOK'
  BY <1>2, <1>6 DEF DoneOK
<1>. QED
  BY <1>4, <1>5, <1>7 DEF IndInv

(* The file is truncated. *)
LEMMA TruncateKeeps ==
  ASSUME IndInv, Truncate
  PROVE  IndInv'
<1>. DEFINE r == Head(todo)
            n == NewMap(r)
<1>1. TypeOK /\ PhaseOK /\ DoneOK
  BY DEF IndInv
<1>2. /\ saving /\ todo # <<>> /\ all = <<>> /\ file' = <<>>
      /\ n.write /\ n.map # <<>> /\ all' = n.map
      /\ UNCHANGED <<screen, name, password, passwordUpdated, todo, saving, popping, ok, typed, handEdits>>
  BY Zenon DEF Truncate, Storing, fields
<1>3. r \in Role /\ Role \ ToSet(Tail(todo)) = (Role \ ToSet(todo)) \cup {r}
  BY <1>1, <1>2, NextRole
<1>4. Renewed(n.map, r)
  BY <1>1, <1>2, <1>3, NewMaps
<1>. HIDE DEF n
<1>5. TypeOK'
  BY <1>1, <1>2, <1>4, Empty DEF TypeOK, Renewed
<1>6. PhaseOK'
  BY <1>1, <1>2 DEF PhaseOK
<1>7. \A q \in Role \ ToSet(Tail(todo)) : MapShows(n.map, name, q)
  <2>. SUFFICES ASSUME NEW q \in Role \ ToSet(Tail(todo)) PROVE MapShows(n.map, name, q)
    OBVIOUS
  <2>1. q # r => FileShows(file, name, q)
    BY <1>1, <1>2, <1>3 DEF DoneOK
  <2>. QED
    BY <1>1, <1>3, <1>4, <2>1, NewShows
<1>8. DoneOK'
  BY <1>2, <1>7, Empty DEF DoneOK
<1>. QED
  BY <1>5, <1>6, <1>8 DEF IndInv

(* The map is written. *)
LEMMA WriteKeeps ==
  ASSUME IndInv, writeAllAuthorizedUsers
  PROVE  IndInv'
<1>1. TypeOK /\ PhaseOK /\ DoneOK
  BY DEF IndInv
<1>2. /\ all # <<>> /\ file' = [i \in DOMAIN all |-> LineOf(all[i])] /\ all' = <<>>
      /\ todo' = Tail(todo)
      /\ UNCHANGED <<screen, name, password, passwordUpdated, saving, popping, ok, typed, handEdits>>
  BY DEF writeAllAuthorizedUsers, fields
<1>3. saving /\ todo # <<>>
  BY <1>1, <1>2 DEF PhaseOK, TypeOK
<1>4. Tail(todo) \in {<<>>, <<"shell">>, <<"root", "shell">>, <<"user", "root", "shell">>}
  BY <1>1, <1>3, NextRole
<1>5. all \in Seq(Entry) /\ OneEntryPerKey(all)
  BY <1>1 DEF TypeOK
<1>6. file' \in Seq(Line)
  BY <1>2, <1>5, ReadWritten
<1>7. TypeOK'
  BY <1>1, <1>2, <1>4, <1>6, Empty DEF TypeOK
<1>8. PhaseOK'
  BY <1>1, <1>2, <1>3 DEF PhaseOK
<1>9. ASSUME NEW q \in Role \ ToSet(Tail(todo)) PROVE FileShows(file', name, q)
  <2>1. MapShows(all, name, q)
    BY <1>1, <1>2 DEF DoneOK
  <2>. QED
    BY <1>2, <1>5, <2>1, WriteShows
<1>10. DoneOK'
  BY <1>2, <1>9 DEF DoneOK
<1>. QED
  BY <1>7, <1>8, <1>10 DEF IndInv

(* The end of a save. *)
LEMMA LeaveKeeps ==
  ASSUME IndInv, NEW complete \in BOOLEAN, saving, Leave(complete), all' = <<>>, todo' = <<>>,
         complete => todo = <<>>
  PROVE  IndInv'
<1>1. TypeOK /\ PhaseOK /\ DoneOK
  BY DEF IndInv
<1>2. /\ saving' = FALSE /\ screen' \in {"closed", "warned"} /\ ok' = complete
      /\ UNCHANGED <<file, name, typed, handEdits>>
  BY DEF Leave
<1>3. password' \in [Role -> Hash \cup {Blank}] /\ passwordUpdated' \in [Role -> BOOLEAN]
  BY <1>1 DEF Leave, Discard, TypeOK
<1>7. popping' \in BOOLEAN
  <2>1. popping' = FALSE \/ popping' = (popping \/ ~complete)
    BY Zenon DEF Leave, Discard
  <2>. QED
    BY <1>1, <2>1, Zenon DEF TypeOK
<1>4. TypeOK'
  BY <1>1, <1>2, <1>3, <1>7, Empty DEF TypeOK
<1>5. PhaseOK'
  BY <1>2 DEF PhaseOK
<1>6. DoneOK'
  BY <1>1, <1>2 DEF DoneOK
<1>. QED
  BY <1>4, <1>5, <1>6 DEF IndInv

(* The warning is answered, the screen is closed after an error, or the    *)
(* app is killed.                                                          *)
LEMMA AwayKeeps ==
  ASSUME IndInv, AnswerWarning \/ DelayedPop \/ Kill
  PROVE  IndInv'
<1>1. TypeOK /\ PhaseOK /\ DoneOK
  BY DEF IndInv
<1>2. CASE AnswerWarning
  <2>1. ~saving
    BY <1>1, <1>2 DEF AnswerWarning, PhaseOK
  <2>2. TypeOK'
    BY <1>1, <1>2 DEF AnswerWarning, Discard, TypeOK
  <2>3. PhaseOK'
    BY <1>1, <1>2, <2>1 DEF AnswerWarning, PhaseOK
  <2>4. DoneOK'
    BY <1>1, <1>2, <2>1 DEF AnswerWarning, DoneOK, PhaseOK
  <2>. QED
    BY <2>2, <2>3, <2>4 DEF IndInv
<1>3. CASE Kill
  <2>1. TypeOK'
    BY <1>1, <1>3, Empty DEF Kill, Discard, TypeOK
  <2>2. PhaseOK' /\ DoneOK'
    BY <1>3 DEF Kill, PhaseOK, DoneOK
  <2>. QED
    BY <2>1, <2>2 DEF IndInv
<1>4. CASE DelayedPop
  <2>1. TypeOK'
    BY <1>1, <1>4 DEF DelayedPop, Discard, TypeOK
  <2>2. PhaseOK' /\ DoneOK'
    BY <1>1, <1>4 DEF DelayedPop, PhaseOK, DoneOK
  <2>. QED
    BY <2>1, <2>2 DEF IndInv
<1>. QED
  BY <1>2, <1>3, <1>4

(* A line is added by hand. *)
LEMMA HandKeeps ==
  ASSUME IndInv, HandEdit
  PROVE  IndInv'
<1>1. TypeOK /\ PhaseOK
  BY DEF IndInv
<1>2. PICK n \in Typed, h \in Hash, r \in Role :
        file' = Append(file, [form |-> n[1], user |-> n[2], hash |-> h, role |-> r])
  BY DEF HandEdit
<1>0. n[1] \in Form /\ n[2] \in Name
  BY TokenAssumption DEF Typed, Form
<1>3. [form |-> n[1], user |-> n[2], hash |-> h, role |-> r] \in Line
  BY <1>0 DEF Line
<1>4. file' \in Seq(Line)
  BY <1>1, <1>2, <1>3 DEF TypeOK
<1>5. /\ ~saving /\ handEdits' = handEdits + 1 /\ handEdits < MaxHandEdits /\ ok' = FALSE
      /\ UNCHANGED <<screen, name, password, passwordUpdated, todo, saving, all, popping, typed>>
  BY DEF HandEdit, fields
<1>6. handEdits' \in 0 .. MaxHandEdits
  BY <1>1, <1>5, LimitAssumption DEF TypeOK
<1>7. TypeOK'
  BY <1>1, <1>4, <1>5, <1>6 DEF TypeOK
<1>8. PhaseOK' /\ DoneOK'
  BY <1>1, <1>5 DEF PhaseOK, DoneOK
<1>. QED
  BY <1>7, <1>8 DEF IndInv

(* Every step keeps the invariant. *)
LEMMA Inductive == IndInv /\ [Next]_vars => IndInv'
<1>. SUFFICES ASSUME IndInv, [Next]_vars PROVE IndInv'
  OBVIOUS
<1>1. CASE UNCHANGED vars
  BY <1>1 DEF vars, fields, IndInv, TypeOK, PhaseOK, DoneOK
<1>2. CASE Stored
  <2>1. saving /\ todo = <<>> /\ Leave(TRUE) /\ todo' = todo /\ all' = all
    BY <1>2 DEF Stored
  <2>2. all = <<>>
    BY <2>1 DEF IndInv, PhaseOK
  <2>. QED
    BY <2>1, <2>2, LeaveKeeps
<1>3. CASE StoreFails
  BY <1>3, LeaveKeeps DEF StoreFails
<1>. QED
  BY <1>1, <1>2, <1>3, OpenKeeps, TypingKeeps, BackKeeps, NothingKeeps, TruncateKeeps, WriteKeeps,
     AwayKeeps, HandKeeps, Zenon DEF Next

(* The invariant holds in every reachable state. *)
THEOREM Always == Spec => []IndInv
<1>1. Init => IndInv
  BY Starts
<1>. QED
  BY <1>1, Inductive, PTL DEF Spec

(* Every line of the file has a hash and every map one entry per key, for   *)
(* any names and passwords typed (writeAllAuthorizedUsers()).               *)
THEOREM TypeCorrect == Spec => []TypeOK
BY Always, PTL DEF IndInv

(* Both parsers, readAllAuthorizedUsers() and sshd4a_find_user(), give the  *)
(* same credentials the same roles where no two lines share a name or role  *)
(* and none has an empty field in front of the hash.                        *)
THEOREM ParsersAgree == Spec => []ReadersAgree
<1>1. IndInv => ReadersAgree
  BY FilesAgree DEF IndInv
<1>. QED
  BY <1>1, Always, PTL

(* The line dropbear finds by the name of its user is the first of it. *)
LEMMA FoundLine ==
  ASSUME file \in Seq(Line), NEW u, sshd4a_find_user(u) # NoEntry
  PROVE  \E i \in 1 .. Len(file) :
           /\ file[i].user = u /\ sshd4a_find_user(u) = NativeLine(file[i])
           /\ \A j \in 1 .. i - 1 : file[j].user # u
<1>. DEFINE found == {i \in DOMAIN file : file[i].user = u}
<1>1. found # {} /\ sshd4a_find_user(u) = NativeLine(file[Min(found)])
  BY DEF sshd4a_find_user
<1>2. /\ found \in SUBSET Nat /\ Len(file) \in Nat
      /\ \A i \in 1 .. Len(file) : i \in found <=> file[i].user = u
      /\ \A i \in found : i \in 1 .. Len(file) /\ file[i].user = u
  OBVIOUS
<1>. HIDE DEF found
<1>3. \E x \in found : \A y \in found : x <= y
  BY <1>1, <1>2, Least
<1>4. Min(found) \in found /\ \A y \in found : Min(found) <= y
  BY <1>3, Zenon DEF Min
<1>5. PICK i \in found : i = Min(found) /\ \A y \in found : i <= y
  BY <1>4
<1>6. ASSUME NEW j \in 1 .. i - 1 PROVE file[j].user # u
  <2>1. j \in 1 .. Len(file) /\ ~(i <= j)
    BY <1>2
  <2>. QED
    BY <1>2, <1>5, <2>1
<1>. QED
  BY <1>1, <1>2, <1>5, <1>6

(* After a save without an error a cleared role has no login left, and but *)
(* for lines the app skips only the names the screen showed log in, each   *)
(* with its own role (handleOnBackPressed(), writeAuthorizedUser()).       *)
THEOREM ClearedIsRevoked == Spec => []OnlyShownLogsIn
<1>1. IndInv => OnlyShownLogsIn
  <2>. SUFFICES ASSUME IndInv, ok, NEW l \in Logins
                PROVE  /\ name[l.role] # Blank
                       /\ name[l.role][2] = l.user \/ FoundHidden(l.user)
    BY DEF OnlyShownLogsIn
  <2>1. /\ file \in Seq(Line) /\ DOMAIN file = 1 .. Len(file)
        /\ \A i \in 1 .. Len(file) : file[i] \in Line
    BY DEF IndInv, TypeOK
  <2>2. PICK u \in Name : /\ sshd4a_find_user(u) # NoEntry
                          /\ sshd4a_find_user(u).password \in Hash
                          /\ l = [user |-> u, hash |-> sshd4a_find_user(u).password,
                                  role |-> sshd4a_find_user(u).role]
    BY LoginsAre
  <2>3. PICK i \in 1 .. Len(file) :
               /\ file[i].user = u /\ sshd4a_find_user(u) = NativeLine(file[i])
               /\ \A j \in 1 .. i - 1 : file[j].user # u
    BY <2>1, <2>2, FoundLine
  <2>4. file[i].form \notin WithRest /\ file[i].role \in Role /\ file[i].form \in Form
    BY <2>1, <2>2, <2>3, NativeFields DEF Line
  <2>5. l.user = file[i].user /\ l.role = file[i].role
    BY <2>1, <2>2, <2>3, <2>4, NativeFields
  <2>6. todo = <<>> /\ ToSet(<<>>) = {}
    BY DEF IndInv, PhaseOK, TypeOK, ToSet
  <2>7. FileShows(file, name, file[i].role)
    BY <2>4, <2>6 DEF IndInv, DoneOK
  <2>8. CASE file[i].form = "plain"
    BY <2>5, <2>7, <2>8 DEF FileShows, PlainFor, Shows
  <2>9. CASE file[i].form = "hidden"
    <3>1. FoundHidden(l.user)
      BY <2>1, <2>3, <2>5, <2>9, Zenon DEF FoundHidden, Hidden
    <3>2. name[l.role] # Blank
      BY <2>5, <2>7, <2>9 DEF FileShows
    <3>. QED
      BY <3>1, <3>2
  <2>. QED
    BY <2>4, <2>8, <2>9 DEF Form, Hidden, WithRest
<1>. QED
  BY <1>1, Always, PTL

-----------------------------------------------------------------------------
(* Saving implements Credentials. *)

(* The entries of the roles, of the file f and the map a on its way there. *)
CredMap(f, a) == [r \in Role |-> IF a = <<>> THEN ReadUser(f, r) ELSE MapCred(a, r)]

(* The refinement mapping: while a map is written there is nothing in the file. *)
LEMMA CredIs == IndInv => Cred = CredMap(file, all)
<1>. SUFFICES ASSUME IndInv, NEW r \in Role
              PROVE  (IF \E e \in ToSet(all) : e.key = <<Blank, r>> /\ Usable(e.user)
                      THEN LET e == CHOOSE e \in ToSet(all) : e.key = <<Blank, r>>
                           IN  [user |-> e.user[2], hash |-> e.hash]
                      ELSE readAuthorizedUser(r))
                     = IF all = <<>> THEN ReadUser(file, r) ELSE MapCred(all, r)
  BY Zenon DEF Cred, CredMap
<1>. DEFINE c == CHOOSE e \in ToSet(all) : e.key = <<Blank, r>>
<1>1. /\ all \in Seq(Entry) /\ OneEntryPerKey(all) /\ file \in Seq(Line)
      /\ all # <<>> => file = <<>>
  BY DEF IndInv, TypeOK, PhaseOK
<1>2. \A e : e \in ToSet(all) <=> In(all, e)
  BY <1>1, InSet
<1>3. readAuthorizedUser(r) = ReadUser(file, r)
  BY ReadersOfFile
<1>4. CASE \E e \in ToSet(all) : e.key = <<Blank, r>> /\ Usable(e.user)
  <2>1. c \in ToSet(all) /\ c.key = <<Blank, r>>
    BY <1>4, Zenon
  <2>. HIDE DEF c
  <2>2. In(all, c) /\ all # <<>>
    BY <1>2, <2>1, Empty
  <2>3. UserOf(all, r) = Of(c)
    BY <1>1, <2>1, <2>2, UserOfMap
  <2>4. MapCred(all, r) = Of(c)
    BY <1>2, <1>4, <2>3, Zenon DEF MapCred
  <2>5. Of(c) = [user |-> c.user[2], hash |-> c.hash]
    BY DEF Of
  <2>. QED
    BY <1>4, <2>2, <2>4, <2>5, Zenon DEF c
<1>5. CASE ~ \E e \in ToSet(all) : e.key = <<Blank, r>> /\ Usable(e.user)
  <2>1. MapCred(all, r) = NoEntry
    BY <1>2, <1>5, Zenon DEF MapCred
  <2>2. all # <<>> => ReadUser(file, r) = NoEntry
    <3>. SUFFICES ASSUME file = <<>> PROVE ReadUser(file, r) = NoEntry
      BY <1>1
    <3>1. \A i \in 1 .. Len(file) : ~PlainFor(file[i], r)
      OBVIOUS
    <3>. QED
      BY <1>1, <3>1, ReadNone
  <2>. QED
    BY <1>3, <1>5, <2>1, <2>2, Zenon
<1>. QED
  BY <1>4, <1>5

(* The same after a step. *)
LEMMA CredNext == IndInv' => Cred' = CredMap(file', all')
<1>1. (IndInv => Cred = CredMap(file, all))'
  BY CredIs, PTL
<1>. QED
  BY <1>1

(* A step that leaves the file and the map. *)
LEMMA CredStays ==
  ASSUME IndInv, IndInv', UNCHANGED <<file, all>>
  PROVE  Cred' = Cred
BY CredIs, CredNext

(* What is in a new map for the roles that are not stored. *)
LEMMA OtherRoles ==
  ASSUME TypeOK, NEW r \in Role, NEW m, Renewed(m, r), NEW q \in Role, q # r
  PROVE  MapCred(m, q) = ReadUser(file, q)
<1>. DEFINE a == ReadMap(file)
<1>1. /\ a \in Seq(Entry) /\ OneEntryPerKey(a) /\ \A e : In(a, e) => Usable(e.user)
  BY ReadEntries DEF TypeOK
<1>. HIDE DEF a
<1>2. /\ m \in Seq(Entry) /\ OneEntryPerKey(m)
      /\ \A e : In(m, e) /\ e.key = <<Blank, q>> <=> In(a, e) /\ e.key = <<Blank, q>>
  BY DEF Renewed, a
<1>3. CASE \E e : In(a, e) /\ e.key = <<Blank, q>>
  <2>1. PICK e : In(a, e) /\ e.key = <<Blank, q>>
    BY <1>3
  <2>2. UserOf(a, q) = Of(e) /\ UserOf(m, q) = Of(e)
    BY <1>1, <1>2, <2>1, UserOfMap
  <2>3. Usable(e.user)
    BY <1>1, <2>1
  <2>. QED
    BY <1>2, <2>1, <2>2, <2>3, Zenon DEF MapCred, ReadUser, a
<1>4. CASE ~ \E e : In(a, e) /\ e.key = <<Blank, q>>
  <2>1. UserOf(a, q) = NoEntry
    BY <1>1, <1>4, UserOfMap
  <2>. QED
    BY <1>2, <1>4, <2>1, Zenon DEF MapCred, ReadUser, a
<1>. QED
  BY <1>3, <1>4

(* A role is stored, in the map that is to be written or by deleting the file. *)
LEMMA StoresRole ==
  ASSUME IndInv, IndInv', Storing, NEW n, n = NewMap(Head(todo)), n.write,
         \/ n.map # <<>> /\ all' = n.map
         \/ n.map = <<>> /\ file' = <<>> /\ all' = all,
         UNCHANGED <<name, password, passwordUpdated, saving>>
  PROVE  Promise!Store(Head(todo))
<1>. DEFINE r == Head(todo)
            row == Row(ReadUser(file, r), name[r], passwordUpdated[r], password[r])
<1>1. TypeOK /\ saving /\ all = <<>> /\ r \in Role
  BY NextRole DEF IndInv, Storing
<1>2. Renewed(n.map, r) /\ MapCred(n.map, r) = row /\ (n.map = <<>> => row = NoEntry)
  BY <1>1, NewMaps
<1>3. Cred = [q \in Role |-> ReadUser(file, q)]
  BY <1>1, CredIs DEF CredMap
<1>4. \A q \in Role : q # r => MapCred(n.map, q) = ReadUser(file, q)
  BY <1>1, <1>2, OtherRoles
<1>5. Cred' = [q \in Role |-> MapCred(n.map, q)]
  <2>1. CASE n.map # <<>> /\ all' = n.map
    BY <2>1, CredNext DEF CredMap
  <2>2. CASE n.map = <<>> /\ file' = <<>> /\ all' = all
    <3>1. Cred' = [q \in Role |-> ReadUser(<<>>, q)]
      BY <1>1, <2>2, CredNext DEF CredMap
    <3>2. ASSUME NEW q \in Role PROVE ReadUser(<<>>, q) = MapCred(<<>>, q)
      <4>1. <<>> \in Seq(Line) /\ \A i \in 1 .. Len(<<>>) : ~PlainFor(<<>>[i], q)
        OBVIOUS
      <4>2. ReadUser(<<>>, q) = NoEntry
        BY <4>1, ReadNone
      <4>3. MapCred(<<>>, q) = NoEntry
        BY Empty DEF MapCred
      <4>. QED
        BY <4>2, <4>3
    <3>. QED
      BY <2>2, <3>1, <3>2
  <2>. QED
    BY <2>1, <2>2
<1>6. Cred[r] = ReadUser(file, r)
  BY <1>1, <1>3
<1>7. Promise!Stored(Cred[r], name[r], passwordUpdated[r], password[r]) = row
  BY <1>6 DEF Row
<1>. HIDE DEF row, r
<1>8. Cred' = [Cred EXCEPT ![r] = row]
  BY <1>1, <1>2, <1>3, <1>4, <1>5
<1>9. Cred' = [Cred EXCEPT ![r] = Promise!Stored(Cred[r], name[r], passwordUpdated[r], password[r])]
  BY <1>7, <1>8
<1>. QED
  BY <1>1, <1>9, Zenon DEF Promise!Store, r

(* The map is written: the file has what the map had. *)
LEMMA WritesMap ==
  ASSUME IndInv, IndInv', writeAllAuthorizedUsers
  PROVE  Cred' = Cred
<1>1. all \in Seq(Entry) /\ OneEntryPerKey(all)
  BY DEF IndInv, TypeOK
<1>2. all # <<>> /\ all' = <<>> /\ file' = [i \in DOMAIN all |-> LineOf(all[i])]
  BY DEF writeAllAuthorizedUsers
<1>3. \A r \in Role : ReadUser(file', r) = MapCred(all, r)
  BY <1>1, <1>2, ReadWritten
<1>. QED
  BY <1>2, <1>3, CredIs, CredNext DEF CredMap

(* The map that was to be written is gone. *)
LEMMA LosesMap ==
  ASSUME IndInv, IndInv', all # <<>>, all' = <<>>, UNCHANGED file, ~saving'
  PROVE  Promise!Lose
<1>1. saving /\ file = <<>> /\ file \in Seq(Line)
  BY DEF IndInv, PhaseOK, TypeOK
<1>2. \A r \in Role : ReadUser(file, r) = NoEntry
  <2>1. \A r \in Role : \A i \in 1 .. Len(file) : ~PlainFor(file[i], r)
    BY <1>1
  <2>. QED
    BY <1>1, <2>1, ReadNone
<1>3. Cred' = [r \in Role |-> NoEntry]
  BY <1>2, CredNext DEF CredMap
<1>. QED
  BY <1>1, <1>3 DEF Promise!Lose

(* A line added by hand is the last one of its role and of no other; one   *)
(* with a colon in its name changes no entry.                              *)
LEMMA AddsLine ==
  ASSUME IndInv, IndInv', HandEdit
  PROVE  Promise!HandEdit \/ Promise!Screen
<1>1. /\ ~saving /\ UNCHANGED <<name, password, passwordUpdated, saving, all>>
  BY DEF HandEdit, fields
<1>2. all = <<>> /\ file \in Seq(Line) /\ file' \in Seq(Line)
  BY <1>1 DEF IndInv, PhaseOK, TypeOK
<1>3. PICK n \in Typed, h \in Hash, r \in Role :
        file' = Append(file, [form |-> n[1], user |-> n[2], hash |-> h, role |-> r])
  BY DEF HandEdit
<1>. DEFINE l == [form |-> n[1], user |-> n[2], hash |-> h, role |-> r]
            k == Len(file) + 1
<1>4. l.form = n[1] /\ l.role = r
  OBVIOUS
<1>. HIDE DEF l
<1>5. /\ Len(file) \in Nat /\ Len(file') = k /\ file'[k] = l
      /\ \A i \in 1 .. Len(file) : file'[i] = file[i]
  BY <1>2, <1>3 DEF l
<1>6. ASSUME NEW q \in Role, ~PlainFor(l, q) PROVE ReadUser(file', q) = ReadUser(file, q)
  <2>1. \A i \in 1 .. k : PlainFor(file'[i], q) <=> i # k /\ PlainFor(file[i], q)
    <3>. SUFFICES ASSUME NEW i \in 1 .. k
                  PROVE  PlainFor(file'[i], q) <=> i # k /\ PlainFor(file[i], q)
      OBVIOUS
    <3>1. CASE i = k
      BY <1>5, <1>6, <3>1
    <3>2. CASE i # k
      BY <1>5, <3>2
    <3>. QED
      BY <3>1, <3>2
  <2>2. CASE \A i \in 1 .. Len(file) : ~PlainFor(file[i], q)
    <3>1. \A i \in 1 .. Len(file') : ~PlainFor(file'[i], q)
      BY <1>5, <2>1, <2>2
    <3>. QED
      BY <1>2, <2>2, <3>1, ReadNone
  <2>3. CASE \E i \in 1 .. Len(file) : LastPlain(file, i, q)
    <3>1. PICK i \in 1 .. Len(file) : LastPlain(file, i, q)
      BY <2>3
    <3>2. i \in 1 .. Len(file') /\ LastPlain(file', i, q)
      BY <1>5, <2>1, <3>1 DEF LastPlain
    <3>3. CredOf(file'[i]) = CredOf(file[i])
      BY <1>5
    <3>. QED
      BY <1>2, <3>1, <3>2, <3>3, ReadLast
  <2>. QED
    BY <1>2, <2>2, <2>3, ReadEither
<1>7. /\ Cred = [q \in Role |-> ReadUser(file, q)] /\ Cred' = [q \in Role |-> ReadUser(file', q)]
  BY <1>1, <1>2, CredIs, CredNext DEF CredMap
<1>8. CASE n[1] = "plain"
  <2>1. LastPlain(file', k, r)
    BY <1>4, <1>5, <1>8 DEF LastPlain, PlainFor
  <2>2. ReadUser(file', r) # NoEntry
    BY <1>2, <1>5, <2>1, ReadLast
  <2>3. \A q \in Role : q # r => ReadUser(file', q) = ReadUser(file, q)
    BY <1>4, <1>6 DEF PlainFor
  <2>4. Cred'[r] # NoEntry /\ \A q \in Role \ {r} : Cred'[q] = Cred[q]
    BY <1>7, <2>2, <2>3
  <2>. QED
    BY <1>1, <2>4, Zenon DEF Promise!HandEdit
<1>9. CASE n[1] # "plain"
  <2>1. \A q \in Role : ReadUser(file', q) = ReadUser(file, q)
    BY <1>4, <1>6, <1>9 DEF PlainFor
  <2>2. Cred' = Cred
    BY <1>7, <2>1
  <2>. QED
    BY <1>1, <2>2 DEF Promise!Screen
<1>. QED
  BY <1>8, <1>9

(* Every step is one of Credentials, or leaves what it is about. *)
LEMMA CredStep ==
  ASSUME IndInv, IndInv', [Next]_vars
  PROVE  [Promise!Next]_(Promise!vars)
<1>. USE DEF fields
<1>1. CASE /\ UNCHANGED <<file, all>>
           /\ saving /\ saving' => UNCHANGED <<name, password, passwordUpdated>>
  <2>1. Promise!Screen
    BY <1>1, CredStays DEF Promise!Screen
  <2>. QED
    BY <2>1 DEF Promise!Next
<1>2. CASE UNCHANGED vars
  BY <1>1, <1>2 DEF vars
<1>3. CASE OpenScreen
  BY <1>1, <1>3 DEF OpenScreen, IndInv, PhaseOK
<1>4. CASE \E r \in Role : \/ \E n \in Typed \cup {Blank} : putUsername(r, n)
                           \/ \E p \in Hash \cup {Blank} : putPassword(r, p)
  <2>1. ~saving /\ UNCHANGED <<file, all>>
    BY <1>4, Zenon DEF putUsername, putPassword, Typing
  <2>. QED
    BY <1>1, <2>1
<1>5. CASE handleOnBackPressed
  BY <1>1, <1>5 DEF handleOnBackPressed
<1>6. CASE StoreNothing
  <2>. DEFINE n == NewMap(Head(todo))
  <2>1. /\ Storing /\ UNCHANGED <<name, password, passwordUpdated, saving, all>>
        /\ (~n.write /\ file' = file) \/ (n.write /\ n.map = <<>> /\ file' = <<>>)
    BY <1>6, Zenon DEF StoreNothing
  <2>. HIDE DEF n
  <2>2. CASE ~n.write /\ file' = file
    BY <1>1, <2>1, <2>2
  <2>3. CASE n.write /\ n.map = <<>> /\ file' = <<>>
    <3>1. Promise!Store(Head(todo)) /\ Head(todo) \in Role
      BY <2>1, <2>3, StoresRole, NextRole DEF n, IndInv, Storing
    <3>. QED
      BY <3>1, Zenon DEF Promise!Next
  <2>. QED
    BY <2>1, <2>2, <2>3
<1>7. CASE Truncate
  <2>. DEFINE n == NewMap(Head(todo))
  <2>1. /\ Storing /\ UNCHANGED <<name, password, passwordUpdated, saving>>
        /\ n.write /\ n.map # <<>> /\ all' = n.map
    BY <1>7, Zenon DEF Truncate
  <2>. HIDE DEF n
  <2>2. Promise!Store(Head(todo)) /\ Head(todo) \in Role
    BY <2>1, StoresRole, NextRole DEF n, IndInv, Storing
  <2>. QED
    BY <2>2, Zenon DEF Promise!Next
<1>8. CASE writeAllAuthorizedUsers
  <2>1. UNCHANGED <<name, password, passwordUpdated>>
    BY <1>8 DEF writeAllAuthorizedUsers
  <2>2. Promise!Screen
    BY <1>8, <2>1, WritesMap DEF Promise!Screen
  <2>. QED
    BY <2>2 DEF Promise!Next
<1>9. CASE Stored
  BY <1>1, <1>9 DEF Stored, Leave
<1>10. CASE StoreFails \/ Kill
  <2>1. ~saving' /\ all' = <<>> /\ UNCHANGED file
    BY <1>10 DEF StoreFails, Kill, Leave
  <2>2. CASE all = <<>>
    BY <1>1, <2>1, <2>2
  <2>3. CASE all # <<>>
    BY <2>1, <2>3, LosesMap DEF Promise!Next
  <2>. QED
    BY <2>2, <2>3
<1>11. CASE AnswerWarning
  BY <1>1, <1>11 DEF AnswerWarning, IndInv, PhaseOK
<1>12. CASE HandEdit
  BY <1>12, AddsLine DEF Promise!Next
<1>13. CASE DelayedPop
  BY <1>1, <1>13 DEF DelayedPop
<1>. QED
  BY <1>2, <1>3, <1>4, <1>5, <1>6, <1>7, <1>8, <1>9, <1>10, <1>11, <1>12, <1>13, Zenon DEF Next

(* Saving implements the table of writeAuthorizedUser(), for any names and  *)
(* passwords: each role by its row, no other role's entry touched, entries *)
(* lost only by a write that failed after the truncation.                   *)
THEOREM SavesByTheTable == Spec => ImplementsCredentials
<1>1. Init => Cred = [r \in Role |-> NoEntry]
  <2>. SUFFICES ASSUME Init PROVE Cred = [r \in Role |-> NoEntry]
    OBVIOUS
  <2>1. IndInv /\ all = <<>> /\ file = <<>> /\ file \in Seq(Line)
    BY Starts, Empty DEF Init
  <2>2. \A r \in Role : \A i \in 1 .. Len(file) : ~PlainFor(file[i], r)
    BY <2>1
  <2>3. \A r \in Role : ReadUser(file, r) = NoEntry
    BY <2>1, <2>2, ReadNone
  <2>. QED
    BY <2>1, <2>3, CredIs DEF CredMap
<1>2. IndInv /\ IndInv' /\ [Next]_vars => [Promise!Next]_(Promise!vars)
  BY CredStep
<1>. QED
  BY <1>1, <1>2, Always, PTL DEF Spec, ImplementsCredentials, Promise!Spec
===============================================================================
