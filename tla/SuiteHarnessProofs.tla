------------------------- MODULE SuiteHarnessProofs -------------------------
(***************************************************************************)
(* The harness for every configuration, list of tests, set of pods and     *)
(* number of test cases: a case starts in a swept cluster, and a script    *)
(* that reports success has run every test and leaves a swept cluster.     *)
(*                                                                         *)
(* What a process has still to do is a sequence that grows in front as     *)
(* functions are called and shrinks as they give up, so the invariant is   *)
(* about the order of the steps in it.                                     *)
(***************************************************************************)
EXTENDS SuiteHarness, SequenceTheorems, TLAPS

-----------------------------------------------------------------------------
(* Sequences of steps                                                      *)

\* The steps that end a resourceCheck, those that a test case comes after, and
\* all that belong to the handling of a case.
Checks == {"checked", "precheck", "rechecked"}
Starts == {"before", "checked", "precheck"}
Closers == {"after", "rechecked"}
Control == Checks \cup Starts \cup Closers \cup {"it"}

Dos == Control \cup Marks \cup
       {"see", "none", "healthy", "delete", "call", "rmReplicas", "listPods", "deletePods",
        "awaitPods", "ready", "rmPools", "destroyPools", "mkPools", "online", "controlPlane",
        "install", "teardown", "forget"}
Args == Kinds \cup {"", "health", "pools", "usage-now", "namespaces", "EnsureNodeLabels",
        "DeleteAllPoolFinalizers", "ignore", "report"}
Step == [do: Dos, arg: Args, must: BOOLEAN]

\* Before the i-th step there is one of "looks", with nothing but looks between.
Sought(s, i, looks) ==
  \E j \in 1..(i - 1) : s[j] \in looks /\ \A m \in j..(i - 1) : s[m].do = "see"

\* The steps of a process are in order.  A function that gives up has somewhere
\* to go on that is not past the case; a case comes directly after a check (or
\* the call of it) and directly before AfterEachCheck; and whoever uses the result
\* of a check has had everything looked for, unless it is settled already and
\* there are only looks to come.  A maps each kind to the steps that look for it.
Sound(s, settled, A) ==
  /\ s \in Seq(Step)
  /\ \A i \in 1..Len(s) : s[i].do = "see" => ~s[i].must
  /\ \A i \in 1..Len(s) : s[i].must =>
       \E j \in (i + 1)..Len(s) :
         s[j].do \in Marks /\ \A m \in i..(j - 1) : s[m].do \notin Marks \cup Control
  /\ \A i \in 1..Len(s) : s[i].do \in Starts => i < Len(s) /\ s[i + 1].do = "it"
  /\ \A i \in 1..Len(s) : s[i].do = "it" =>
       (i > 1 => s[i - 1].do \in Starts) /\ i < Len(s) /\ s[i + 1].do = "after"
  /\ \A i \in 1..Len(s) : s[i].do \in Checks =>
       \A k \in DOMAIN A :
         Sought(s, i, A[k]) \/ (k \in settled /\ \A m \in 1..(i - 1) : s[m].do = "see")

IsDrop(s, t, n) ==
  t \in Seq(Step) /\ Len(t) = Len(s) - n /\ \A i \in 1..Len(t) : t[i] = s[i + n]

LEMMA TailDrops ==
  ASSUME NEW s \in Seq(Step), s # << >>
  PROVE  IsDrop(s, Tail(s), 1) /\ Len(s) \in Nat \ {0} /\ Head(s) = s[1]
  BY HeadTailProperties, LenProperties, EmptySeq DEF IsDrop

\* Steps that are dropped, up to one that is no look or before a mark, leave
\* nothing that depends on them.
LEMMA DropKeeps ==
  ASSUME NEW s, NEW t, NEW n \in Nat \ {0}, NEW E, NEW A, n <= Len(s),
         IsDrop(s, t, n), Sound(s, E, A),
         s[n].do # "see" \/ (n < Len(s) /\ s[n + 1].do \in Marks)
  PROVE  Sound(t, {}, A)
  <1>1. s \in Seq(Step) /\ t \in Seq(Step) /\ Len(s) \in Nat /\ Len(t) \in Nat /\ Len(t) = Len(s) - n
    BY LenProperties DEF IsDrop, Sound
  <1>2. \A i \in 1..Len(t) : t[i] = s[i + n] /\ i + n \in 1..Len(s)
    BY <1>1 DEF IsDrop
  <1>3. ASSUME NEW i \in 1..Len(t), t[i].must
        PROVE  \E j \in (i + 1)..Len(t) :
                 t[j].do \in Marks /\ \A m \in i..(j - 1) : t[m].do \notin Marks \cup Control
    <2>1. PICK j \in (i + n + 1)..Len(s) :
            s[j].do \in Marks /\ \A m \in (i + n)..(j - 1) : s[m].do \notin Marks \cup Control
      BY <1>1, <1>2, <1>3, Zenon DEF Sound
    <2>2. j - n \in (i + 1)..Len(t) /\ t[j - n] = s[j]
      BY <1>1, <1>2, <2>1
    <2>3. ASSUME NEW m \in i..(j - n - 1) PROVE t[m].do \notin Marks \cup Control
      <3>1. m \in 1..Len(t) /\ m + n \in (i + n)..(j - 1)
        BY <1>1, <2>1, <2>2
      <3> QED BY <1>2, <2>1, <3>1
    <2> QED BY <2>1, <2>2, <2>3
  <1>4. ASSUME NEW i \in 1..Len(t), t[i].do \in Checks, NEW k \in DOMAIN A PROVE Sought(t, i, A[k])
    <2>1. ~(\A m \in n..(i + n - 1) : s[m].do = "see")
      <3>1. CASE s[n].do # "see"
        BY <3>1, <1>1
      <3>2. CASE n < Len(s) /\ s[n + 1].do \in Marks
        <4>1. i # 1
          BY <1>2, <1>4, <3>2 DEF Checks, Marks
        <4>2. n + 1 \in n..(i + n - 1) /\ s[n + 1].do # "see"
          BY <1>1, <3>2, <4>1 DEF Marks
        <4> QED BY <4>2
      <3> QED BY <3>1, <3>2
    <2>2. Sought(s, i + n, A[k])
      <3>1. i + n \in 1..Len(s) /\ s[i + n].do \in Checks
        BY <1>2, <1>4
      <3>2. Sought(s, i + n, A[k]) \/ \A m \in 1..((i + n) - 1) : s[m].do = "see"
        BY <3>1 DEF Sound
      <3>3. n..(i + n - 1) \subseteq 1..((i + n) - 1)
        BY <1>1
      <3> QED BY <2>1, <3>2, <3>3
    <2>3. PICK j \in 1..(i + n - 1) : s[j] \in A[k] /\ \A m \in j..(i + n - 1) : s[m].do = "see"
      BY <2>2 DEF Sought
    <2>4. j > n
      BY <2>1, <2>3
    <2>5. j - n \in 1..(i - 1) /\ t[j - n] \in A[k]
      <3> j \in Int /\ n \in Int /\ i \in Int /\ Len(t) \in Int
        BY <1>1, <2>3
      <3>1. j - n \in 1..(i - 1) /\ j - n \in 1..Len(t) /\ (j - n) + n = j
        BY <2>3, <2>4
      <3> QED BY <1>2, <2>3, <3>1, Zenon
    <2>6. ASSUME NEW m \in (j - n)..(i - 1) PROVE t[m].do = "see"
      <3>1. m \in 1..Len(t) /\ m + n \in j..(i + n - 1)
        BY <1>1, <2>3, <2>4
      <3> QED BY <1>2, <2>3, <3>1
    <2> QED BY <2>5, <2>6 DEF Sought
  <1>5. ASSUME NEW i \in 1..Len(t), t[i].do \in Starts PROVE i < Len(t) /\ t[i + 1].do = "it"
    <2>1. i + n < Len(s) /\ s[(i + n) + 1].do = "it"
      BY <1>2, <1>5 DEF Sound
    <2>2. i < Len(t) /\ i + 1 \in 1..Len(t) /\ (i + 1) + n = (i + n) + 1
      <3>1. i \in 1..Len(t) /\ Len(t) \in Nat /\ Len(t) = Len(s) - n /\ n \in Nat /\ Len(s) \in Nat /\ i + n < Len(s)
        BY <1>1, <2>1
      <3> QED BY <3>1
    <2> QED BY <1>2, <2>1, <2>2
  <1>6. ASSUME NEW i \in 1..Len(t), t[i].do = "it"
        PROVE  (i > 1 => t[i - 1].do \in Starts) /\ i < Len(t) /\ t[i + 1].do = "after"
    <2>1. i + n > 1 /\ s[(i + n) - 1].do \in Starts /\ i + n < Len(s) /\ s[(i + n) + 1].do = "after"
      BY <1>1, <1>2, <1>6 DEF Sound
    <2>2. i < Len(t) /\ i + 1 \in 1..Len(t) /\ (i + 1) + n = (i + n) + 1
      <3>1. i \in 1..Len(t) /\ Len(t) \in Nat /\ Len(t) = Len(s) - n /\ n \in Nat /\ Len(s) \in Nat /\ i + n < Len(s)
        BY <1>1, <2>1
      <3> QED BY <3>1
    <2>3. i > 1 => i - 1 \in 1..Len(t) /\ (i - 1) + n = (i + n) - 1
      BY <1>1
    <2> QED BY <1>2, <2>1, <2>2, <2>3, Zenon
  <1>7. ASSUME NEW i \in 1..Len(t), t[i].do = "see" PROVE ~t[i].must
    <2>1. i + n \in 1..Len(s) /\ t[i] = s[i + n]
      BY <1>1, <1>2
    <2> QED BY <1>7, <2>1 DEF Sound
  <1> QED BY <1>1, <1>3, <1>4, <1>5, <1>6, <1>7 DEF Sound

\* A look that is over has settled what it looks for.
LEMMA LookKeeps ==
  ASSUME NEW s, NEW t, NEW E, NEW F, NEW A, 1 <= Len(s),
         IsDrop(s, t, 1), Sound(s, E, A), s[1].do = "see",
         E \subseteq F, \A k \in DOMAIN A : s[1] \in A[k] => k \in F
  PROVE  Sound(t, F, A)
  <1>1. s \in Seq(Step) /\ t \in Seq(Step) /\ Len(s) \in Nat /\ Len(t) \in Nat /\ Len(t) = Len(s) - 1
    BY LenProperties DEF IsDrop, Sound
  <1>2. \A i \in 1..Len(t) : t[i] = s[i + 1] /\ i + 1 \in 1..Len(s)
    BY <1>1 DEF IsDrop
  <1>3. ASSUME NEW i \in 1..Len(t), t[i].must
        PROVE  \E j \in (i + 1)..Len(t) :
                 t[j].do \in Marks /\ \A m \in i..(j - 1) : t[m].do \notin Marks \cup Control
    <2>1. PICK j \in (i + 2)..Len(s) :
            s[j].do \in Marks /\ \A m \in (i + 1)..(j - 1) : s[m].do \notin Marks \cup Control
      BY <1>1, <1>2, <1>3 DEF Sound
    <2>2. j - 1 \in (i + 1)..Len(t) /\ t[j - 1] = s[j]
      BY <1>1, <1>2, <2>1
    <2>3. \A m \in i..(j - 2) : t[m].do \notin Marks \cup Control
      BY <1>1, <1>2, <2>1
    <2> QED BY <2>1, <2>2, <2>3
  <1>4. ASSUME NEW i \in 1..Len(t), t[i].do \in Checks, NEW k \in DOMAIN A
        PROVE  Sought(t, i, A[k]) \/ (k \in F /\ \A m \in 1..(i - 1) : t[m].do = "see")
    <2>1. CASE k \in E /\ \A m \in 1..i : s[m].do = "see"
      <3>1. ASSUME NEW m \in 1..(i - 1) PROVE t[m].do = "see"
        <4>1. m \in 1..Len(t) /\ m + 1 \in 1..i
          BY <1>1
        <4> QED BY <1>2, <2>1, <4>1
      <3> QED BY <2>1, <3>1
    <2>2. CASE Sought(s, i + 1, A[k])
      <3>1. PICK j \in 1..i : s[j] \in A[k] /\ \A m \in j..i : s[m].do = "see"
        BY <2>2 DEF Sought
      <3>2. CASE j = 1
        BY <1>1, <1>2, <3>1, <3>2
      <3>3. CASE j > 1
        <4>1. j - 1 \in 1..(i - 1) /\ j - 1 \in 1..Len(t) /\ (j - 1) + 1 = j
          BY <1>1, <3>1, <3>3
        <4>2. ASSUME NEW m \in (j - 1)..(i - 1) PROVE t[m].do = "see"
          <5>1. m \in 1..Len(t) /\ m + 1 \in j..i
            BY <1>1, <3>1, <3>3
          <5> QED BY <1>2, <3>1, <5>1
        <4> QED BY <1>2, <3>1, <4>1, <4>2, Zenon DEF Sought
      <3> QED BY <3>2, <3>3
    <2>3. i + 1 \in 1..Len(s) /\ s[i + 1].do \in Checks /\ (i + 1) - 1 = i
      BY <1>1, <1>2, <1>4
    <2>4. Sought(s, i + 1, A[k]) \/ (k \in E /\ \A m \in 1..((i + 1) - 1) : s[m].do = "see")
      BY <2>3 DEF Sound
    <2> QED BY <2>1, <2>2, <2>3, <2>4
  <1>5. ASSUME NEW i \in 1..Len(t), t[i].do \in Starts PROVE i < Len(t) /\ t[i + 1].do = "it"
    <2>1. i + 1 < Len(s) /\ s[(i + 1) + 1].do = "it"
      BY <1>2, <1>5 DEF Sound
    <2>2. i < Len(t) /\ i + 1 \in 1..Len(t) /\ (i + 1) + 1 = (i + 1) + 1
      BY <1>1, <2>1
    <2> QED BY <1>2, <2>1, <2>2
  <1>6. ASSUME NEW i \in 1..Len(t), t[i].do = "it"
        PROVE  (i > 1 => t[i - 1].do \in Starts) /\ i < Len(t) /\ t[i + 1].do = "after"
    <2>1. i + 1 > 1 /\ s[(i + 1) - 1].do \in Starts /\ i + 1 < Len(s) /\ s[(i + 1) + 1].do = "after"
      BY <1>1, <1>2, <1>6 DEF Sound
    <2>2. i < Len(t) /\ i + 1 \in 1..Len(t) /\ (i + 1) + 1 = (i + 1) + 1
      BY <1>1, <2>1
    <2>3. i > 1 => i - 1 \in 1..Len(t) /\ (i - 1) + 1 = (i + 1) - 1
      BY <1>1
    <2> QED BY <1>2, <2>1, <2>2, <2>3
  <1>7. ASSUME NEW i \in 1..Len(t), t[i].do = "see" PROVE ~t[i].must
    <2>1. i + 1 \in 1..Len(s) /\ t[i] = s[i + 1]
      BY <1>1, <1>2
    <2> QED BY <1>7, <2>1 DEF Sound
  <1> QED BY <1>1, <1>3, <1>4, <1>5, <1>6, <1>7 DEF Sound

LEMMA Weaker ==
  ASSUME NEW s, NEW E, NEW F, NEW A, E \subseteq F, Sound(s, E, A)
  PROVE  Sound(s, F, A)
  BY DEF Sound

LEMMA EmptySound == ASSUME NEW E, NEW A PROVE Sound(<< >>, E, A)
  BY EmptySeq DEF Sound

-----------------------------------------------------------------------------
(* Functions that are called                                               *)

\* Steps outside the handling of a case.
Plain(u) ==
  /\ u \in Seq(Step)
  /\ \A i \in 1..Len(u) : u[i].do \notin Control \cup Marks /\ (u[i].do = "see" => ~u[i].must)

\* A function: its steps, and the mark where it ends if one of them can give up.
Block(u) ==
  /\ u \in Seq(Step) /\ Len(u) > 0
  /\ \A i \in 1..Len(u) :
       /\ u[i].do \notin Control /\ (u[i].do = "see" => ~u[i].must)
       /\ u[i].must => i < Len(u) /\ u[Len(u)].do \in Marks
       /\ u[i].do \in Marks => i = Len(u)

Quiet(r) == r = << >> \/ r[1].do # "it"

LEMMA PlainConcat ==
  ASSUME NEW u, NEW v, Plain(u), Plain(v)
  PROVE  Plain(u \o v)
  <1>1. /\ u \in Seq(Step) /\ v \in Seq(Step) /\ Len(u) \in Nat /\ Len(v) \in Nat
        /\ u \o v \in Seq(Step) /\ Len(u \o v) = Len(u) + Len(v)
        /\ \A i \in 1..(Len(u) + Len(v)) : (u \o v)[i] = IF i <= Len(u) THEN u[i] ELSE v[i - Len(u)]
    BY ConcatProperties, LenProperties DEF Plain
  <1>2. \A i \in 1..(Len(u) + Len(v)) :
          (i <= Len(u) /\ i \in 1..Len(u) /\ (u \o v)[i] = u[i]) \/ (i - Len(u) \in 1..Len(v) /\ (u \o v)[i] = v[i - Len(u)])
    BY <1>1
  <1> QED BY <1>1, <1>2 DEF Plain

LEMMA OneStep ==
  ASSUME NEW e \in Step
  PROVE  <<e>> \in Seq(Step) /\ Len(<<e>>) = 1 /\ <<e>>[1] = e
  OBVIOUS

LEMMA PlainBlock ==
  ASSUME NEW u, Plain(u), NEW m \in Marks
  PROVE  Block(u \o <<Try(m, "")>>)
  <1> DEFINE e == <<Try(m, "")>>
  <1>1. e \in Seq(Step) /\ Len(e) = 1 /\ e[1].do = m /\ ~e[1].must
    <2>1. Try(m, "") \in Step /\ Try(m, "").do = m /\ ~Try(m, "").must
      BY DEF Try, Step, Dos, Args
    <2>2. <<Try(m, "")>> \in Seq(Step) /\ Len(<<Try(m, "")>>) = 1 /\ <<Try(m, "")>>[1] = Try(m, "")
      BY <2>1, OneStep, Zenon
    <2> QED BY <2>1, <2>2, Zenon
  <1> HIDE DEF e
  <1>2. /\ u \in Seq(Step) /\ Len(u) \in Nat
        /\ u \o e \in Seq(Step) /\ Len(u \o e) = Len(u) + 1
        /\ \A i \in 1..(Len(u) + 1) : (u \o e)[i] = IF i <= Len(u) THEN u[i] ELSE e[i - Len(u)]
    <2>1. u \in Seq(Step) /\ Len(u) \in Nat
      BY LenProperties DEF Plain
    <2>2. /\ u \o e \in Seq(Step) /\ Len(u \o e) = Len(u) + Len(e)
          /\ \A i \in 1..(Len(u) + Len(e)) : (u \o e)[i] = IF i <= Len(u) THEN u[i] ELSE e[i - Len(u)]
      BY <1>1, <2>1, ConcatProperties, Zenon
    <2> QED BY <1>1, <2>1, <2>2
  <1>3. /\ \A i \in 1..Len(u) : (u \o e)[i] = u[i]
        /\ (u \o e)[Len(u) + 1] = e[1]
    BY <1>2
  <1>4. \A i \in 1..(Len(u) + 1) : i \in 1..Len(u) \/ i = Len(u) + 1
    BY <1>2
  <1>5. m \notin Control /\ m # "see"
    BY DEF Marks, Control, Checks, Starts, Closers
  <1>6. \A i \in 1..Len(u) : i < Len(u) + 1 /\ i # Len(u) + 1
    BY <1>2
  <1>7. Block(u \o e)
    BY <1>1, <1>2, <1>3, <1>4, <1>5, <1>6 DEF Plain, Block
  <1> QED BY <1>7, Zenon DEF e

\* A call: the steps of the function come first.
LEMMA CallSound ==
  ASSUME NEW u, NEW r, NEW A, Block(u), Sound(r, {}, A), Quiet(r)
  PROVE  Sound(u \o r, {}, A) /\ Quiet(u \o r) /\ u \o r \in Seq(Step)
  <1> DEFINE s == u \o r
             a == Len(u)
             b == Len(r)
  <1>1. /\ u \in Seq(Step) /\ r \in Seq(Step) /\ a \in Nat /\ b \in Nat /\ a > 0
        /\ s \in Seq(Step) /\ Len(s) = a + b
        /\ \A i \in 1..(a + b) : s[i] = IF i <= a THEN u[i] ELSE r[i - a]
    BY ConcatProperties, LenProperties DEF Block, Sound
  <1>2. /\ \A i \in 1..a : s[i] = u[i] /\ i \in 1..Len(s)
        /\ \A i \in 1..b : s[i + a] = r[i] /\ i + a \in 1..Len(s)
        /\ \A i \in 1..Len(s) : i \in 1..a \/ (i - a \in 1..b /\ s[i] = r[i - a] /\ i > a)
    BY <1>1
  <1> HIDE DEF s
  <1>3. ASSUME NEW i \in 1..Len(s), s[i].must
        PROVE  \E j \in (i + 1)..Len(s) :
                 s[j].do \in Marks /\ \A m \in i..(j - 1) : s[m].do \notin Marks \cup Control
    <2>1. CASE i \in 1..a
      <3>1. a \in (i + 1)..Len(s) /\ s[a].do \in Marks /\ \A m \in i..(a - 1) : s[m].do \notin Marks \cup Control
        BY <1>1, <1>2, <1>3, <2>1 DEF Block
      <3> QED BY <3>1
    <2>2. CASE i - a \in 1..b /\ s[i] = r[i - a]
      <3>1. PICK j \in (i - a + 1)..b :
              r[j].do \in Marks /\ \A m \in (i - a)..(j - 1) : r[m].do \notin Marks \cup Control
        BY <1>3, <2>2, Zenon DEF Sound
      <3>2. j + a \in (i + 1)..Len(s) /\ s[j + a] = r[j]
        BY <1>1, <1>2, <2>2, <3>1
      <3>3. ASSUME NEW m \in i..(j + a - 1) PROVE s[m].do \notin Marks \cup Control
        <4>1. m - a \in (i - a)..(j - 1) /\ m - a \in 1..b /\ s[m] = r[m - a]
          BY <1>1, <1>2, <2>2, <3>1, <3>2
        <4> QED BY <3>1, <4>1
      <3> QED BY <3>1, <3>2, <3>3
    <2> QED BY <1>2, <2>1, <2>2
  <1>4. ASSUME NEW i \in 1..Len(s), s[i].do \in Checks, NEW k \in DOMAIN A PROVE Sought(s, i, A[k])
    <2>1. i - a \in 1..b /\ s[i] = r[i - a]
      BY <1>2, <1>4 DEF Block, Control
    <2>2. Sought(r, i - a, A[k])
      BY <1>4, <2>1 DEF Sound
    <2>3. PICK j \in 1..(i - a - 1) : r[j] \in A[k] /\ \A m \in j..(i - a - 1) : r[m].do = "see"
      BY <2>2 DEF Sought
    <2>4. j + a \in 1..(i - 1) /\ s[j + a] = r[j]
      BY <1>1, <1>2, <2>1, <2>3
    <2>5. ASSUME NEW m \in (j + a)..(i - 1) PROVE s[m].do = "see"
      <3>1. m - a \in j..(i - a - 1) /\ m - a \in 1..b /\ s[m] = r[m - a]
        BY <1>1, <1>2, <2>1, <2>3, <2>4
      <3> QED BY <2>3, <3>1
    <2> QED BY <2>3, <2>4, <2>5 DEF Sought
  <1>5. ASSUME NEW i \in 1..Len(s), s[i].do \in Starts PROVE i < Len(s) /\ s[i + 1].do = "it"
    <2>1. i - a \in 1..b /\ s[i] = r[i - a]
      BY <1>2, <1>5 DEF Block, Control
    <2>2. i - a < b /\ r[i - a + 1].do = "it"
      BY <1>5, <2>1 DEF Sound
    <2> QED BY <1>1, <1>2, <2>1, <2>2
  <1>6. ASSUME NEW i \in 1..Len(s), s[i].do = "it"
        PROVE  (i > 1 => s[i - 1].do \in Starts) /\ i < Len(s) /\ s[i + 1].do = "after"
    <2>1. i - a \in 1..b /\ s[i] = r[i - a]
      BY <1>2, <1>6 DEF Block, Control
    <2>2. r # << >> /\ i - a # 1
      BY <1>6, <2>1, EmptySeq DEF Quiet
    <2>3. r[i - a - 1].do \in Starts /\ i - a < b /\ r[i - a + 1].do = "after"
      <3>1. i - a > 1 /\ r[i - a].do = "it"
        BY <1>6, <2>1, <2>2
      <3> QED BY <2>1, <3>1 DEF Sound
    <2>4. /\ i - a - 1 \in 1..b /\ (i - a - 1) + a = i - 1
          /\ i - a + 1 \in 1..b /\ (i - a + 1) + a = i + 1
      <3>1. i - a \in 1..b /\ i - a # 1 /\ i - a < b /\ a \in Nat /\ b \in Nat /\ i \in Int
        BY <1>1, <2>1, <2>2, <2>3
      <3> HIDE DEF a, b
      <3> QED BY <3>1
    <2>5. s[i - 1] = r[i - a - 1]
      <3>1. s[(i - a - 1) + a] = r[i - a - 1]
        BY <1>2, <2>4
      <3> QED BY <2>4, <3>1
    <2>6. s[i + 1] = r[i - a + 1]
      <3>1. s[(i - a + 1) + a] = r[i - a + 1]
        BY <1>2, <2>4
      <3> QED BY <2>4, <3>1
    <2>7. i < Len(s)
      BY <1>1, <2>4
    <2> QED BY <2>3, <2>5, <2>6, <2>7
  <1>7. ASSUME NEW i \in 1..Len(s), s[i].do = "see" PROVE ~s[i].must
    <2>1. CASE i \in 1..a
      BY <1>2, <1>7, <2>1 DEF Block
    <2>2. CASE i - a \in 1..b /\ s[i] = r[i - a]
      BY <1>7, <2>2 DEF Sound
    <2> QED BY <1>2, <2>1, <2>2
  <1>8. Sound(s, {}, A)
    BY <1>1, <1>3, <1>4, <1>5, <1>6, <1>7 DEF Sound
  <1>9. Quiet(s)
    BY <1>1, <1>2 DEF Quiet, Block, Control
  <1> QED BY <1>1, <1>8, <1>9 DEF s

-----------------------------------------------------------------------------
(* The programs of the harness                                             *)

\* The steps of resourceCheck that cannot miss a kind.
Aim ==
  [k \in Detected |->
     {Try("see", k)} \cup
     IF k = "usage" /\ ~cfg.callsFail THEN {Try("see", "usage-now")} ELSE {}]

LEMMA TryStep ==
  ASSUME NEW do \in Dos, NEW arg \in Args
  PROVE  /\ Try(do, arg) \in Step /\ Try(do, arg).do = do /\ Try(do, arg).arg = arg /\ ~Try(do, arg).must
         /\ Must(do, arg) \in Step /\ Must(do, arg).do = do /\ Must(do, arg).must
  BY DEF Try, Must, Step

IsConcat(s, u, v) ==
  /\ s \in Seq(Step) /\ Len(u) \in Nat /\ Len(v) \in Nat /\ Len(s) = Len(u) + Len(v)
  /\ \A i \in 1..Len(u) : s[i] = u[i] /\ i \in 1..Len(s)
  /\ \A i \in 1..Len(v) : s[i + Len(u)] = v[i] /\ i + Len(u) \in 1..Len(s)
  /\ \A i \in 1..Len(s) :
       i \in 1..Len(u) \/ (i - Len(u) \in 1..Len(v) /\ s[i] = v[i - Len(u)] /\ i > Len(u))

LEMMA Concat ==
  ASSUME NEW u \in Seq(Step), NEW v \in Seq(Step)
  PROVE  IsConcat(u \o v, u, v)
  <1>1. Len(u) \in Nat /\ Len(v) \in Nat
    BY LenProperties
  <1>2. /\ u \o v \in Seq(Step) /\ Len(u \o v) = Len(u) + Len(v)
        /\ \A i \in 1..(Len(u) + Len(v)) : (u \o v)[i] = IF i <= Len(u) THEN u[i] ELSE v[i - Len(u)]
    BY ConcatProperties
  <1> QED BY <1>1, <1>2 DEF IsConcat

\* resourceCheck is made of looks, and looks for everything that is detected.
LEMMA CheckLooks ==
  ASSUME NEW wait \in BOOLEAN
  PROVE  /\ resourceCheck(wait) \in Seq(Step) /\ Len(resourceCheck(wait)) > 0
         /\ \A i \in 1..Len(resourceCheck(wait)) :
              resourceCheck(wait)[i].do = "see" /\ ~resourceCheck(wait)[i].must
         /\ \A k \in Detected : \E j \in 1..Len(resourceCheck(wait)) : resourceCheck(wait)[j] \in Aim[k]
  <1> DEFINE look(k) == Try("see", k)
             a == <<look("health"), look("pods"), look("pvcs"), look("pvs"), look("msvs"), look("scs"),
                    look("pools"), look(IF wait THEN "usage" ELSE "usage-now")>>
             b == IF cfg.grpc THEN <<look("usage"), look("replicas")>> ELSE << >>
  <1>1. \A k \in Args : look(k) \in Step /\ look(k).do = "see" /\ ~look(k).must
    BY TryStep, Zenon DEF Dos
  <1>2. {"health", "pods", "pvcs", "pvs", "msvs", "scs", "pools", "usage", "usage-now", "replicas"} \subseteq Args
    BY DEF Args, Kinds
  <1>3. resourceCheck(wait) = a \o b
    BY DEF resourceCheck
  <1>4. \A k \in Detected : look(k) \in Aim[k] /\ (k = "usage" /\ ~cfg.callsFail => look("usage-now") \in Aim[k])
    BY DEF Aim
  <1> HIDE DEF look
  <1>5. /\ a \in Seq(Step) /\ Len(a) = 8 /\ \A i \in 1..8 : a[i].do = "see" /\ ~a[i].must
        /\ a[2] = look("pods") /\ a[5] = look("msvs") /\ a[6] = look("scs")
        /\ a[8] = look("usage") \/ a[8] = look("usage-now")
    BY <1>1, <1>2
  <1>6. /\ b \in Seq(Step) /\ Len(b) \in Nat /\ \A i \in 1..Len(b) : b[i].do = "see" /\ ~b[i].must
        /\ cfg.grpc => Len(b) = 2 /\ b[1] = look("usage") /\ b[2] = look("replicas")
    <2>1. CASE cfg.grpc
      BY <1>1, <1>2, <2>1
    <2>2. CASE ~cfg.grpc
      BY <2>2
    <2> QED BY <2>1, <2>2
  <1> HIDE DEF a, b
  <1> DEFINE c == a \o b
             n == Len(b)
  <1>12. c = a \o b /\ n = Len(b) /\ 8 = Len(a)
    BY <1>5
  <1> HIDE DEF c, n
  <1>7. /\ c \in Seq(Step) /\ Len(c) = 8 + n
        /\ \A i \in 1..8 : c[i] = a[i] /\ i \in 1..Len(c)
        /\ \A i \in 1..n : c[i + 8] = b[i] /\ i + 8 \in 1..Len(c)
        /\ \A i \in 1..Len(c) : i \in 1..8 \/ (i - 8 \in 1..n /\ c[i] = b[i - 8] /\ i > 8)
    <2>1. IsConcat(c, a, b)
      BY <1>5, <1>6, <1>12, Concat
    <2> QED BY <1>12, <2>1, Zenon DEF IsConcat
  <1>10. cfg.grpc => c[9] = b[1] /\ c[10] = b[2] /\ 9 \in 1..Len(c) /\ 10 \in 1..Len(c)
    <2>1. cfg.grpc => 1 \in 1..n /\ 2 \in 1..n /\ 1 + 8 = 9 /\ 2 + 8 = 10
      BY <1>6 DEF n
    <2>2. cfg.grpc => c[1 + 8] = b[1] /\ c[2 + 8] = b[2] /\ 1 + 8 \in 1..Len(c) /\ 2 + 8 \in 1..Len(c)
      BY <1>7, <2>1
    <2> QED BY <2>1, <2>2
  <1>8. \A i \in 1..Len(c) : c[i].do = "see" /\ ~c[i].must
    BY <1>5, <1>6, <1>7, Zenon DEF n
  <1>9. ASSUME NEW k \in Detected PROVE \E j \in 1..Len(c) : c[j] \in Aim[k]
    <2>1. CASE k = "pods"
      BY <1>4, <1>5, <1>7, <2>1
    <2>2. CASE k = "msvs"
      BY <1>4, <1>5, <1>7, <2>2
    <2>3. CASE k = "scs"
      BY <1>4, <1>5, <1>7, <2>3
    <2>4. CASE cfg.grpc /\ k = "usage"
      BY <1>4, <1>6, <1>10, <2>4
    <2>5. CASE cfg.grpc /\ k = "replicas"
      BY <1>4, <1>6, <1>10, <2>5
    <2>6. CASE ~cfg.callsFail /\ k = "usage"
      BY <1>4, <1>5, <1>7, <2>6
    <2>7. k \in {"pods", "msvs", "scs"} \/ (cfg.grpc /\ k \in {"usage", "replicas"}) \/ (~cfg.callsFail /\ k = "usage")
      BY DEF Detected
    <2> QED BY <2>1, <2>2, <2>3, <2>4, <2>5, <2>6, <2>7
  <1>11. Len(c) > 0
    BY <1>6, <1>7 DEF n
  <1> QED BY <1>3, <1>7, <1>8, <1>9, <1>11, Zenon DEF c

LEMMA CheckPlain ==
  ASSUME NEW wait \in BOOLEAN
  PROVE  Plain(resourceCheck(wait))
  <1>1. "see" \notin Control \cup Marks
    BY DEF Control, Marks, Checks, Starts, Closers
  <1> QED BY <1>1, CheckLooks DEF Plain

\* A check and what uses its result, put before a case or after it.
LEMMA CheckSound ==
  ASSUME NEW wait \in BOOLEAN, NEW c \in Checks, NEW r, Sound(r, {}, Aim),
         IF c \in Starts THEN r # << >> /\ r[1].do = "it" ELSE Quiet(r)
  PROVE  LET s == resourceCheck(wait) \o <<Try(c, "")>> \o r
         IN  Sound(s, {}, Aim) /\ Quiet(s) /\ (c = "rechecked" => \E i \in 1..Len(s) : s[i].do = "rechecked")
  <1> DEFINE u == resourceCheck(wait)
             e == <<Try(c, "")>>
             a == Len(u)
             b == Len(r)
             v == u \o e
             s == v \o r
  <1>1. /\ u \in Seq(Step) /\ a \in Nat /\ a > 0
        /\ \A i \in 1..a : u[i].do = "see" /\ ~u[i].must
        /\ \A k \in Detected : \E j \in 1..a : u[j] \in Aim[k]
    BY CheckLooks, LenProperties
  <1>2. e \in Seq(Step) /\ Len(e) = 1 /\ e[1].do = c /\ ~e[1].must
    <2>1. c \in Dos /\ "" \in Args
      BY DEF Dos, Control, Args
    <2>2. Try(c, "") \in Step /\ Try(c, "").do = c /\ ~Try(c, "").must
      BY <2>1, TryStep, Zenon
    <2> QED BY <2>2, OneStep, Zenon
  <1>3. r \in Seq(Step) /\ b \in Nat
    BY LenProperties DEF Sound
  <1> HIDE DEF u, e
  <1> USE DEF v
  <1>0. v = u \o e /\ a = Len(u) /\ 1 = Len(e)
    BY <1>2
  <1> HIDE DEF v, a
  <1>4. /\ v \in Seq(Step) /\ Len(v) = a + 1
        /\ \A i \in 1..a : v[i] = u[i]
        /\ v[a + 1] = e[1]
    <2>1. /\ v \in Seq(Step) /\ Len(v) = a + 1
          /\ \A i \in 1..a : v[i] = u[i]
          /\ \A i \in 1..1 : v[i + a] = e[i]
      <3>1. IsConcat(v, u, e)
        BY <1>0, <1>1, <1>2, Concat
      <3> QED BY <1>0, <3>1, Zenon DEF IsConcat
    <2>2. 1 + a = a + 1 /\ v[1 + a] = e[1]
      BY <1>1, <2>1
    <2> QED BY <2>1, <2>2
  <1>5. /\ s \in Seq(Step) /\ Len(s) = a + 1 + b
        /\ \A i \in 1..(a + 1) : s[i] = v[i] /\ i \in 1..Len(s)
        /\ \A i \in 1..b : s[i + (a + 1)] = r[i] /\ i + (a + 1) \in 1..Len(s)
        /\ \A i \in 1..Len(s) :
             i \in 1..(a + 1) \/ (i - (a + 1) \in 1..b /\ s[i] = r[i - (a + 1)] /\ i > a + 1)
    <2>1. IsConcat(s, v, r)
      BY <1>3, <1>4, Concat
    <2> HIDE DEF s
    <2> QED BY <1>4, <2>1 DEF IsConcat
  <1> HIDE DEF s
  <1>6. /\ \A i \in 1..a : s[i] = u[i] /\ i \in 1..Len(s) /\ i \in 1..(a + 1)
        /\ s[a + 1] = e[1] /\ a + 1 \in 1..Len(s)
        /\ \A i \in 1..Len(s) : i \in 1..a \/ i = a + 1 \/ (i - (a + 1) \in 1..b /\ s[i] = r[i - (a + 1)] /\ i > a + 1)
    <2>1. \A i \in 1..(a + 1) : i \in 1..a \/ i = a + 1
      BY <1>1
    <2>2. a + 1 \in 1..(a + 1) /\ \A i \in 1..a : i \in 1..(a + 1)
      BY <1>1
    <2> QED BY <1>4, <1>5, <2>1, <2>2
  <1>7. c \notin Marks /\ c # "it" /\ c # "see" /\ "see" \notin Checks \cup Starts
    BY DEF Checks, Marks, Starts
  <1> DEFINE d == a + 1
  <1>8. d \in Nat /\ d > 1
    BY <1>1
  <1>9. /\ \A i \in 1..b : s[i + d] = r[i] /\ i + d \in 1..Len(s)
        /\ Len(s) = d + b
        /\ \A i \in 1..Len(s) : i \in 1..a \/ i = d \/ (i - d \in 1..b /\ s[i] = r[i - d] /\ i > d)
    BY <1>5, <1>6
  <1>10. ASSUME NEW i \in 1..Len(s), s[i].must
        PROVE  \E j \in (i + 1)..Len(s) :
                 s[j].do \in Marks /\ \A m \in i..(j - 1) : s[m].do \notin Marks \cup Control
    <2>1. i - d \in 1..b /\ s[i] = r[i - d]
      BY <1>1, <1>2, <1>6, <1>9, <1>10
    <2> HIDE DEF d
    <2>2. PICK j \in (i - d + 1)..b :
            r[j].do \in Marks /\ \A m \in (i - d)..(j - 1) : r[m].do \notin Marks \cup Control
      BY <1>10, <2>1, Zenon DEF Sound
    <2>3. j \in 1..b /\ j + d \in (i + 1)..Len(s)
      BY <1>3, <1>8, <1>9, <2>1, <2>2
    <2> j + d \in (i + 1)..Len(s)
      BY <2>3
    <2>4. ASSUME NEW m \in i..((j + d) - 1) PROVE s[m].do \notin Marks \cup Control
      <3>1. m - d \in (i - d)..(j - 1) /\ m - d \in 1..b /\ (m - d) + d = m
        BY <1>3, <1>8, <2>1, <2>2, <2>3
      <3>2. s[(m - d) + d] = r[m - d]
        BY <1>9, <3>1
      <3> QED BY <2>2, <3>1, <3>2
    <2>5. s[j + d] = r[j]
      BY <1>9, <2>3
    <2>6. s[j + d].do \in Marks
      BY <2>2, <2>5
    <2> WITNESS j + d \in (i + 1)..Len(s)
    <2> QED BY <2>4, <2>6
  <1>11. ASSUME NEW i \in 1..Len(s), s[i].do \in Checks, NEW k \in DOMAIN Aim PROVE Sought(s, i, Aim[k])
    <2>0. k \in Detected
      BY DEF Aim
    <2>1. CASE i \in 1..a
      BY <1>1, <1>6, <1>7, <1>11, <2>1
    <2>2. CASE i = d
      <3>1. PICK j \in 1..a : u[j] \in Aim[k]
        BY <1>1, <2>0
      <3>2. j \in 1..(i - 1) /\ s[j] = u[j] /\ \A m \in j..(i - 1) : m \in 1..a
        BY <1>1, <1>6, <2>2
      <3>3. \A m \in j..(i - 1) : s[m].do = "see"
        BY <1>1, <1>6, <3>2, Zenon
      <3> QED BY <3>1, <3>2, <3>3 DEF Sought
    <2>3. CASE i - d \in 1..b /\ s[i] = r[i - d]
      <3> HIDE DEF d
      <3>1. Sought(r, i - d, Aim[k])
        BY <1>11, <2>3 DEF Sound
      <3>2. PICK j \in 1..(i - d - 1) : r[j] \in Aim[k] /\ \A m \in j..(i - d - 1) : r[m].do = "see"
        BY <3>1 DEF Sought
      <3>3. j + d \in 1..(i - 1) /\ j \in 1..b
        BY <1>3, <1>8, <2>3, <3>2
      <3>4. ASSUME NEW m \in (j + d)..(i - 1) PROVE s[m].do = "see"
        <4>1. m - d \in j..(i - d - 1) /\ m - d \in 1..b /\ (m - d) + d = m
          BY <1>3, <1>8, <2>3, <3>2, <3>3
        <4>2. s[(m - d) + d] = r[m - d]
          BY <1>9, <4>1
        <4> QED BY <3>2, <4>1, <4>2
      <3> QED BY <1>9, <3>2, <3>3, <3>4 DEF Sought
    <2> QED BY <1>9, <2>1, <2>2, <2>3
  <1>12. ASSUME NEW i \in 1..Len(s), s[i].do \in Starts PROVE i < Len(s) /\ s[i + 1].do = "it"
    <2>1. CASE i \in 1..a
      BY <1>1, <1>6, <1>7, <1>12, <2>1
    <2>2. CASE i = d
      <3>1. c \in Starts
        BY <1>2, <1>6, <1>12, <2>2
      <3>2. b > 0 /\ r[1].do = "it"
        BY <1>3, <3>1, EmptySeq, LenProperties
      <3>3. 1 \in 1..b /\ 1 + d = i + 1
        BY <1>3, <1>8, <2>2, <3>2
      <3>4. s[1 + d] = r[1] /\ 1 + d \in 1..Len(s)
        BY <1>9, <3>3
      <3> QED BY <1>3, <1>8, <1>9, <2>2, <3>2, <3>3, <3>4
    <2>3. CASE i - d \in 1..b /\ s[i] = r[i - d]
      <3> HIDE DEF d
      <3>1. i - d < b /\ r[(i - d) + 1].do = "it"
        BY <1>12, <2>3 DEF Sound
      <3>2. (i - d) + 1 \in 1..b /\ ((i - d) + 1) + d = i + 1
        BY <1>3, <1>8, <2>3, <3>1
      <3>3. s[((i - d) + 1) + d] = r[(i - d) + 1] /\ ((i - d) + 1) + d \in 1..Len(s)
        BY <1>9, <3>2
      <3>4. i < Len(s)
        BY <1>3, <1>8, <1>9, <2>3, <3>1
      <3> QED BY <3>1, <3>2, <3>3, <3>4
    <2> QED BY <1>9, <2>1, <2>2, <2>3
  <1>13. ASSUME NEW i \in 1..Len(s), s[i].do = "it"
         PROVE  (i > 1 => s[i - 1].do \in Starts) /\ i < Len(s) /\ s[i + 1].do = "after"
    <2>1. i - d \in 1..b /\ s[i] = r[i - d]
      BY <1>1, <1>2, <1>6, <1>7, <1>9, <1>13
    <2>2. s[d].do = c
      BY <1>2, <1>6
    <2> HIDE DEF d
    <2>3. (i - d > 1 => r[(i - d) - 1].do \in Starts) /\ i - d < b /\ r[(i - d) + 1].do = "after"
      BY <1>13, <2>1 DEF Sound
    <2>4. (i - d) + 1 \in 1..b /\ ((i - d) + 1) + d = i + 1 /\ i < Len(s)
      BY <1>3, <1>8, <1>9, <2>1, <2>3
    <2>5. s[((i - d) + 1) + d] = r[(i - d) + 1]
      BY <1>9, <2>4
    <2>6. s[i - 1].do \in Starts
      <3>1. CASE i - d = 1
        <4>1. c \in Starts
          BY <1>3, <1>13, <2>1, <3>1, EmptySeq, LenProperties DEF Quiet
        <4>2. i - 1 = d
          BY <1>8, <3>1
        <4> QED BY <2>2, <4>1, <4>2
      <3>2. CASE i - d > 1
        <4>1. (i - d) - 1 \in 1..b /\ ((i - d) - 1) + d = i - 1
          BY <1>3, <1>8, <2>1, <3>2
        <4>2. s[((i - d) - 1) + d] = r[(i - d) - 1]
          BY <1>9, <4>1
        <4> QED BY <2>3, <3>2, <4>1, <4>2
      <3> QED BY <1>8, <2>1, <3>1, <3>2
    <2> QED BY <2>3, <2>4, <2>5, <2>6
  <1>14. ASSUME NEW i \in 1..Len(s), s[i].do = "see" PROVE ~s[i].must
    <2>1. CASE i \in 1..a
      BY <1>1, <1>6, <2>1
    <2>2. CASE i = d
      BY <1>2, <1>6, <2>2
    <2>3. CASE i - d \in 1..b /\ s[i] = r[i - d]
      BY <1>14, <2>3 DEF Sound
    <2> QED BY <1>9, <2>1, <2>2, <2>3
  <1>15. Sound(s, {}, Aim)
    BY <1>5, <1>10, <1>11, <1>12, <1>13, <1>14 DEF Sound
  <1>16. s[1].do = "see" /\ s[d].do = c /\ d \in 1..Len(s)
    BY <1>1, <1>2, <1>6
  <1>17. Quiet(s)
    BY <1>16 DEF Quiet
  <1> QED BY <1>15, <1>16, <1>17, Zenon DEF s, v, u, e, a

LEMMA BlockSound ==
  ASSUME NEW u, NEW A, Block(u)
  PROVE  Sound(u, {}, A) /\ Quiet(u)
  <1>1. Sound(<< >>, {}, A) /\ Quiet(<< >>)
    BY EmptySound DEF Quiet
  <1>2. u \o << >> = u
    BY ConcatEmptySeq DEF Block
  <1> QED BY <1>1, <1>2, CallSound, Zenon

PlainStep(e) == e \in Step /\ e.do \notin Control \cup Marks /\ (e.do = "see" => ~e.must)

LEMMA PlainSteps ==
  ASSUME NEW do \in Dos \ (Control \cup Marks), NEW arg \in Args
  PROVE  PlainStep(Try(do, arg)) /\ (do # "see" => PlainStep(Must(do, arg)))
  BY TryStep DEF PlainStep

LEMMA PlainTuples ==
  /\ Plain(<< >>)
  /\ \A e : PlainStep(e) => Plain(<<e>>)
  /\ \A e, f : PlainStep(e) /\ PlainStep(f) => Plain(<<e, f>>)
  /\ \A e, f, g : PlainStep(e) /\ PlainStep(f) /\ PlainStep(g) => Plain(<<e, f, g>>)
  /\ \A e, f, g, h : PlainStep(e) /\ PlainStep(f) /\ PlainStep(g) /\ PlainStep(h) => Plain(<<e, f, g, h>>)
  <1>1. Plain(<< >>)
    BY EmptySeq DEF Plain
  <1>2. ASSUME NEW e, PlainStep(e) PROVE Plain(<<e>>)
    BY <1>2, OneStep DEF Plain, PlainStep
  <1>3. ASSUME NEW e, NEW f, PlainStep(e), PlainStep(f) PROVE Plain(<<e, f>>)
    BY <1>3 DEF Plain, PlainStep
  <1>4. ASSUME NEW e, NEW f, NEW g, PlainStep(e), PlainStep(f), PlainStep(g) PROVE Plain(<<e, f, g>>)
    BY <1>4 DEF Plain, PlainStep
  <1>5. ASSUME NEW e, NEW f, NEW g, NEW h, PlainStep(e), PlainStep(f), PlainStep(g), PlainStep(h)
        PROVE  Plain(<<e, f, g, h>>)
    BY <1>5 DEF Plain, PlainStep
  <1> QED BY <1>1, <1>2, <1>3, <1>4, <1>5

\* The names of steps and arguments, for the lemmas below.
LEMMA Names ==
  /\ {"see", "none", "healthy", "delete", "call", "rmReplicas", "listPods", "deletePods", "awaitPods",
      "ready", "rmPools", "destroyPools", "mkPools", "online", "controlPlane", "install", "teardown",
      "forget"} \subseteq Dos \ (Control \cup Marks)
  /\ Kinds \cup {"", "namespaces", "EnsureNodeLabels", "DeleteAllPoolFinalizers", "ignore", "report"} \subseteq Args
  BY Zenon DEF Dos, Control, Marks, Checks, Starts, Closers, Args

LEMMA CleanUpPlain == Plain(CleanUp)
  <1> DEFINE a == <<Try("delete", "deployments"), Try("delete", "pods"), Try("delete", "pvcs"),
                    Try("delete", "pvs"), Try("delete", "scs"), Try("delete", "namespaces"),
                    Try("call", "EnsureNodeLabels")>>
             b == IF cfg.grpc THEN <<Try("rmReplicas", "ignore")>> ELSE << >>
  <1>1. /\ PlainStep(Try("delete", "deployments")) /\ PlainStep(Try("delete", "pods"))
        /\ PlainStep(Try("delete", "pvcs")) /\ PlainStep(Try("delete", "pvs"))
        /\ PlainStep(Try("delete", "scs")) /\ PlainStep(Try("delete", "namespaces"))
        /\ PlainStep(Try("call", "EnsureNodeLabels")) /\ PlainStep(Try("rmReplicas", "ignore"))
    BY Names, PlainSteps, Zenon DEF Kinds
  <1>2. Plain(a)
    BY <1>1 DEF Plain, PlainStep
  <1>3. Plain(b)
    BY <1>1, PlainTuples
  <1>4. CleanUp = a \o b
    BY DEF CleanUp
  <1> HIDE DEF a, b
  <1> QED BY <1>2, <1>3, <1>4, PlainConcat

LEMMA RestartBlock == Block(RestartMayastor)
  <1> DEFINE a == <<Try("forget", ""), Try("rmPools", "ignore")>>
             b == IF cfg.poolDevice THEN <<Try("rmPools", "ignore"), Must("mkPools", "")>> ELSE << >>
             c == IF cfg.grpc THEN <<Must("rmReplicas", "report")>> ELSE << >>
             ready == <<Must("ready", "")>>
             online == <<Must("online", "")>>
             healthy == <<Must("healthy", "")>>
  <1>1. /\ PlainStep(Try("forget", "")) /\ PlainStep(Try("rmPools", "ignore")) /\ PlainStep(Must("mkPools", ""))
        /\ PlainStep(Must("rmReplicas", "report")) /\ PlainStep(Must("ready", "")) /\ PlainStep(Must("online", ""))
        /\ PlainStep(Must("healthy", "")) /\ PlainStep(Must("listPods", "")) /\ PlainStep(Must("deletePods", ""))
        /\ PlainStep(Must("awaitPods", ""))
    BY Names, PlainSteps, Zenon
  <1>2. Plain(a) /\ Plain(b) /\ Plain(c) /\ Plain(ready) /\ Plain(online) /\ Plain(healthy) /\ Plain(RestartMayastorPods)
    BY <1>1, PlainTuples, Zenon DEF RestartMayastorPods
  <1>3. restartMayastor = CleanUp \o a \o RestartMayastorPods \o ready \o b \o online \o c
    BY DEF restartMayastor
  <1>4. RestartMayastor = restartMayastor \o healthy \o resourceCheck(TRUE) \o <<Try("again", "")>>
    BY DEF RestartMayastor
  <1> HIDE DEF a, b, c, ready, online, healthy
  <1>5. Plain(CleanUp \o a \o RestartMayastorPods \o ready)
    BY <1>2, CleanUpPlain, PlainConcat
  <1>6. Plain(restartMayastor)
    BY <1>2, <1>3, <1>5, PlainConcat
  <1>7. Plain(restartMayastor \o healthy \o resourceCheck(TRUE))
    BY <1>2, <1>6, CheckPlain, PlainConcat, Zenon
  <1>8. "again" \in Marks
    BY DEF Marks
  <1> QED BY <1>4, <1>7, <1>8, PlainBlock, Zenon

MarkStep(z) == z \in Step /\ z.do \in Marks /\ ~z.must

LEMMA MarkSteps == \A m \in Marks : MarkStep(Try(m, ""))
  <1>1. Marks \subseteq Dos /\ "" \in Args
    BY DEF Dos, Args
  <1>2. ASSUME NEW m \in Marks PROVE MarkStep(Try(m, ""))
    <2>1. Try(m, "") \in Step /\ Try(m, "").do = m /\ ~Try(m, "").must
      BY <1>1, TryStep, Zenon
    <2> QED BY <2>1, Zenon DEF MarkStep
  <1> QED BY <1>2, Zenon

LEMMA BlockTuples ==
  /\ \A a, z : PlainStep(a) /\ MarkStep(z) => Block(<<a, z>>)
  /\ \A a, b, c, d, e, z :
       PlainStep(a) /\ PlainStep(b) /\ PlainStep(c) /\ PlainStep(d) /\ PlainStep(e) /\ MarkStep(z)
       => Block(<<a, b, c, d, e, z>>)
  <1>0. \A m \in Marks : m \notin Control /\ m # "see"
    BY DEF Marks, Control, Checks, Starts, Closers
  <1>1. ASSUME NEW a, NEW z, PlainStep(a), MarkStep(z) PROVE Block(<<a, z>>)
    <2> DEFINE s == <<a, z>>
    <2>1. a \in Step /\ z \in Step
      BY <1>1 DEF PlainStep, MarkStep
    <2>2. s \in Seq(Step) /\ Len(s) = 2 /\ s[1] = a /\ s[2] = z
      BY <2>1
    <2> HIDE DEF s
    <2>3. \A i \in 1..2 : i = 2 \/ (i = 1 /\ i < 2)
      OBVIOUS
    <2>4. Block(s)
      BY <1>0, <1>1, <2>2, <2>3 DEF Block, PlainStep, MarkStep
    <2> QED BY <2>4 DEF s
  <1>2. ASSUME NEW a, NEW b, NEW c, NEW d, NEW e, NEW z, PlainStep(a), PlainStep(b), PlainStep(c),
               PlainStep(d), PlainStep(e), MarkStep(z)
        PROVE  Block(<<a, b, c, d, e, z>>)
    <2> DEFINE s == <<a, b, c, d, e, z>>
    <2>1. a \in Step /\ b \in Step /\ c \in Step /\ d \in Step /\ e \in Step /\ z \in Step
      BY <1>2 DEF PlainStep, MarkStep
    <2>2. /\ s \in Seq(Step) /\ Len(s) = 6 /\ s[1] = a /\ s[2] = b /\ s[3] = c /\ s[4] = d
          /\ s[5] = e /\ s[6] = z
      BY <2>1
    <2> HIDE DEF s
    <2>3. \A i \in 1..6 : i = 6 \/ (i \in {1, 2, 3, 4, 5} /\ i < 6)
      OBVIOUS
    <2>4. \A i \in 1..6 : i = 6 \/ (PlainStep(s[i]) /\ i < 6)
      BY <1>2, <2>2, <2>3
    <2>5. Block(s)
      BY <1>0, <1>2, <2>2, <2>4 DEF Block, PlainStep, MarkStep
    <2> QED BY <2>5 DEF s
  <1> QED BY <1>1, <1>2

LEMMA RestoreBlock == Block(RestoreConfiguredPools)
  <1>1. /\ PlainStep(Must("call", "DeleteAllPoolFinalizers")) /\ PlainStep(Must("rmPools", "report"))
        /\ PlainStep(Must("destroyPools", "")) /\ PlainStep(Must("mkPools", "")) /\ PlainStep(Must("online", ""))
    BY Names, PlainSteps, Zenon
  <1>2. MarkStep(Try("restored", ""))
    BY MarkSteps, Zenon DEF Marks
  <1> QED BY <1>1, <1>2, BlockTuples, Zenon DEF RestoreConfiguredPools

LEMMA TeardownPlain == Plain(TeardownMayastor)
  <1> DEFINE a == <<Must("controlPlane", "")>>
             forget == <<Try("forget", "")>>
             none == <<Must("none", "pods"), Must("none", "pvcs"), Must("none", "pvs"), Must("online", "")>>
             b == IF cfg.cleanup THEN CleanUp \o forget ELSE none
             c == <<Must("rmPools", "report"), Must("teardown", "")>>
  <1>1. /\ PlainStep(Must("controlPlane", "")) /\ PlainStep(Try("forget", "")) /\ PlainStep(Must("none", "pods"))
        /\ PlainStep(Must("none", "pvcs")) /\ PlainStep(Must("none", "pvs")) /\ PlainStep(Must("online", ""))
        /\ PlainStep(Must("rmPools", "report")) /\ PlainStep(Must("teardown", ""))
    BY Names, PlainSteps, Zenon DEF Kinds
  <1>2. Plain(a) /\ Plain(c) /\ Plain(forget) /\ Plain(none)
    BY <1>1, PlainTuples, Zenon
  <1>4. TeardownMayastor = a \o b \o c
    BY DEF TeardownMayastor
  <1> HIDE DEF a, c, forget, none
  <1>5. Plain(b)
    BY <1>2, CleanUpPlain, PlainConcat
  <1> HIDE DEF b
  <1> QED BY <1>2, <1>4, <1>5, PlainConcat

\* The cases of a test directory.
LEMMA CasesSound ==
  ASSUME NEW n \in Nat
  PROVE  Sound(Program("directory", n), {}, Aim) /\ Quiet(Program("directory", n))
  <1> DEFINE s == [i \in 1..(3 * n) |-> Case[((i - 1) % 3) + 1]]
             N == 3 * n
             q(i) == (i - 1) % 3
  <1>1. Program("directory", n) = s
    BY DEF Program
  <1>2. N \in Nat
    OBVIOUS
  <1>3. \A i \in 1..N :
          /\ q(i) = 0 => s[i] = Try("before", "")
          /\ q(i) = 1 => s[i] = Try("it", "")
          /\ q(i) = 2 => s[i] = Try("after", "")
          /\ q(i) \in {0, 1, 2}
    <2>1. \A i \in 1..N : q(i) \in {0, 1, 2}
      BY <1>2
    <2>2. \A i \in 1..N : s[i] = Case[q(i) + 1]
      OBVIOUS
    <2>3. Case[0 + 1] = Try("before", "") /\ Case[1 + 1] = Try("it", "") /\ Case[2 + 1] = Try("after", "")
      BY DEF Case
    <2> HIDE DEF q, s, N
    <2> QED BY <2>1, <2>2, <2>3, Zenon
  <1>4. \A d \in {"before", "it", "after"} : Try(d, "") \in Step /\ Try(d, "").do = d /\ ~Try(d, "").must
    <2>1. "" \in Args /\ {"before", "it", "after"} \subseteq Dos
      BY DEF Args, Dos, Control, Starts, Closers
    <2> QED BY <2>1, TryStep, Zenon
  <1>5. \A i \in 1..N : s[i] \in Step /\ s[i].do \in {"before", "it", "after"} /\ ~s[i].must
    BY <1>3, <1>4, Zenon
  <1>6. s \in Seq(Step) /\ Len(s) = N
    <2>1. s \in [1..N -> Step]
      BY <1>5
    <2> QED BY <1>2, <2>1
  <1>7. ASSUME NEW i \in 1..N, q(i) = 0 PROVE i + 1 \in 1..N /\ q(i + 1) = 1
    BY <1>7
  <1>8. ASSUME NEW i \in 1..N, q(i) = 1 PROVE i > 1 /\ i - 1 \in 1..N /\ q(i - 1) = 0 /\ i + 1 \in 1..N /\ q(i + 1) = 2
    BY <1>8
  <1>9. \A i \in 1..N : (s[i].do = "before" => q(i) = 0) /\ (s[i].do = "it" => q(i) = 1)
    BY <1>3, <1>4, Zenon
  <1> HIDE DEF s, N, q
  <1>10. ASSUME NEW i \in 1..N, s[i].do \in Starts PROVE i < N /\ s[i + 1].do = "it"
    <2>1. q(i) = 0
      BY <1>5, <1>9, <1>10 DEF Starts
    <2>2. i + 1 \in 1..N /\ q(i + 1) = 1
      BY <1>7, <2>1
    <2>3. s[i + 1].do = "it"
      BY <1>3, <1>4, <2>2, Zenon
    <2> QED BY <1>2, <2>2, <2>3
  <1>11. ASSUME NEW i \in 1..N, s[i].do = "it"
         PROVE  (i > 1 => s[i - 1].do \in Starts) /\ i < N /\ s[i + 1].do = "after"
    <2>1. q(i) = 1
      BY <1>9, <1>11
    <2>2. i - 1 \in 1..N /\ q(i - 1) = 0 /\ i + 1 \in 1..N /\ q(i + 1) = 2
      BY <1>8, <2>1
    <2>3. s[i - 1].do = "before" /\ s[i + 1].do = "after"
      BY <1>3, <1>4, <2>2, Zenon
    <2> QED BY <1>2, <2>2, <2>3 DEF Starts
  <1>12. Sound(s, {}, Aim)
    BY <1>5, <1>6, <1>10, <1>11 DEF Sound, Checks
  <1>13. Quiet(s)
    <2>1. s # << >> => 1 \in 1..N
      BY <1>2, <1>6, EmptySeq
    <2>2. 1 \in 1..N => q(1) = 0
      BY DEF q
    <2> QED BY <1>3, <1>4, <2>1, <2>2, Zenon DEF Quiet
  <1> QED BY <1>1, <1>12, <1>13

LEMMA ProgramSound ==
  ASSUME NEW name \in {"install", "uninstall", "cleanup", "restart", "directory"}, NEW n \in Nat
  PROVE  Sound(Program(name, n), {}, Aim) /\ Quiet(Program(name, n))
  <1> DEFINE e == <<Try("expect", "")>>
             r == IF cfg.poolDevice THEN RestoreConfiguredPools \o e ELSE << >>
  <1>0. "expect" \in Marks
    BY DEF Marks
  <1>1. Sound(e, {}, Aim) /\ Quiet(e)
    <2>1. Block(<< >> \o e)
      BY <1>0, PlainTuples, PlainBlock, Zenon
    <2>2. << >> \o e = e
      OBVIOUS
    <2> QED BY <2>1, <2>2, BlockSound, Zenon
  <1>2. Block(<<Must("install", ""), Try("expect", "")>>)
    BY <1>0, Names, PlainSteps, MarkSteps, BlockTuples, Zenon
  <1>3. /\ Program("install", n) = <<Must("install", ""), Try("expect", "")>>
        /\ Program("uninstall", n) = TeardownMayastor \o e
        /\ Program("cleanup", n) = (CleanUp \o e) \o r
        /\ Program("restart", n) = RestartMayastor \o e
    BY Zenon DEF Program
  <1>4. CASE name = "install"
    BY <1>2, <1>3, <1>4, BlockSound, Zenon
  <1>5. CASE name = "uninstall"
    BY <1>0, <1>3, <1>5, TeardownPlain, PlainBlock, BlockSound, Zenon
  <1>6. CASE name = "cleanup"
    <2>1. Block(CleanUp \o e)
      BY <1>0, CleanUpPlain, PlainBlock, Zenon
    <2> HIDE DEF e
    <2>2. Sound(r, {}, Aim) /\ Quiet(r)
      <3>1. Sound(RestoreConfiguredPools \o e, {}, Aim) /\ Quiet(RestoreConfiguredPools \o e)
        BY <1>1, RestoreBlock, CallSound
      <3>2. Sound(<< >>, {}, Aim) /\ Quiet(<< >>)
        BY EmptySound DEF Quiet
      <3> QED BY <3>1, <3>2
    <2> HIDE DEF r
    <2> QED BY <1>3, <1>6, <2>1, <2>2, CallSound, Zenon
  <1>7. CASE name = "restart"
    <2> HIDE DEF e
    <2> QED BY <1>1, <1>3, <1>7, RestartBlock, CallSound, Zenon
  <1>8. CASE name = "directory"
    BY <1>8, CasesSound
  <1> QED BY <1>4, <1>5, <1>6, <1>7, <1>8

-----------------------------------------------------------------------------
(* The invariant                                                           *)

Fields == {"name", "todo", "err", "resourceCheckError", "podCount", "tries", "caseFailed", "failed", "soured"}

Swept == left \cap Detected = {}
Settled == {k \in Detected : proc.err \/ k \notin left}
Pending(s) == \E i \in 1..Len(s) : s[i].do \in Closers

ProcInv ==
  proc # NoProc =>
    /\ DOMAIN proc = Fields
    /\ Sound(proc.todo, Settled, Aim)
    /\ proc.todo # << >> /\ proc.todo[1].do = "it" => Swept

\* While no test has failed the cluster is swept, or there is a case whose
\* AfterEachCheck is still to come or has failed.
DirtInv ==
  ~script.failed => Swept \/ (proc # NoProc /\ (proc.failed \/ Pending(proc.todo)))

Fixes == {<< >>, <<"restart">>, <<"cleanup", "uninstall", "install">>, <<"uninstall", "install">>, <<"install">>}

\* While no test has failed, all tests before the current one have passed, but for
\* the uninstall that is deferred.
ScriptInv ==
  /\ cfg \in Configs
  /\ DOMAIN script = {"at", "failed", "fix", "exit"}
  /\ script.at \in 1..(Len(Tests) + 1)
  /\ script.fix \in Fixes
  /\ script.fix # << >> => script.failed /\ script.at <= Len(Tests)
  /\ proc # NoProc => script.exit = "none"
  /\ proc # NoProc /\ Listed(script.at) => Tests[script.at] # "uninstall"
  /\ script.exit = "none" /\ ~script.failed => passed = (1..(script.at - 1)) \ Uninstalls
  /\ script.exit = "ok" => passed = 1..Len(Tests) /\ ~script.failed /\ proc = NoProc

SweepInv == ProcInv /\ DirtInv /\ ScriptInv

\* A step of a process, from what it makes of the steps to do.
LEMMA ProcMoves ==
  ASSUME SweepInv, proc # NoProc, UNCHANGED <<cfg, script, passed>>, DOMAIN proc' = Fields,
         Sound(proc'.todo, Settled', Aim),
         proc'.todo # << >> /\ proc'.todo[1].do = "it" => Swept',
         ~script.failed => Swept' \/ proc'.failed \/ Pending(proc'.todo)
  PROVE  SweepInv'
  <1>1. Aim' = Aim /\ Detected' = Detected
    BY DEF Aim, Detected
  <1>2. proc' # NoProc
    <2>1. "todo" \in DOMAIN proc'
      BY DEF Fields
    <2>2. "todo" \notin DOMAIN NoProc
      BY DEF NoProc
    <2> QED BY <2>1, <2>2
  <1>3. ProcInv'
    BY <1>1, <1>2 DEF ProcInv
  <1>4. DirtInv'
    BY <1>2 DEF DirtInv
  <1>5. ScriptInv'
    BY <1>2 DEF SweepInv, ScriptInv, Listed, Uninstalls, Tests
  <1> QED BY <1>3, <1>4, <1>5 DEF SweepInv

LEMMA Steps ==
  ASSUME SweepInv, Busy
  PROVE  /\ proc # NoProc /\ DOMAIN proc = Fields /\ proc.todo \in Seq(Step) /\ Len(proc.todo) \in Nat \ {0}
         /\ Sound(proc.todo, Settled, Aim)
         /\ Head(proc.todo) = proc.todo[1] /\ IsDrop(proc.todo, Tail(proc.todo), 1) /\ Rest = Tail(proc.todo)
  <1>1. proc # NoProc /\ DOMAIN proc = Fields /\ proc.todo # << >> /\ Sound(proc.todo, Settled, Aim)
    BY DEF SweepInv, ProcInv, Busy
  <1>2. proc.todo \in Seq(Step)
    BY <1>1 DEF Sound
  <1> QED BY <1>1, <1>2, TailDrops DEF Rest

\* Steps are dropped that have nothing to do with a case.
LEMMA Dropped ==
  ASSUME SweepInv, Busy, UNCHANGED <<cfg, script, passed>>, left' \subseteq left,
         DOMAIN proc' = Fields, proc'.failed = proc.failed,
         NEW n \in 1..Len(proc.todo), IsDrop(proc.todo, proc'.todo, n),
         \A m \in 1..n : proc.todo[m].do \notin Control,
         proc.todo[n].do # "see" \/ (n < Len(proc.todo) /\ proc.todo[n + 1].do \in Marks)
  PROVE  SweepInv'
  <1> DEFINE s == proc.todo
             t == proc'.todo
  <1>1. s \in Seq(Step) /\ Len(s) \in Nat /\ proc # NoProc /\ Sound(s, Settled, Aim)
    BY Steps
  <1>2. n \in Nat \ {0} /\ n <= Len(s)
    BY <1>1
  <1>3. Sound(t, {}, Aim)
    BY <1>1, <1>2, DropKeeps
  <1>4. Sound(t, Settled', Aim)
    BY <1>3, Weaker
  <1>5. t \in Seq(Step) /\ Len(t) \in Nat /\ Len(t) = Len(s) - n /\ \A i \in 1..Len(t) : t[i] = s[i + n]
    BY LenProperties DEF IsDrop
  <1>6. t # << >> => t[1].do # "it"
    <2> SUFFICES ASSUME t # << >>, t[1].do = "it" PROVE FALSE
      OBVIOUS
    <2>1. 1 \in 1..Len(t)
      BY <1>5, EmptySeq
    <2>2. s[1 + n].do = "it" /\ 1 + n \in 1..Len(s) /\ 1 + n > 1 /\ (1 + n) - 1 = n
      BY <1>1, <1>2, <1>5, <2>1
    <2>3. s[(1 + n) - 1].do \in Starts
      BY <1>1, <2>2 DEF Sound
    <2>4. s[n].do \notin Control
      BY <1>2
    <2> QED BY <2>2, <2>3, <2>4 DEF Control
  <1>7. Pending(s) => Pending(t)
    <2> SUFFICES ASSUME NEW i \in 1..Len(s), s[i].do \in Closers PROVE Pending(t)
      BY DEF Pending
    <2>1. ~(i \in 1..n)
      BY DEF Control
    <2>2. i - n \in 1..Len(t) /\ (i - n) + n = i
      BY <1>1, <1>2, <1>5, <2>1
    <2>3. t[i - n] = s[i]
      BY <1>5, <2>2
    <2> QED BY <2>2, <2>3 DEF Pending
  <1>8. Swept => Swept'
    BY DEF Swept, Detected
  <1>9. ~script.failed => Swept' \/ proc'.failed \/ Pending(t)
    BY <1>7, <1>8 DEF SweepInv, DirtInv
  <1> QED BY <1>1, <1>4, <1>6, <1>9, ProcMoves

\* Where the process goes on when a function gives up.
LEMMA HandlerDrops ==
  ASSUME SweepInv, Busy, proc.todo[1].must
  PROVE  \E n \in 1..Len(proc.todo) :
           /\ IsDrop(proc.todo, Handler, n) /\ n < Len(proc.todo) /\ proc.todo[n + 1].do \in Marks
           /\ \A m \in 1..n : proc.todo[m].do \notin Control
  <1> DEFINE s == proc.todo
             rest == Tail(s)
             P(i) == rest[i].do \in Marks /\ \A j \in 1..(i - 1): rest[j].do \notin Marks
             first == CHOOSE i \in DOMAIN rest : P(i)
  <1>1. s \in Seq(Step) /\ Len(s) \in Nat \ {0} /\ Sound(s, Settled, Aim)
    BY Steps
  <1>2. rest \in Seq(Step) /\ Len(rest) = Len(s) - 1 /\ \A i \in 1..Len(rest) : rest[i] = s[i + 1]
    BY Steps DEF IsDrop
  <1>3. DOMAIN rest = 1..Len(rest) /\ Len(rest) \in Nat
    BY <1>2, LenProperties
  <1>4. PICK j \in (1 + 1)..Len(s) : s[j].do \in Marks /\ \A m \in 1..(j - 1) : s[m].do \notin Marks \cup Control
    <2>1. 1 \in 1..Len(s)
      BY <1>1
    <2> QED BY <1>1, <2>1 DEF Sound
  <1>5. j - 1 \in DOMAIN rest /\ P(j - 1)
    <2>1. j - 1 \in 1..Len(rest) /\ (j - 1) + 1 = j
      BY <1>1, <1>2, <1>4
    <2>2. ASSUME NEW q \in 1..((j - 1) - 1) PROVE rest[q].do \notin Marks
      <3>1. q \in 1..Len(rest) /\ q + 1 \in 1..(j - 1)
        BY <1>1, <1>2, <1>4
      <3> QED BY <1>2, <1>4, <3>1
    <2> QED BY <1>2, <1>3, <1>4, <2>1, <2>2
  <1>6. first \in DOMAIN rest /\ P(first)
    <2> HIDE DEF P, rest
    <2> QED BY <1>5
  <1>7. Handler = SubSeq(rest, first, Len(rest))
    BY DEF Handler
  <1> HIDE DEF first, rest
  <1>8. first = j - 1
    <2>1. first \in Nat /\ j - 1 \in Nat /\ first > 0 /\ j - 1 > 0
      BY <1>3, <1>4, <1>6
    <2>2. ~(first < j - 1)
      <3> SUFFICES ASSUME first < j - 1 PROVE FALSE
        OBVIOUS
      <3>1. first \in 1..((j - 1) - 1)
        BY <2>1
      <3> QED BY <1>5, <1>6, <3>1
    <2>3. ~(j - 1 < first)
      <3> SUFFICES ASSUME j - 1 < first PROVE FALSE
        OBVIOUS
      <3>1. j - 1 \in 1..(first - 1)
        BY <2>1
      <3> QED BY <1>5, <1>6, <3>1
    <2> QED BY <2>1, <2>2, <2>3
  <1> DEFINE n == j - 1
  <1>9. n \in 1..Len(s) /\ n < Len(s) /\ n + 1 = j /\ n \in 1..Len(rest)
    BY <1>1, <1>2, <1>3, <1>4, <1>5
  <1>10. IsDrop(s, Handler, n)
    <2> DEFINE h == SubSeq(rest, n, Len(rest))
    <2>1. \A i \in n..Len(rest) : rest[i] \in Step
      BY <1>2, <1>3, <1>9, ElementOfSeq
    <2>2. /\ h \in Seq(Step) /\ Len(h) = Len(rest) - n + 1
          /\ \A i \in 1..(Len(rest) - n + 1) : h[i] = rest[(n + i) - 1]
      <3>1. n \in Int /\ Len(rest) \in Int /\ n <= Len(rest)
        BY <1>3, <1>9
      <3> HIDE DEF n
      <3> QED BY <2>1, <3>1, SubSeqProperties
    <2>3. Handler = h
      BY <1>7, <1>8
    <2> HIDE DEF h
    <2>4. Len(h) = Len(s) - n
      BY <1>1, <1>2, <1>9, <2>2
    <2>5. ASSUME NEW i \in 1..Len(h) PROVE h[i] = s[i + n]
      <3>1. i \in 1..(Len(rest) - n + 1) /\ (n + i) - 1 \in 1..Len(rest) /\ ((n + i) - 1) + 1 = i + n
        BY <1>3, <1>9, <2>2
      <3> QED BY <1>2, <2>2, <3>1
    <2> QED BY <2>2, <2>3, <2>4, <2>5 DEF IsDrop
  <1>11. \A m \in 1..n : s[m].do \notin Control
    BY <1>4
  <1> QED BY <1>4, <1>9, <1>10, <1>11

\* A step that ends, or gives up, outside a check.
LEMMA Advances ==
  ASSUME SweepInv, Busy, proc.todo[1].do \notin Control \cup {"see"}, NEW ok \in BOOLEAN, StepEnds(ok),
         UNCHANGED <<cfg, script, passed>>, left' \subseteq left
  PROVE  SweepInv'
  <1> DEFINE s == proc.todo
  <1>1. /\ DOMAIN proc = Fields /\ s \in Seq(Step) /\ Len(s) \in Nat \ {0}
        /\ Head(s) = s[1] /\ IsDrop(s, Tail(s), 1)
    BY Steps
  <1>2. /\ DOMAIN proc' = Fields /\ proc'.failed = proc.failed
        /\ proc'.todo = IF ok \/ ~s[1].must THEN Tail(s) ELSE Handler
    BY <1>1 DEF StepEnds, Fields
  <1>3. CASE ok \/ ~s[1].must
    <2>1. 1 \in 1..Len(s) /\ \A m \in 1..1 : m = 1
      BY <1>1
    <2>2. IsDrop(s, proc'.todo, 1)
      BY <1>1, <1>2, <1>3
    <2>3. (\A m \in 1..1 : s[m].do \notin Control) /\ s[1].do # "see"
      BY <2>1
    <2> QED BY <1>2, <2>1, <2>2, <2>3, Dropped
  <1>4. CASE ~(ok \/ ~s[1].must)
    <2>1. PICK n \in 1..Len(s) :
            /\ IsDrop(s, Handler, n) /\ n < Len(s) /\ s[n + 1].do \in Marks
            /\ \A m \in 1..n : s[m].do \notin Control
      BY <1>4, HandlerDrops
    <2>2. IsDrop(s, proc'.todo, n)
      BY <1>2, <1>4, <2>1
    <2> QED BY <1>2, <2>1, <2>2, Dropped
  <1> QED BY <1>3, <1>4

-----------------------------------------------------------------------------
(* Steps of a process                                                      *)

LEMMA DoingHead ==
  ASSUME SweepInv, NEW do, Doing(do)
  PROVE  Busy /\ proc.todo[1].do = do /\ Arg = proc.todo[1].arg
  BY Steps DEF Doing, Arg

LEMMA Look == ASSUME SweepInv, See PROVE SweepInv'
  <1> DEFINE s == proc.todo
             t == proc'.todo
  <1>1. /\ Busy /\ s[1].do = "see" /\ Arg = s[1].arg
        /\ DOMAIN proc = Fields /\ proc # NoProc /\ s \in Seq(Step) /\ Len(s) \in Nat \ {0}
        /\ Head(s) = s[1] /\ IsDrop(s, Tail(s), 1) /\ Sound(s, Settled, Aim)
    BY DoingHead, Steps DEF See
  <1>2. PICK bad \in Reports(Arg) : StepEnds(~bad)
    BY DEF See
  <1>3. UNCHANGED <<cfg, left, script, passed>>
    BY DEF See
  <1>4. 1 \in 1..Len(s) /\ ~s[1].must
    BY <1>1 DEF Sound
  <1>5. /\ DOMAIN proc' = Fields /\ proc'.failed = proc.failed /\ t = Tail(s)
        /\ proc'.err = (proc.err \/ ~(~bad))
    BY <1>1, <1>2, <1>4 DEF StepEnds, Fields
  <1>6. Detected' = Detected /\ Settled \subseteq Settled'
    BY <1>3, <1>5, Zenon DEF Settled, Detected
  <1>7. ASSUME NEW k \in DOMAIN Aim, s[1] \in Aim[k] PROVE k \in Settled'
    <2>1. k \in Detected
      BY DEF Aim
    <2>2. s[1].arg = k \/ (s[1].arg = "usage-now" /\ k = "usage" /\ ~cfg.callsFail)
      BY <1>7, <2>1 DEF Aim, Try
    <2>3. k \in left => bad
      <3>1. CASE s[1].arg = k
        <4>1. k \in {"msvs", "scs", "usage", "replicas", "pods"} /\ (k = "pods" => ~cfg.callsFail)
          BY <2>1 DEF Detected
        <4>2. Sights(k) = {k \in left}
          BY <4>1 DEF Sights
        <4>3. k # "pods" => FailedCall(k) = {TRUE}
          BY <4>1, Zenon DEF FailedCall
        <4>4. bad \in Sights(k) \cup IF cfg.callsFail THEN FailedCall(k) ELSE {}
          BY <1>1, <1>2, <3>1 DEF Reports
        <4> QED BY <4>1, <4>2, <4>3, <4>4, Zenon
      <3>2. CASE s[1].arg = "usage-now" /\ k = "usage" /\ ~cfg.callsFail
        <4>1. Sights("usage-now") = {"usage" \in left}
          BY DEF Sights
        <4>2. bad \in Sights("usage-now")
          BY <1>1, <1>2, <3>2 DEF Reports
        <4>3. bad = ("usage" \in left)
          BY <4>1, <4>2
        <4> QED BY <3>2, <4>3, Zenon
      <3> QED BY <2>2, <3>1, <3>2
    <2> QED BY <1>3, <1>5, <1>6, <2>1, <2>3, Zenon DEF Settled
  <1>8. Sound(t, Settled', Aim)
    BY <1>1, <1>5, <1>6, <1>7, LookKeeps
  <1>9. t \in Seq(Step) /\ Len(t) \in Nat /\ Len(t) = Len(s) - 1 /\ \A i \in 1..Len(t) : t[i] = s[i + 1]
    BY <1>1, <1>5, LenProperties DEF IsDrop
  <1>10. t # << >> => t[1].do # "it"
    <2> SUFFICES ASSUME t # << >>, t[1].do = "it" PROVE FALSE
      OBVIOUS
    <2>1. 1 \in 1..Len(t)
      BY <1>9, EmptySeq
    <2>2. s[2].do = "it" /\ 2 \in 1..Len(s) /\ 2 > 1 /\ 2 - 1 = 1
      BY <1>1, <1>9, <2>1
    <2>3. s[2 - 1].do \in Starts
      BY <1>1, <2>2 DEF Sound
    <2> QED BY <1>1, <2>2, <2>3 DEF Starts
  <1>11. Pending(s) => Pending(t)
    <2> SUFFICES ASSUME NEW i \in 1..Len(s), s[i].do \in Closers PROVE Pending(t)
      BY DEF Pending
    <2>1. i # 1
      BY <1>1 DEF Closers
    <2>2. i - 1 \in 1..Len(t) /\ (i - 1) + 1 = i
      BY <1>1, <1>9, <2>1
    <2>3. t[i - 1] = s[i]
      BY <1>9, <2>2
    <2> QED BY <2>2, <2>3 DEF Pending
  <1>12. Swept => Swept'
    BY <1>3, <1>6 DEF Swept
  <1>13. ~script.failed => Swept' \/ proc'.failed \/ Pending(t)
    BY <1>5, <1>11, <1>12 DEF SweepInv, DirtInv
  <1> QED BY <1>1, <1>3, <1>5, <1>8, <1>10, <1>13, ProcMoves

\* The steps that only act on the cluster make nothing new in it.
LEMMA Acts ==
  ASSUME SweepInv,
         \/ SeeNone \/ Healthy \/ DeleteKind \/ Call \/ RmReplicas
         \/ ListPods \/ DeletePods \/ AwaitPods \/ Ready
         \/ RmPools \/ DestroyPools \/ MkPools \/ Online
         \/ ControlPlane \/ Install \/ Teardown
  PROVE  SweepInv'
  <1> DEFINE Acting == {"none", "healthy", "delete", "call", "rmReplicas", "listPods", "deletePods",
                        "awaitPods", "ready", "rmPools", "destroyPools", "mkPools", "online",
                        "controlPlane", "install", "teardown"}
  <1>1. Acting \cap (Control \cup {"see"}) = {}
    BY DEF Control, Checks, Starts, Closers
  <1>2. /\ \E do \in Acting : Doing(do)
        /\ UNCHANGED <<cfg, script, passed>> /\ left' \subseteq left
        /\ \E ok \in BOOLEAN : StepEnds(ok)
    <2>1. CASE SeeNone
      BY <2>1, Zenon DEF SeeNone
    <2>2. CASE Healthy
      BY <2>2, Zenon DEF Healthy
    <2>3. CASE DeleteKind
      BY <2>3, Zenon DEF DeleteKind, Results
    <2>4. CASE Call
      BY <2>4, Zenon DEF Call, Results
    <2>5. CASE RmReplicas
      BY <2>5, Zenon DEF RmReplicas
    <2>6. CASE ListPods
      BY <2>6, Zenon DEF ListPods, Results
    <2>7. CASE DeletePods
      BY <2>7, Zenon DEF DeletePods
    <2>8. CASE AwaitPods
      BY <2>8, Zenon DEF AwaitPods
    <2>9. CASE Ready
      BY <2>9 DEF Ready
    <2>10. CASE RmPools
      BY <2>10, Zenon DEF RmPools, PoolsGone
    <2>11. CASE DestroyPools
      BY <2>11, Zenon DEF DestroyPools, PoolsGone
    <2>12. CASE MkPools
      BY <2>12, Zenon DEF MkPools
    <2>13. CASE Online
      BY <2>13, Zenon DEF Online
    <2>14. CASE ControlPlane
      BY <2>14, Zenon DEF ControlPlane
    <2>15. CASE Install
      BY <2>15, Zenon DEF Install
    <2>16. CASE Teardown
      BY <2>16, Zenon DEF Teardown
    <2> QED BY <2>1, <2>2, <2>3, <2>4, <2>5, <2>6, <2>7, <2>8, <2>9, <2>10, <2>11, <2>12, <2>13,
               <2>14, <2>15, <2>16
  <1> HIDE DEF Acting
  <1>3. Busy /\ proc.todo[1].do \notin Control \cup {"see"}
    BY <1>1, <1>2, DoingHead
  <1> QED BY <1>2, <1>3, Advances

\* What is left when a step that is no look is over.
LEMMA RestSound ==
  ASSUME SweepInv, NEW do, Doing(do), do # "see"
  PROVE  /\ Busy /\ proc # NoProc /\ DOMAIN proc = Fields /\ proc.todo[1].do = do
         /\ IsDrop(proc.todo, Rest, 1) /\ Rest \in Seq(Step) /\ Sound(Rest, {}, Aim)
         /\ do \notin Starts => Quiet(Rest)
         /\ do \in Starts => Rest # << >> /\ Rest[1].do = "it"
         /\ do = "it" => Rest # << >> /\ Rest[1].do = "after"
         /\ do \notin Closers /\ Pending(proc.todo) => Pending(Rest)
  <1> DEFINE s == proc.todo
             t == Rest
  <1>1. /\ Busy /\ s[1].do = do /\ proc # NoProc /\ DOMAIN proc = Fields
        /\ s \in Seq(Step) /\ Len(s) \in Nat \ {0} /\ IsDrop(s, t, 1) /\ Sound(s, Settled, Aim)
    BY DoingHead, Steps, Zenon
  <1>2. t \in Seq(Step) /\ Len(t) \in Nat /\ Len(t) = Len(s) - 1 /\ \A i \in 1..Len(t) : t[i] = s[i + 1]
    BY <1>1, LenProperties DEF IsDrop
  <1>3. Sound(t, {}, Aim)
    BY <1>1, DropKeeps
  <1> HIDE DEF t
  <1>4. 1 \in 1..Len(s) /\ (t # << >> => 1 \in 1..Len(t) /\ 2 \in 1..Len(s) /\ t[1] = s[2])
    BY <1>1, <1>2, EmptySeq
  <1>5. 1 < Len(s) => t # << >> /\ t[1] = s[2] /\ 1 + 1 = 2
    BY <1>1, <1>2, EmptySeq
  <1>6. ASSUME do \notin Starts PROVE Quiet(t)
    <2> SUFFICES ASSUME t # << >>, t[1].do = "it" PROVE FALSE
      BY DEF Quiet
    <2>1. s[2].do = "it" /\ 2 \in 1..Len(s) /\ 2 > 1 /\ 2 - 1 = 1
      BY <1>4
    <2>2. s[2 - 1].do \in Starts
      BY <1>1, <2>1 DEF Sound
    <2> QED BY <1>1, <1>6, <2>1, <2>2
  <1>7. ASSUME do \in Starts PROVE t # << >> /\ t[1].do = "it"
    <2>1. 1 < Len(s) /\ s[1 + 1].do = "it"
      BY <1>1, <1>4, <1>7 DEF Sound
    <2> QED BY <1>5, <2>1
  <1>8. ASSUME do = "it" PROVE t # << >> /\ t[1].do = "after"
    <2>1. 1 < Len(s) /\ s[1 + 1].do = "after"
      BY <1>1, <1>4, <1>8 DEF Sound
    <2> QED BY <1>5, <2>1
  <1>9. ASSUME do \notin Closers, NEW i \in 1..Len(s), s[i].do \in Closers PROVE Pending(t)
    <2>1. i # 1
      BY <1>1, <1>9
    <2>2. i - 1 \in 1..Len(t) /\ (i - 1) + 1 = i
      BY <1>1, <1>2, <2>1
    <2>3. t[i - 1] = s[i]
      BY <1>2, <2>2
    <2> QED BY <1>9, <2>2, <2>3 DEF Pending
  <1> QED BY <1>1, <1>2, <1>3, <1>6, <1>7, <1>8, <1>9 DEF Pending, t

\* After the start of a case has been given up its AfterEachCheck comes next.
LEMMA GivenUp ==
  ASSUME SweepInv, NEW do \in Starts, Doing(do)
  PROVE  /\ Sound(Tail(Rest), {}, Aim) /\ Quiet(Tail(Rest)) /\ Pending(Tail(Rest)) /\ Pending(Rest)
  <1> DEFINE s == Rest
             t == Tail(Rest)
  <1>1. do # "see" /\ s \in Seq(Step) /\ Sound(s, {}, Aim) /\ s # << >> /\ s[1].do = "it"
    <2>1. do # "see"
      BY DEF Starts
    <2> QED BY <2>1, RestSound
  <1>2. IsDrop(s, t, 1) /\ Len(s) \in Nat \ {0}
    BY <1>1, TailDrops
  <1>3. t \in Seq(Step) /\ Len(t) \in Nat /\ Len(t) = Len(s) - 1 /\ \A i \in 1..Len(t) : t[i] = s[i + 1]
    BY <1>2, LenProperties DEF IsDrop
  <1>4. Sound(t, {}, Aim)
    BY <1>1, <1>2, DropKeeps
  <1> HIDE DEF s, t
  <1>5. 1 < Len(s) /\ s[1 + 1].do = "after"
    <2>1. 1 \in 1..Len(s)
      BY <1>2
    <2> QED BY <1>1, <2>1 DEF Sound
  <1>6. 1 \in 1..Len(t) /\ t[1].do = "after" /\ 2 \in 1..Len(s) /\ s[2].do = "after"
    BY <1>2, <1>3, <1>5
  <1>7. Quiet(t) /\ Pending(t) /\ Pending(s)
    BY <1>6 DEF Quiet, Pending, Closers
  <1> QED BY <1>4, <1>7 DEF s, t

\* The result of a check that found nothing is true.
LEMMA NothingFound ==
  ASSUME SweepInv, NEW do \in Checks, Doing(do), ~proc.err
  PROVE  Swept
  <1> DEFINE s == proc.todo
  <1>1. s[1].do = do /\ Sound(s, Settled, Aim) /\ Len(s) \in Nat \ {0}
    BY DoingHead, Steps
  <1>2. 1 \in 1..Len(s)
    BY <1>1
  <1>3. \A looks : ~Sought(s, 1, looks)
    BY DEF Sought
  <1>4. \A k \in DOMAIN Aim : k \in Settled
    BY <1>1, <1>2, <1>3 DEF Sound
  <1>5. DOMAIN Aim = Detected
    BY DEF Aim
  <1> QED BY <1>4, <1>5 DEF Settled, Swept

\* A step that calls a function or goes on after a case.
LEMMA Called ==
  ASSUME SweepInv, proc # NoProc, UNCHANGED <<cfg, script, passed>>, DOMAIN proc' = Fields,
         Sound(proc'.todo, {}, Aim), Quiet(proc'.todo),
         ~script.failed => Swept' \/ proc'.failed \/ Pending(proc'.todo)
  PROVE  SweepInv'
  <1>1. Sound(proc'.todo, Settled', Aim)
    BY Weaker
  <1>2. ~(proc'.todo # << >> /\ proc'.todo[1].do = "it")
    BY DEF Quiet
  <1> QED BY <1>1, <1>2, ProcMoves

LEMMA PendingLater ==
  ASSUME NEW u \in Seq(Step), NEW r \in Seq(Step), Pending(r)
  PROVE  Pending(u \o r)
  <1>1. IsConcat(u \o r, u, r)
    BY Concat
  <1> QED BY <1>1 DEF IsConcat, Pending

LEMMA Regroup ==
  ASSUME NEW a \in Seq(Step), NEW b \in Seq(Step), NEW c \in Seq(Step)
  PROVE  (a \o b) \o c = a \o (b \o c)
  <1> DEFINE S == Step
  <1>1. a \in Seq(S) /\ b \in Seq(S) /\ c \in Seq(S)
    OBVIOUS
  <1> HIDE DEF S
  <1> QED BY <1>1, ConcatAssociative

\* What comes before a case that has found the cluster dirty.
LEMMA ReviveSound ==
  ASSUME NEW r, Sound(r, {}, Aim), r # << >>, r[1].do = "it", Pending(r)
  PROVE  /\ Sound(Check \o r, {}, Aim) /\ Quiet(Check \o r) /\ Pending(Check \o r)
         /\ Sound(Revive \o r, {}, Aim) /\ Quiet(Revive \o r) /\ Pending(Revive \o r)
  <1> DEFINE f == <<Try("forget", "")>>
  <1>1. r \in Seq(Step) /\ RestartMayastor \in Seq(Step) /\ RestoreConfiguredPools \in Seq(Step)
    BY RestartBlock, RestoreBlock DEF Sound, Block
  <1>2. Check \in Seq(Step)
    <2>1. "checked" \in Dos /\ "" \in Args
      BY DEF Dos, Control, Checks, Args
    <2>2. Try("checked", "") \in Step
      BY <2>1, TryStep, Zenon
    <2>3. <<Try("checked", "")>> \in Seq(Step)
      BY <2>2, OneStep, Zenon
    <2>4. resourceCheck(FALSE) \in Seq(Step)
      BY CheckLooks, Zenon
    <2> QED BY <2>3, <2>4, ConcatProperties, Zenon DEF Check
  <1>3. Block(f) /\ f \in Seq(Step)
    <2> DEFINE e == Try("forget", "")
    <2>1. PlainStep(e) /\ ~e.must
      <3>1. "forget" \in Dos \ (Control \cup Marks) /\ "" \in Args
        BY Names, Zenon
      <3> QED BY <3>1, PlainSteps, TryStep, Zenon
    <2> HIDE DEF e
    <2>2. <<e>> \in Seq(Step) /\ Len(<<e>>) = 1 /\ <<e>>[1] = e
      BY <2>1, OneStep DEF PlainStep
    <2>3. Block(<<e>>)
      BY <2>1, <2>2 DEF Block, PlainStep
    <2> QED BY <2>2, <2>3, Zenon DEF e
  <1> HIDE DEF f
  <1>4. Sound(Check \o r, {}, Aim) /\ Quiet(Check \o r) /\ Check \o r \in Seq(Step)
    <2>1. "checked" \in Checks /\ "checked" \in Starts
      BY DEF Checks, Starts
    <2>2. Sound(Check \o r, {}, Aim) /\ Quiet(Check \o r)
      BY <2>1, CheckSound, Zenon DEF Check
    <2> QED BY <2>2, Zenon DEF Sound
  <1>5. Sound(f \o (Check \o r), {}, Aim) /\ Quiet(f \o (Check \o r)) /\ f \o (Check \o r) \in Seq(Step)
    BY <1>3, <1>4, CallSound
  <1> DEFINE g == f \o (Check \o r)
  <1> HIDE DEF g
  <1>6. LET h == RestoreConfiguredPools \o g IN Sound(h, {}, Aim) /\ Quiet(h) /\ h \in Seq(Step)
    BY <1>5, RestoreBlock, CallSound DEF g
  <1> DEFINE h == RestoreConfiguredPools \o g
  <1> HIDE DEF h
  <1>7. Sound(RestartMayastor \o h, {}, Aim) /\ Quiet(RestartMayastor \o h)
    BY <1>6, RestartBlock, CallSound DEF h
  <1>8. Revive \o r = RestartMayastor \o h /\ Revive \in Seq(Step)
    <2> DEFINE a == RestartMayastor \o RestoreConfiguredPools
    <2>1. a \in Seq(Step) /\ a \o f \in Seq(Step) /\ (a \o f) \o Check \in Seq(Step)
      BY <1>1, <1>2, <1>3, ConcatProperties
    <2>2. Revive = (a \o f) \o Check
      BY DEF Revive, f
    <2>3. ((a \o f) \o Check) \o r = (a \o f) \o (Check \o r)
      BY <1>1, <1>2, <2>1, Regroup
    <2>4. (a \o f) \o (Check \o r) = a \o (f \o (Check \o r))
      BY <1>3, <1>4, <2>1, Regroup, Zenon
    <2>5. a \o g = RestartMayastor \o (RestoreConfiguredPools \o g)
      BY <1>1, <1>5, Regroup, Zenon DEF g
    <2> QED BY <2>1, <2>2, <2>3, <2>4, <2>5 DEF g, h
  <1>9. Pending(Check \o r) /\ Pending(Revive \o r)
    BY <1>1, <1>2, <1>8, PendingLater, Zenon
  <1> QED BY <1>4, <1>7, <1>8, <1>9

-----------------------------------------------------------------------------
(* Control                                                                 *)

LEMMA StillDirty ==
  ASSUME SweepInv, proc # NoProc, UNCHANGED <<cfg, left>>, ~script.failed
  PROVE  Swept' \/ proc.failed \/ Pending(proc.todo)
  <1>1. Swept' <=> Swept
    BY DEF Swept, Detected
  <1> QED BY <1>1 DEF SweepInv, DirtInv

LEMMA Stopped ==
  ASSUME SweepInv, proc # NoProc, UNCHANGED <<cfg, script, passed>>, DOMAIN proc' = Fields,
         proc'.todo = << >>, proc'.failed
  PROVE  SweepInv'
  <1>1. Sound(proc'.todo, {}, Aim) /\ Quiet(proc'.todo)
    BY EmptySound DEF Quiet
  <1> QED BY <1>1, Called

LEMMA KilledKeeps ==
  ASSUME SweepInv, Killed
  PROVE  SweepInv'
  <1>1. proc # NoProc /\ DOMAIN proc = Fields /\ "todo" \in Fields /\ "failed" \in Fields
    BY Steps DEF Killed, Fields
  <1>2. DOMAIN proc' = Fields /\ proc'.todo = << >> /\ proc'.failed
    BY <1>1 DEF Killed
  <1> QED BY <1>1, <1>2, Stopped DEF Killed

\* Forget, Restored, and Again and Expect when they go on.
LEMMA GoesOn ==
  ASSUME SweepInv, NEW do, Doing(do), do \notin Starts \cup Closers \cup {"see"},
         UNCHANGED <<cfg, left, script, passed>>, DOMAIN proc' = Fields,
         proc'.todo = Rest, proc'.failed = proc.failed
  PROVE  SweepInv'
  <1>1. /\ proc # NoProc /\ Sound(Rest, {}, Aim) /\ Quiet(Rest)
        /\ Pending(proc.todo) => Pending(Rest)
    BY RestSound
  <1> QED BY <1>1, StillDirty, Called

LEMMA RetryKeeps ==
  ASSUME SweepInv, Doing("again"),
         UNCHANGED <<cfg, left, script, passed>>, DOMAIN proc' = Fields,
         proc'.todo = RestartMayastor \o Rest, proc'.failed = proc.failed
  PROVE  SweepInv'
  <1>1. "again" \notin Starts \cup Closers \cup {"see"}
    BY DEF Starts, Closers
  <1>2. /\ proc # NoProc /\ Sound(Rest, {}, Aim) /\ Quiet(Rest) /\ Rest \in Seq(Step)
        /\ Pending(proc.todo) => Pending(Rest)
    BY <1>1, RestSound
  <1>3. Sound(RestartMayastor \o Rest, {}, Aim) /\ Quiet(RestartMayastor \o Rest)
    BY <1>2, RestartBlock, CallSound
  <1>4. RestartMayastor \in Seq(Step)
    BY RestartBlock DEF Block
  <1>5. Pending(proc.todo) => Pending(RestartMayastor \o Rest)
    BY <1>2, <1>4, PendingLater
  <1> QED BY <1>2, <1>3, <1>5, StillDirty, Called

LEMMA MarksKeep ==
  ASSUME SweepInv, Forget \/ Again \/ Restored \/ Expect
  PROVE  SweepInv'
  <1> USE DEF Goto
  <1>1. UNCHANGED <<cfg, left, script, passed>> /\ Busy
    BY DEF Forget, Again, Restored, Expect, Doing
  <1>2. proc # NoProc /\ DOMAIN proc = Fields /\ {"todo", "err", "tries", "failed"} \subseteq Fields
    BY <1>1, Steps DEF Fields
  <1>3. \A do \in {"forget", "again", "restored", "expect"} : do \notin Starts \cup Closers \cup {"see"}
    BY DEF Starts, Closers
  <1>4. CASE Forget
    <2>1. Doing("forget") /\ DOMAIN proc' = Fields /\ proc'.todo = Rest /\ proc'.failed = proc.failed
      BY <1>2, <1>4 DEF Forget
    <2> QED BY <1>1, <1>3, <2>1, GoesOn
  <1>5. CASE Restored
    <2>1. Doing("restored") /\ DOMAIN proc' = Fields /\ proc'.todo = Rest /\ proc'.failed = proc.failed
      BY <1>2, <1>5 DEF Restored
    <2> QED BY <1>1, <1>3, <2>1, GoesOn
  <1>6. CASE Again
    <2>1. CASE proc.err /\ proc.tries < Retries
      <3>1. /\ Doing("again") /\ DOMAIN proc' = Fields /\ proc'.todo = RestartMayastor \o Rest
            /\ proc'.failed = proc.failed
        BY <1>2, <1>6, <2>1 DEF Again
      <3> QED BY <1>1, <3>1, RetryKeeps
    <2>2. CASE ~(proc.err /\ proc.tries < Retries)
      <3>1. Doing("again") /\ DOMAIN proc' = Fields /\ proc'.todo = Rest /\ proc'.failed = proc.failed
        BY <1>2, <1>6, <2>2 DEF Again
      <3> QED BY <1>1, <1>3, <3>1, GoesOn
    <2> QED BY <2>1, <2>2
  <1>7. CASE Expect
    <2>1. CASE proc.err
      <3>1. DOMAIN proc' = Fields /\ proc'.todo = << >> /\ proc'.failed
        BY <1>2, <1>7, <2>1 DEF Expect
      <3> QED BY <1>1, <1>2, <3>1, Stopped
    <2>2. CASE ~proc.err
      <3>1. Doing("expect") /\ DOMAIN proc' = Fields /\ proc'.todo = Rest /\ proc'.failed = proc.failed
        BY <1>2, <1>7, <2>2 DEF Expect
      <3> QED BY <1>1, <1>3, <3>1, GoesOn
    <2> QED BY <2>1, <2>2
  <1> QED BY <1>4, <1>5, <1>6, <1>7

\* A case is given up before it starts.
LEMMA FailBeforeKeeps ==
  ASSUME SweepInv, NEW do \in Starts, Doing(do), UNCHANGED <<cfg, script, passed>>,
         DOMAIN proc' = Fields, proc'.todo = Tail(Rest)
  PROVE  SweepInv'
  <1>1. Sound(proc'.todo, {}, Aim) /\ Quiet(proc'.todo) /\ Pending(proc'.todo)
    BY GivenUp
  <1>2. proc # NoProc
    BY DEF Doing, Busy
  <1> QED BY <1>1, <1>2, Called

\* The start of a case goes on with a check, after a restart or not.
LEMMA ChecksFirst ==
  ASSUME SweepInv, NEW do \in Starts, Doing(do), UNCHANGED <<cfg, script, passed>>,
         DOMAIN proc' = Fields,
         proc'.todo \in {Check \o Rest, Revive \o Rest, (resourceCheck(FALSE) \o <<Try("precheck", "")>>) \o Rest}
  PROVE  SweepInv'
  <1>1. do # "see"
    BY Zenon DEF Starts
  <1>2. Sound(Rest, {}, Aim) /\ Rest # << >> /\ Rest[1].do = "it" /\ proc # NoProc /\ Rest \in Seq(Step)
    BY <1>1, RestSound, Zenon
  <1>3. Pending(Rest)
    BY GivenUp, Zenon
  <1> DEFINE p == resourceCheck(FALSE) \o <<Try("precheck", "")>>
  <1>4. Sound(p \o Rest, {}, Aim) /\ Quiet(p \o Rest)
    <2>1. "precheck" \in Checks /\ "precheck" \in Starts
      BY Zenon DEF Checks, Starts
    <2> QED BY <1>2, <2>1, CheckSound, Zenon
  <1>5. Pending(p \o Rest)
    <2>1. "precheck" \in Dos /\ "" \in Args
      BY Zenon DEF Dos, Control, Checks, Args
    <2>2. Try("precheck", "") \in Step
      BY <2>1, TryStep, Zenon
    <2>3. <<Try("precheck", "")>> \in Seq(Step)
      BY <2>2, OneStep, Zenon
    <2>4. resourceCheck(FALSE) \in Seq(Step)
      BY CheckLooks, Zenon
    <2>5. p \in Seq(Step)
      BY <2>3, <2>4, ConcatProperties, Zenon
    <2> HIDE DEF p
    <2> QED BY <1>2, <1>3, <2>5, PendingLater, Zenon
  <1> HIDE DEF p
  <1>6. Sound(proc'.todo, {}, Aim) /\ Quiet(proc'.todo) /\ Pending(proc'.todo)
    BY <1>2, <1>3, <1>4, <1>5, ReviveSound, Zenon DEF p
  <1> QED BY <1>2, <1>6, Called, Zenon

\* The case starts, in a cluster where nothing was found.
LEMMA Enters ==
  ASSUME SweepInv, NEW do \in Starts \cap Checks, Doing(do), ~proc.err,
         UNCHANGED <<cfg, left, script, passed>>, DOMAIN proc' = Fields, proc'.todo = Rest
  PROVE  SweepInv'
  <1>1. do # "see"
    BY DEF Starts
  <1>2. Sound(Rest, {}, Aim) /\ proc # NoProc
    BY <1>1, RestSound
  <1>3. Pending(Rest)
    BY GivenUp
  <1>4. Swept'
    <2>1. Swept
      BY NothingFound
    <2> QED BY <2>1 DEF Swept, Detected
  <1>5. Sound(proc'.todo, Settled', Aim)
    BY <1>2, Weaker
  <1> QED BY <1>2, <1>3, <1>4, <1>5, ProcMoves

LEMMA BeforeKeeps ==
  ASSUME SweepInv, BeforeEach
  PROVE  SweepInv'
  <1> DEFINE p == [proc EXCEPT !.caseFailed = FALSE, !.err = FALSE, !.tries = 1]
             pre == resourceCheck(FALSE) \o <<Try("precheck", "")>>
             todo == (IF ~cfg.restart THEN Check ELSE IF p.resourceCheckError THEN Revive ELSE pre) \o Rest
  <1>1. Doing("before") /\ UNCHANGED <<cfg, script, passed>> /\ "before" \in Starts
    BY DEF BeforeEach, Starts
  <1>2. DOMAIN proc = Fields /\ {"todo", "err", "tries", "caseFailed", "failed"} \subseteq Fields
    BY <1>1, Steps DEF Fields, Doing
  <1>3. DOMAIN p = Fields
    BY <1>2
  <1>4. proc' = IF cfg.failQuick /\ p.resourceCheckError THEN FailBefore(p) ELSE [p EXCEPT !.todo = todo]
    BY DEF BeforeEach
  <1>5. todo \in {Check \o Rest, Revive \o Rest, pre \o Rest}
    BY Zenon
  <1> HIDE DEF p, todo
  <1>6. CASE cfg.failQuick /\ p.resourceCheckError
    <2>1. DOMAIN proc' = Fields /\ proc'.todo = Tail(Rest)
      BY <1>2, <1>3, <1>4, <1>6 DEF FailBefore
    <2> QED BY <1>1, <2>1, FailBeforeKeeps
  <1>7. CASE ~(cfg.failQuick /\ p.resourceCheckError)
    <2>1. DOMAIN proc' = Fields /\ proc'.todo = todo
      BY <1>2, <1>3, <1>4, <1>7
    <2> QED BY <1>1, <1>5, <2>1, ChecksFirst, Zenon
  <1> QED BY <1>6, <1>7

LEMMA PrecheckKeeps ==
  ASSUME SweepInv, Precheck
  PROVE  SweepInv'
  <1>1. Doing("precheck") /\ UNCHANGED <<cfg, left, script, passed>> /\ "precheck" \in Starts \cap Checks
    BY DEF Precheck, Starts, Checks
  <1>2. DOMAIN proc = Fields /\ {"todo", "err", "resourceCheckError"} \subseteq Fields
    BY <1>1, Steps DEF Fields, Doing
  <1>3. CASE proc.err
    <2>1. DOMAIN proc' = Fields /\ proc'.todo = Revive \o Rest
      BY <1>2, <1>3 DEF Precheck, Goto
    <2> QED BY <1>1, <2>1, ChecksFirst
  <1>4. CASE ~proc.err
    <2>1. DOMAIN proc' = Fields /\ proc'.todo = Rest
      BY <1>2, <1>4 DEF Precheck, Goto
    <2> QED BY <1>1, <1>4, <2>1, Enters
  <1> QED BY <1>3, <1>4

LEMMA CheckedKeeps ==
  ASSUME SweepInv, Checked
  PROVE  SweepInv'
  <1> DEFINE p == [proc EXCEPT !.resourceCheckError = proc.err]
             there == Cardinality({x \in MsPods : ms[x] # "absent"})
             leaving == Cardinality({x \in MsPods : ms[x] = "terminating"})
  <1>1. Doing("checked") /\ UNCHANGED <<cfg, left, script, passed>> /\ "checked" \in Starts \cap Checks
    BY Zenon DEF Checked, Starts, Checks
  <1>2. DOMAIN proc = Fields /\ {"todo", "err", "resourceCheckError", "podCount", "caseFailed"} \subseteq Fields
    BY <1>1, Steps DEF Fields, Doing
  <1>3. DOMAIN p = Fields
    BY <1>2
  <1>4. IF proc.err THEN proc' = FailBefore(p)
        ELSE \/ \E n \in there..(there + leaving): proc' = [p EXCEPT !.podCount = n, !.todo = Rest]
             \/ proc' = FailBefore(p)
    BY Zenon DEF Checked
  <1> HIDE DEF p, there, leaving
  <1>5. CASE proc' = FailBefore(p)
    <2>1. DOMAIN proc' = Fields /\ proc'.todo = Tail(Rest)
      BY <1>2, <1>3, <1>5 DEF FailBefore
    <2> QED BY <1>1, <2>1, FailBeforeKeeps
  <1>6. ASSUME ~proc.err, NEW n \in there..(there + leaving), proc' = [p EXCEPT !.podCount = n, !.todo = Rest]
        PROVE  SweepInv'
    <2>1. DOMAIN proc' = Fields /\ proc'.todo = Rest
      BY <1>2, <1>3, <1>6
    <2> QED BY <1>1, <1>6, <2>1, Enters
  <1> QED BY <1>4, <1>5, <1>6, Zenon

LEMMA ItKeeps ==
  ASSUME SweepInv, It
  PROVE  SweepInv'
  <1>1. Doing("it") /\ UNCHANGED <<cfg, script, passed>> /\ "it" \notin Starts
    BY DEF It, Starts
  <1>2. DOMAIN proc = Fields /\ {"todo", "err", "caseFailed"} \subseteq Fields
    BY <1>1, Steps DEF Fields, Doing
  <1>3. PICK ok \in BOOLEAN : proc' = [Goto(Rest) EXCEPT !.caseFailed = ~ok, !.err = FALSE]
    BY Zenon DEF It
  <1>4. DOMAIN proc' = Fields /\ proc'.todo = Rest
    BY <1>2, <1>3 DEF Goto
  <1>5. /\ proc # NoProc /\ Sound(Rest, {}, Aim) /\ Quiet(Rest) /\ Rest \in Seq(Step)
        /\ Rest # << >> /\ Rest[1].do = "after"
    BY <1>1, RestSound
  <1>6. Pending(Rest)
    <2>1. 1 \in 1..Len(Rest) /\ "after" \in Closers
      BY <1>5, EmptySeq, LenProperties DEF Closers
    <2> QED BY <1>5, <2>1 DEF Pending
  <1> QED BY <1>1, <1>4, <1>5, <1>6, Called

\* What a case leaves behind when it has ended.
LEMMA CaseEndsKeeps ==
  ASSUME SweepInv, NEW do \in Closers, Doing(do), UNCHANGED <<cfg, left, script, passed>>,
         DOMAIN proc' = Fields, proc'.todo = Rest, proc'.failed \/ (do \in Checks /\ ~proc.err)
  PROVE  SweepInv'
  <1>1. do # "see" /\ do \notin Starts
    BY DEF Closers, Starts
  <1>2. proc # NoProc /\ Sound(Rest, {}, Aim) /\ Quiet(Rest)
    BY <1>1, RestSound
  <1>3. proc'.failed \/ Swept'
    <2>1. do \in Checks /\ ~proc.err => Swept
      BY NothingFound
    <2> QED BY <2>1 DEF Swept, Detected
  <1> QED BY <1>2, <1>3, Called

LEMMA AfterKeeps ==
  ASSUME SweepInv, AfterEach
  PROVE  SweepInv'
  <1>1. Doing("after") /\ UNCHANGED <<cfg, left, script, passed>> /\ "after" \in Closers
    BY Zenon DEF AfterEach, Closers
  <1>2. DOMAIN proc = Fields /\ {"todo", "err", "caseFailed", "failed"} \subseteq Fields
    BY <1>1, Steps DEF Fields, Doing
  <1>3. CASE cfg.failQuick /\ proc.resourceCheckError
    <2> DEFINE p == [proc EXCEPT !.caseFailed = TRUE]
    <2>1. DOMAIN p = Fields /\ p.caseFailed
      BY <1>2
    <2>2. proc' = CaseEnds(p)
      BY <1>3 DEF AfterEach
    <2> HIDE DEF p
    <2>3. DOMAIN proc' = Fields /\ proc'.todo = Rest /\ proc'.failed
      BY <1>2, <2>1, <2>2, Zenon DEF CaseEnds
    <2> QED BY <1>1, <2>3, CaseEndsKeeps
  <1>4. CASE ~(cfg.failQuick /\ proc.resourceCheckError)
    <2> DEFINE s == resourceCheck(TRUE) \o <<Try("rechecked", "")>> \o Rest
    <2>1. DOMAIN proc' = Fields /\ proc'.todo = s
      BY <1>2, <1>4, Zenon DEF AfterEach, Goto
    <2>2. "after" # "see" /\ "after" \notin Starts /\ "rechecked" \in Checks /\ "rechecked" \notin Starts
          /\ "rechecked" \in Closers
      BY DEF Starts, Checks, Closers
    <2>3. proc # NoProc /\ Sound(Rest, {}, Aim) /\ Quiet(Rest)
      BY <1>1, <2>2, RestSound
    <2>4. Sound(s, {}, Aim) /\ Quiet(s) /\ \E i \in 1..Len(s) : s[i].do = "rechecked"
      BY <2>2, <2>3, CheckSound, Zenon
    <2> HIDE DEF s
    <2>5. Pending(s)
      BY <2>2, <2>4 DEF Pending
    <2> QED BY <1>1, <2>1, <2>3, <2>4, <2>5, Called
  <1> QED BY <1>3, <1>4

LEMMA RecheckedKeeps ==
  ASSUME SweepInv, Rechecked
  PROVE  SweepInv'
  <1> DEFINE p == [proc EXCEPT !.resourceCheckError = proc.err, !.soured = @ \/ proc.err,
                               !.caseFailed = @ \/ proc.err]
  <1>1. Doing("rechecked") /\ UNCHANGED <<cfg, left, script, passed>> /\ "rechecked" \in Closers \cap Checks
    BY DEF Rechecked, Closers, Checks
  <1>2. /\ DOMAIN proc = Fields
        /\ {"todo", "err", "caseFailed", "failed", "soured", "resourceCheckError"} \subseteq Fields
    BY <1>1, Steps DEF Fields, Doing
  <1>3. DOMAIN p = Fields /\ (proc.err => p.caseFailed)
    BY <1>2, Zenon
  <1>4. proc' = CaseEnds(p)
    BY DEF Rechecked
  <1> HIDE DEF p
  <1>5. DOMAIN proc' = Fields /\ proc'.todo = Rest /\ (proc.err => proc'.failed)
    BY <1>2, <1>3, <1>4, Zenon DEF CaseEnds
  <1> QED BY <1>1, <1>5, CaseEndsKeeps

-----------------------------------------------------------------------------
(* The cluster and the script                                              *)

\* What the cluster does on its own only takes things away.
LEMMA LessLeft ==
  ASSUME SweepInv, UNCHANGED <<cfg, proc, script, passed>>, left' \subseteq left
  PROVE  SweepInv'
  <1>1. Aim' = Aim /\ Detected' = Detected
    BY DEF Aim, Detected
  <1>2. Settled \subseteq Settled' /\ (Swept => Swept')
    BY <1>1 DEF Settled, Swept
  <1>3. ProcInv'
    BY <1>1, <1>2, Weaker DEF SweepInv, ProcInv
  <1>4. DirtInv'
    BY <1>2 DEF SweepInv, DirtInv
  <1>5. ScriptInv'
    BY DEF SweepInv, ScriptInv, Listed, Uninstalls, Tests
  <1> QED BY <1>3, <1>4, <1>5 DEF SweepInv

LEMMA ClusterKeeps ==
  ASSUME SweepInv, ClusterStep
  PROVE  SweepInv'
  <1>1. UNCHANGED <<cfg, proc, script, passed>> /\ left' \subseteq left
    BY DEF ClusterStep, Vanish, PodMoves, PoolsMove
  <1> QED BY <1>1, LessLeft

Programs == {"install", "uninstall", "cleanup", "restart", "directory"}

\* A process starts in a cluster that is swept, unless a test has failed.
LEMMA Launches ==
  ASSUME SweepInv, Idle, NEW name \in Programs, runGoTest(name),
         Listed(script.at) => Tests[script.at] # "uninstall"
  PROVE  SweepInv'
  <1>0. UNCHANGED <<cfg, left, script, passed>>
    BY DEF runGoTest
  <1>1. PICK n \in 1..MaxCases, ready \in BOOLEAN :
          proc' = [name |-> name, todo |-> IF ready THEN Program(name, n) ELSE << >>,
                   err |-> FALSE, resourceCheckError |-> FALSE, podCount |-> 0,
                   tries |-> 1, caseFailed |-> FALSE, failed |-> ~ready, soured |-> FALSE]
    BY Zenon DEF runGoTest
  <1>2. n \in Nat
    BY HarnessAssumption
  <1>3. DOMAIN proc' = Fields /\ proc'.todo \in {Program(name, n), << >>}
    BY <1>1 DEF Fields
  <1>4. Sound(proc'.todo, {}, Aim) /\ Quiet(proc'.todo)
    <2>1. Sound(Program(name, n), {}, Aim) /\ Quiet(Program(name, n))
      BY <1>2, ProgramSound DEF Programs
    <2>2. Sound(<< >>, {}, Aim) /\ Quiet(<< >>)
      BY EmptySound DEF Quiet
    <2> QED BY <1>3, <2>1, <2>2, Zenon
  <1>5. Aim' = Aim /\ Detected' = Detected
    BY <1>0 DEF Aim, Detected
  <1>6. Sound(proc'.todo, Settled', Aim)
    BY <1>4, Weaker
  <1>7. ProcInv'
    BY <1>3, <1>4, <1>5, <1>6 DEF ProcInv, Quiet
  <1>8. DirtInv'
    BY <1>0, <1>5 DEF SweepInv, DirtInv, Idle, Swept
  <1>9. ScriptInv'
    BY <1>0 DEF SweepInv, ScriptInv, Idle, Listed, Uninstalls, Tests
  <1> QED BY <1>7, <1>8, <1>9 DEF SweepInv

LEMMA TestList ==
  ASSUME SweepInv
  PROVE  /\ Tests \in Seq({"install", "directory", "uninstall"}) /\ Len(Tests) \in Nat
         /\ DOMAIN Tests = 1..Len(Tests) /\ Uninstalls = {i \in 1..Len(Tests) : Tests[i] = "uninstall"}
  <1>1. cfg \in Config
    BY HarnessAssumption DEF SweepInv, ScriptInv
  <1>2. Tests \in Seq({"install", "directory", "uninstall"})
    BY <1>1 DEF Config, Tests
  <1> QED BY <1>2, LenProperties DEF Uninstalls

LEMMA NextTestKeeps ==
  ASSUME SweepInv, NextTest
  PROVE  SweepInv'
  <1>1. Idle /\ Tests[script.at] # "uninstall" /\ runGoTest(Tests[script.at]) /\ script.at <= Len(Tests)
    BY DEF NextTest, Listed
  <1>2. script.at \in 1..Len(Tests)
    BY <1>1, TestList DEF SweepInv, ScriptInv
  <1>3. Tests[script.at] \in {"install", "directory", "uninstall"}
    BY <1>2, TestList, ElementOfSeq
  <1>4. Tests[script.at] \in Programs
    BY <1>3 DEF Programs
  <1> QED BY <1>1, <1>4, Launches

LEMMA FixNames ==
  ASSUME NEW f \in Fixes, f # << >>
  PROVE  Head(f) \in Programs /\ Tail(f) \in Fixes /\ (Len(f) = 1 <=> Tail(f) = << >>)
  <1>1. /\ Tail(<<"restart">>) = << >> /\ Tail(<<"install">>) = << >>
        /\ Tail(<<"uninstall", "install">>) = <<"install">>
        /\ Tail(<<"cleanup", "uninstall", "install">>) = <<"uninstall", "install">>
    OBVIOUS
  <1>2. /\ Head(<<"restart">>) = "restart" /\ Head(<<"install">>) = "install"
        /\ Head(<<"uninstall", "install">>) = "uninstall"
        /\ Head(<<"cleanup", "uninstall", "install">>) = "cleanup"
    OBVIOUS
  <1>3. /\ Len(<<"restart">>) = 1 /\ Len(<<"install">>) = 1 /\ Len(<<"uninstall", "install">>) = 2
        /\ Len(<<"cleanup", "uninstall", "install">>) = 3
    OBVIOUS
  <1>4. <<"install">> # << >> /\ <<"uninstall", "install">> # << >>
    OBVIOUS
  <1>5. CASE f = <<"restart">> \/ f = <<"install">>
    BY <1>1, <1>2, <1>3, <1>5, Zenon DEF Fixes, Programs
  <1>6. CASE f = <<"uninstall", "install">>
    BY <1>1, <1>2, <1>3, <1>4, <1>6 DEF Fixes, Programs
  <1>7. CASE f = <<"cleanup", "uninstall", "install">>
    BY <1>1, <1>2, <1>3, <1>4, <1>7 DEF Fixes, Programs
  <1> QED BY <1>5, <1>6, <1>7 DEF Fixes

LEMMA NextFixKeeps ==
  ASSUME SweepInv, NextFix
  PROVE  SweepInv'
  <1>1. Idle /\ script.fix # << >> /\ runGoTest(Head(script.fix)) /\ script.fix \in Fixes
    BY DEF NextFix, SweepInv, ScriptInv
  <1>2. Head(script.fix) \in Programs
    BY <1>1, FixNames
  <1> QED BY <1>1, <1>2, Launches DEF Listed

\* The script goes on without a process.
LEMMA ScriptMoves ==
  ASSUME SweepInv, proc' = NoProc, UNCHANGED <<cfg, left>>, ~script'.failed => Swept, ScriptInv'
  PROVE  SweepInv'
  <1>1. Detected' = Detected
    BY DEF Detected
  <1> QED BY <1>1 DEF SweepInv, ProcInv, DirtInv, Swept

LEMMA DeferKeeps ==
  ASSUME SweepInv, DeferUninstall
  PROVE  SweepInv'
  <1>1. /\ proc = NoProc /\ script.exit = "none" /\ script.at <= Len(Tests) /\ script.fix = << >>
        /\ Tests[script.at] = "uninstall" /\ script' = [script EXCEPT !.at = @ + 1]
        /\ UNCHANGED <<cfg, left, proc, passed>> /\ Tests' = Tests /\ Uninstalls' = Uninstalls
    BY DEF DeferUninstall, Idle, Listed, Tests, Uninstalls
  <1>2. ~script.failed => Swept
    BY <1>1 DEF SweepInv, DirtInv
  <1>3. script.at \in 1..Len(Tests)
    BY <1>1, TestList DEF SweepInv, ScriptInv
  <1>4. /\ DOMAIN script' = {"at", "failed", "fix", "exit"} /\ script'.at = script.at + 1
        /\ script'.failed = script.failed /\ script'.fix = << >> /\ script'.exit = "none"
    BY <1>1 DEF SweepInv, ScriptInv
  <1>5. ~script.failed => passed = (1..((script.at + 1) - 1)) \ Uninstalls
    BY <1>1, <1>3, TestList DEF SweepInv, ScriptInv
  <1>6. ScriptInv'
    BY <1>1, <1>3, <1>4, <1>5, TestList DEF SweepInv, ScriptInv
  <1> QED BY <1>1, <1>2, <1>4, <1>6, ScriptMoves

LEMMA FinishKeeps ==
  ASSUME SweepInv, Finish
  PROVE  SweepInv'
  <1>1. Idle /\ proc = NoProc /\ script.exit = "none" /\ script.at = Len(Tests) + 1
    BY DEF Finish, Idle
  <1>2. CASE runGoTest("uninstall")
    <2>1. ~Listed(script.at) /\ "uninstall" \in Programs
      BY <1>1, TestList DEF Listed, Programs
    <2> QED BY <1>1, <1>2, <2>1, Launches
  <1>3. CASE /\ Uninstalls = {} \/ (script.failed /\ cfg.onFail = "stop")
             /\ Exit(Verdict) /\ UNCHANGED <<cfg, left, doomed, ms, pools, passed>>
    <2>1. /\ proc' = NoProc /\ UNCHANGED <<cfg, left, passed>> /\ Tests' = Tests /\ Uninstalls' = Uninstalls
          /\ script' = [script EXCEPT !.exit = Verdict]
      BY <1>1, <1>3 DEF Exit, Tests, Uninstalls
    <2>2. ~script.failed => Swept
      BY <1>1 DEF SweepInv, DirtInv
    <2>3. /\ DOMAIN script' = {"at", "failed", "fix", "exit"} /\ script'.at = script.at
          /\ script'.failed = script.failed /\ script'.fix = script.fix /\ script'.exit = Verdict
      BY <2>1 DEF SweepInv, ScriptInv
    <2>4. Verdict # "none" /\ (Verdict = "ok" => ~script.failed)
      BY DEF Verdict
    <2>5. ~script.failed => passed = 1..Len(Tests)
      <3> SUFFICES ASSUME ~script.failed PROVE passed = 1..Len(Tests)
        OBVIOUS
      <3>1. passed = (1..(script.at - 1)) \ Uninstalls
        BY <1>1 DEF SweepInv, ScriptInv
      <3>2. Uninstalls = {} /\ script.at - 1 = Len(Tests)
        BY <1>1, <1>3, TestList
      <3> QED BY <3>1, <3>2
    <2>6. ScriptInv'
      BY <2>1, <2>3, <2>4, <2>5 DEF SweepInv, ScriptInv
    <2> QED BY <2>1, <2>2, <2>3, <2>6, ScriptMoves
  <1> QED BY <1>2, <1>3 DEF Finish

LEMMA TestEndsKeeps ==
  ASSUME SweepInv, TestEnds
  PROVE  SweepInv'
  <1> DEFINE fix == IF proc.name = "install" THEN << >>
                    ELSE CASE cfg.onFail = "restart" -> <<"restart">>
                           [] cfg.onFail = "reinstall" -> <<"cleanup", "uninstall", "install">>
                           [] OTHER -> << >>
             at == IF proc.name = "install" THEN script.at + 1
                   ELSE IF cfg.onFail \in {"restart", "reinstall"} THEN script.at ELSE Len(Tests) + 1
  <1>1. /\ proc # NoProc /\ proc.todo = << >> /\ Listed(script.at) /\ script.at <= Len(Tests)
        /\ proc' = NoProc /\ UNCHANGED <<cfg, left>> /\ Tests' = Tests /\ Uninstalls' = Uninstalls
        /\ passed' = IF proc.failed THEN passed ELSE passed \cup {script.at}
        /\ script.fix = << >>
    BY DEF TestEnds, Ended, Listed, Tests, Uninstalls
  <1>2. script.at \in 1..Len(Tests) /\ script.exit = "none" /\ Tests[script.at] # "uninstall"
        /\ DOMAIN script = {"at", "failed", "fix", "exit"} /\ cfg \in Configs
    BY <1>1, TestList DEF SweepInv, ScriptInv
  <1>3. CASE proc.failed
    <2>1. script' = [script EXCEPT !.failed = TRUE, !.fix = fix, !.at = at]
      BY <1>3 DEF TestEnds
    <2>2. /\ fix \in Fixes
          /\ at \in 1..(Len(Tests) + 1) /\ (fix # << >> => at <= Len(Tests))
      <3>1. fix \in {<< >>, <<"restart">>, <<"cleanup", "uninstall", "install">>}
        OBVIOUS
      <3>2. fix # << >> => proc.name # "install" /\ cfg.onFail \in {"restart", "reinstall"}
        OBVIOUS
      <3> HIDE DEF fix
      <3> QED BY <1>2, <3>1, <3>2, TestList DEF Fixes
    <2> HIDE DEF fix, at
    <2>3. /\ DOMAIN script' = {"at", "failed", "fix", "exit"} /\ script'.at = at
          /\ script'.failed /\ script'.fix = fix /\ script'.exit = "none"
      BY <1>2, <2>1
    <2>4. ScriptInv'
      BY <1>1, <1>2, <2>2, <2>3 DEF ScriptInv
    <2> QED BY <1>1, <2>3, <2>4, ScriptMoves
  <1>4. CASE ~proc.failed
    <2>1. script' = [script EXCEPT !.at = @ + 1]
      BY <1>4 DEF TestEnds
    <2>2. /\ DOMAIN script' = {"at", "failed", "fix", "exit"} /\ script'.at = script.at + 1
          /\ script'.failed = script.failed /\ script'.fix = << >> /\ script'.exit = "none"
      BY <1>1, <1>2, <2>1
    <2>3. ~script.failed => passed' = (1..((script.at + 1) - 1)) \ Uninstalls
      <3> SUFFICES ASSUME ~script.failed PROVE passed' = (1..((script.at + 1) - 1)) \ Uninstalls
        OBVIOUS
      <3>1. passed = (1..(script.at - 1)) \ Uninstalls
        BY <1>2 DEF SweepInv, ScriptInv
      <3>2. passed' = passed \cup {script.at} /\ script.at \notin Uninstalls
        BY <1>1, <1>2, <1>4, TestList
      <3>3. 1..((script.at + 1) - 1) = (1..(script.at - 1)) \cup {script.at}
        BY <1>2, TestList
      <3> QED BY <3>1, <3>2, <3>3
    <2>4. ~script.failed => Swept
      <3>1. ~Pending(proc.todo)
        <4>1. Len(proc.todo) = 0
          BY <1>1
        <4> QED BY <4>1 DEF Pending
      <3> QED BY <1>4, <3>1 DEF SweepInv, DirtInv
    <2>5. script.at + 1 \in 1..(Len(Tests) + 1) /\ << >> \in Fixes
      BY <1>2, TestList DEF Fixes
    <2>6. ScriptInv'
      BY <1>1, <1>2, <2>2, <2>3, <2>5 DEF ScriptInv
    <2> QED BY <1>1, <2>2, <2>4, <2>6, ScriptMoves
  <1> QED BY <1>3, <1>4

LEMMA FixEndsKeeps ==
  ASSUME SweepInv, FixEnds
  PROVE  SweepInv'
  <1> DEFINE at == IF Len(script.fix) = 1 THEN script.at + 1 ELSE script.at
  <1>1. /\ proc # NoProc /\ script.fix # << >>
        /\ proc' = NoProc /\ UNCHANGED <<cfg, left, passed>> /\ Tests' = Tests /\ Uninstalls' = Uninstalls
    BY DEF FixEnds, Ended, Tests, Uninstalls
  <1>2. /\ script.failed /\ script.at \in 1..Len(Tests) /\ script.exit = "none" /\ script.fix \in Fixes
        /\ DOMAIN script = {"at", "failed", "fix", "exit"} /\ cfg \in Configs
    BY <1>1, TestList DEF SweepInv, ScriptInv
  <1>3. /\ DOMAIN script' = {"at", "failed", "fix", "exit"} /\ script'.failed
        /\ \/ script'.exit = "failed" /\ script'.fix = script.fix /\ script'.at = script.at
           \/ script'.exit = "none" /\ script'.fix = Tail(script.fix) /\ script'.at = at
    <2>1. \/ script' = [script EXCEPT !.exit = "failed"]
          \/ script' = [script EXCEPT !.fix = Tail(script.fix), !.at = at]
      BY DEF FixEnds
    <2> HIDE DEF at
    <2> QED BY <1>2, <2>1, Zenon
  <1>4. /\ Tail(script.fix) \in Fixes /\ at \in 1..(Len(Tests) + 1)
        /\ Tail(script.fix) # << >> => at <= Len(Tests)
    <2>1. Tail(script.fix) \in Fixes /\ (Len(script.fix) = 1 <=> Tail(script.fix) = << >>)
      BY <1>1, <1>2, FixNames
    <2>2. Len(Tests) \in Nat
      BY TestList
    <2> QED BY <1>2, <2>1, <2>2
  <1> HIDE DEF at
  <1>5. script.at \in 1..(Len(Tests) + 1) /\ script.at <= Len(Tests)
    BY <1>2, TestList
  <1>6. ScriptInv'
    BY <1>1, <1>2, <1>3, <1>4, <1>5, Zenon DEF ScriptInv
  <1> QED BY <1>1, <1>3, <1>6, ScriptMoves

LEMMA UninstallEndsKeeps ==
  ASSUME SweepInv, UninstallEnds
  PROVE  SweepInv'
  <1> DEFINE exit == IF proc.failed THEN "failed" ELSE IF script.failed THEN "failed_cluster_ok" ELSE "ok"
  <1>1. /\ proc # NoProc /\ proc.todo = << >> /\ script.fix = << >> /\ script.at = Len(Tests) + 1
        /\ proc' = NoProc /\ UNCHANGED <<cfg, left>> /\ Tests' = Tests /\ Uninstalls' = Uninstalls
        /\ passed' = IF proc.failed THEN passed ELSE passed \cup Uninstalls
        /\ script' = [script EXCEPT !.failed = script.failed \/ proc.failed, !.exit = exit]
    BY DEF UninstallEnds, Ended, Tests, Uninstalls
  <1>2. exit # "none" /\ (exit = "ok" => ~proc.failed /\ ~script.failed)
    OBVIOUS
  <1> HIDE DEF exit
  <1>3. /\ DOMAIN script = {"at", "failed", "fix", "exit"} /\ script.exit = "none" /\ cfg \in Configs
        /\ script.at \in 1..(Len(Tests) + 1) /\ script.fix \in Fixes
    BY <1>1 DEF SweepInv, ScriptInv
  <1>4. /\ DOMAIN script' = {"at", "failed", "fix", "exit"} /\ script'.at = script.at
        /\ script'.failed = (script.failed \/ proc.failed) /\ script'.fix = << >> /\ script'.exit = exit
    BY <1>1, <1>3
  <1>5. exit = "ok" => passed' = 1..Len(Tests)
    <2> SUFFICES ASSUME exit = "ok" PROVE passed' = 1..Len(Tests)
      OBVIOUS
    <2>1. passed = (1..(script.at - 1)) \ Uninstalls
      BY <1>2, <1>3 DEF SweepInv, ScriptInv
    <2>2. script.at - 1 = Len(Tests) /\ Uninstalls \subseteq 1..Len(Tests) /\ passed' = passed \cup Uninstalls
      BY <1>1, <1>2, TestList
    <2> QED BY <2>1, <2>2, Zenon
  <1>6. ~script'.failed => Swept
    <2>1. ~Pending(proc.todo)
      <3>1. Len(proc.todo) = 0
        BY <1>1
      <3> QED BY <3>1 DEF Pending
    <2> QED BY <1>4, <2>1, Zenon DEF SweepInv, DirtInv
  <1>7. ScriptInv'
    BY <1>1, <1>2, <1>3, <1>4, <1>5, Zenon DEF ScriptInv
  <1> QED BY <1>1, <1>6, <1>7, ScriptMoves

-----------------------------------------------------------------------------
(* Results                                                                 *)

LEMMA SweepStart == Init => SweepInv
  <1> SUFFICES ASSUME Init PROVE SweepInv
    OBVIOUS
  <1>1. proc = NoProc /\ left = {} /\ passed = {} /\ cfg \in Configs
        /\ script = [at |-> 1, failed |-> FALSE, fix |-> << >>, exit |-> "none"]
    BY DEF Init
  <1>2. Len(Tests) \in Nat
    <2>1. Tests \in Seq({"install", "directory", "uninstall"})
      BY <1>1, HarnessAssumption DEF Config, Tests
    <2> QED BY <2>1, LenProperties
  <1>3. ScriptInv
    BY <1>1, <1>2 DEF ScriptInv, Fixes
  <1> QED BY <1>1, <1>3 DEF SweepInv, ProcInv, DirtInv, Swept

LEMMA SweepStep == SweepInv /\ [Next]_vars => SweepInv'
  <1> SUFFICES ASSUME SweepInv, [Next]_vars PROVE SweepInv'
    OBVIOUS
  <1>1. CASE ClusterStep
    BY <1>1, ClusterKeeps
  <1>2. CASE ProcStep
    BY <1>2, Look, Acts, MarksKeep, BeforeKeeps, PrecheckKeeps, CheckedKeeps, ItKeeps, AfterKeeps,
       RecheckedKeeps, KilledKeeps DEF ProcStep
  <1>3. CASE ScriptStep
    BY <1>3, NextTestKeeps, DeferKeeps, NextFixKeeps, FinishKeeps, TestEndsKeeps, FixEndsKeeps,
       UninstallEndsKeeps DEF ScriptStep
  <1>4. CASE UNCHANGED vars
    BY <1>4, LessLeft DEF vars
  <1> QED BY <1>1, <1>2, <1>3, <1>4 DEF Next

LEMMA SweepHolds == Spec => []SweepInv
  BY SweepStart, SweepStep, PTL DEF Spec

\* BeforeEachCheck lets a test case start only in a cluster that holds none of what
\* resourceCheck cannot miss: the answer of the check is still true when the case
\* starts, on every path through restart, restore and retry, whatever fails, for any
\* list of tests, any pods of Mayastor and any number of cases.
THEOREM CasesStartSwept == Spec => []SweptAtStart
  <1>1. SweepInv => SweptAtStart
    <2> SUFFICES ASSUME SweepInv, Doing("it") PROVE left \cap Detected = {}
      BY DEF SweptAtStart
    <2>1. proc # NoProc /\ proc.todo # << >> /\ proc.todo[1].do = "it"
      BY DoingHead DEF Busy
    <2> QED BY <2>1 DEF SweepInv, ProcInv, Swept
  <1> QED BY <1>1, SweepHolds, PTL

\* e2e-test.sh says "All tests have PASSED!" only when every test of its list has run
\* and has passed, the deferred uninstall too, and nothing that the checks cannot miss
\* is left in the cluster: what a case has left behind fails a check after it, and no
\* failure of a process or of a check is lost on the way to the exit status.
THEOREM PassIsTrue == Spec => []PassedMeansSwept
  <1>1. SweepInv => PassedMeansSwept
    BY DEF SweepInv, ScriptInv, DirtInv, PassedMeansSwept, Swept
  <1> QED BY <1>1, SweepHolds, PTL
=============================================================================
