--------------------------- MODULE ScenariosProofs ---------------------------
(***************************************************************************)
(* Proofs about Scenarios for every choice and order of scenarios, any     *)
(* number of failing steps and any number of containers that exit.         *)
(***************************************************************************)
EXTENDS Scenarios, FiniteSetTheorems, SequenceTheorems, TLAPS

-----------------------------------------------------------------------------
(* Steps and sequences of steps.                                           *)

Containers == Clients \cup Servers \cup Dns \cup {"dhcp-server"}
Switches == {"netem", "resolver", "root", "exam", "slowsend"}
Ops == {"capture", "uncapture", "on", "off", "recreate", "ensure", "restart",
        "setStart", "clearStart", "sim", "dig"}
Args == Containers \cup Switches \cup {None} \cup SUBSET Servers

Adding(st) == st.op \in {"capture", "on"}
Removing(st) == st.op \in {"uncapture", "off"}

Legal(st) == /\ Adding(st) => st.arg \in Containers \cup Switches
             /\ st.op \in {"recreate", "ensure"} => st.arg \in Clients
             /\ st.op = "sim" => st.arg \subseteq Servers
             /\ st.op = "setStart" => st.checked = TRUE

Step == {st \in [op : Ops, arg : Args, checked : BOOLEAN] : Legal(st)}

\* What s switches on or captures it takes back later, except what is in D.
Leaves(s, D) ==
  \A k \in DOMAIN s : Adding(s[k]) =>
    \/ s[k].arg \in D
    \/ \E i \in DOMAIN s : i > k /\ Removing(s[i]) /\ s[i].arg = s[k].arg

Removes(s, R) == \A d \in R : \E i \in DOMAIN s : Removing(s[i]) /\ s[i].arg = d

\* No step from a to b, exclusively, removes the start.
Undisturbed(s, a, b) == \A k \in DOMAIN s : a < k /\ k < b => s[k].op # "clearStart"

\* The start is set ahead of position b and not removed before.
SetBefore(s, b) ==
  \E j \in DOMAIN s : j < b /\ s[j].op = "setStart" /\ Undisturbed(s, j, b)

Own(s) == \A i \in DOMAIN s : s[i].op = "sim" => SetBefore(s, i)
Ready(s) == SetBefore(s, Len(s) + 1)
Clearless(s) == \A k \in DOMAIN s : s[k].op # "clearStart"
Simless(s) == \A k \in DOMAIN s : s[k].op # "sim"

\* Students sit once, after more steps than a round of earlier ones outlasts.
Lone(s) == \A i, j \in DOMAIN s : s[i].op = "sim" /\ s[j].op = "sim" => i = j
Late(s) == \A i \in DOMAIN s : s[i].op = "sim" => i > 5
Spaced(s) == Lone(s) /\ Late(s)

-----------------------------------------------------------------------------
(* Putting sequences of steps together.                                    *)

\* What holds of two parts holds of the whole.
LEMMA Concat ==
  ASSUME NEW a \in Seq(Step), NEW b \in Seq(Step)
  PROVE  /\ a \o b \in Seq(Step)
         /\ \A D, F, R : Leaves(a, D) /\ Leaves(b, F) /\ Removes(b, R)
                          => Leaves(a \o b, (D \ R) \cup F)
         /\ Own(a) /\ Own(b) => Own(a \o b)
         /\ Own(a) /\ Ready(a) /\ Clearless(b) => Own(a \o b)
         /\ Ready(a) /\ Clearless(b) => Ready(a \o b)
         /\ Ready(b) => Ready(a \o b)
<1> DEFINE c == a \o b
           m == Len(a)
           n == Len(b)
<1>1. m \in Nat /\ n \in Nat /\ DOMAIN a = 1..m /\ DOMAIN b = 1..n
  BY LenProperties
<1>2. /\ c \in Seq(Step) /\ Len(c) = m + n /\ DOMAIN c = 1..(m + n)
      /\ \A i \in 1..(m + n) : c[i] = IF i <= m THEN a[i] ELSE b[i - m]
  BY ConcatProperties, LenProperties
<1>3. /\ \A i \in 1..m : i \in DOMAIN c /\ c[i] = a[i]
      /\ \A i \in 1..n : i + m \in DOMAIN c /\ c[i + m] = b[i]
      /\ \A i \in DOMAIN c : i \in 1..m \/ (i - m \in 1..n /\ i = (i - m) + m)
  <2>1. \A i \in 1..m : i \in 1..(m + n) /\ i <= m
    BY <1>1
  <2>2. \A i \in 1..n : i + m \in 1..(m + n) /\ ~(i + m <= m) /\ i + m - m = i
    BY <1>1
  <2>3. \A i \in 1..(m + n) : i \in 1..m \/ (i - m \in 1..n /\ i = (i - m) + m)
    BY <1>1
  <2> HIDE DEF c, m, n
  <2>4. \A i \in 1..m : c[i] = a[i]
    BY <1>2, <2>1
  <2>5. \A i \in 1..n : c[i + m] = b[i]
    <3> TAKE i \in 1..n
    <3>1. \A k \in 1..(m + n) : ~(k <= m) => c[k] = b[k - m]
      BY <1>2
    <3>2. PICK k \in 1..(m + n) : k = i + m /\ ~(k <= m) /\ k - m = i
      BY <1>1
    <3>3. QED BY <3>1, <3>2
  <2>6. QED BY <1>2, <2>1, <2>2, <2>3, <2>4, <2>5
<1> HIDE DEF c, m, n
<1>4. ASSUME NEW D, NEW F, NEW R, Leaves(a, D), Leaves(b, F), Removes(b, R)
      PROVE  Leaves(c, (D \ R) \cup F)
  <2> SUFFICES ASSUME NEW k \in DOMAIN c, Adding(c[k])
               PROVE  \/ c[k].arg \in (D \ R) \cup F
                      \/ \E i \in DOMAIN c : i > k /\ Removing(c[i]) /\ c[i].arg = c[k].arg
    BY DEF Leaves
  <2>1. CASE k \in 1..m
    <3>1. c[k] = a[k] /\ k \in DOMAIN a /\ Adding(a[k])
      BY <1>1, <1>3, <2>1
    <3>2. CASE a[k].arg \in R
      <4>1. PICK i \in 1..n : Removing(b[i]) /\ b[i].arg = a[k].arg
        BY <1>1, <1>4, <3>2 DEF Removes
      <4>2. i + m \in DOMAIN c /\ c[i + m] = b[i] /\ i + m > k
        BY <1>1, <1>3, <2>1
      <4>3. QED BY <3>1, <4>1, <4>2
    <3>3. CASE a[k].arg \in D \ R
      BY <3>1, <3>3
    <3>4. CASE a[k].arg \notin D
      <4>1. PICK i \in 1..m : i > k /\ Removing(a[i]) /\ a[i].arg = a[k].arg
        BY <1>1, <1>4, <3>1, <3>4 DEF Leaves
      <4>2. i \in DOMAIN c /\ c[i] = a[i]
        BY <1>3
      <4>3. QED BY <3>1, <4>1, <4>2
    <3>5. QED BY <3>2, <3>3, <3>4
  <2>2. CASE k - m \in 1..n /\ k = (k - m) + m
    <3> DEFINE j == k - m
    <3>1. c[k] = b[j] /\ j \in DOMAIN b /\ Adding(b[j])
      BY <1>1, <1>3, <2>2
    <3>2. CASE b[j].arg \in F
      BY <3>1, <3>2
    <3>3. CASE b[j].arg \notin F
      <4>1. PICK i \in 1..n : i > j /\ Removing(b[i]) /\ b[i].arg = b[j].arg
        BY <1>1, <1>4, <3>1, <3>3 DEF Leaves
      <4>2. i + m \in DOMAIN c /\ c[i + m] = b[i] /\ i + m > k
        BY <1>1, <1>3, <2>2, <4>1
      <4>3. QED BY <3>1, <4>1, <4>2
    <3>4. QED BY <3>2, <3>3
  <2>3. QED BY <1>3, <2>1, <2>2
\* The start set in the first part, seen from it.
<1>5. ASSUME NEW i \in 1..m, SetBefore(a, i)
      PROVE  SetBefore(c, i)
  <2>1. PICK j \in 1..m : j < i /\ a[j].op = "setStart" /\ Undisturbed(a, j, i)
    BY <1>1, <1>5 DEF SetBefore
  <2>2. ASSUME NEW k \in DOMAIN c, j < k, k < i PROVE c[k].op # "clearStart"
    <3>1. k \in 1..m
      BY <1>1, <1>3, <2>2
    <3>2. QED BY <1>1, <1>3, <2>1, <2>2, <3>1 DEF Undisturbed
  <2>3. QED BY <1>3, <2>1, <2>2 DEF SetBefore, Undisturbed
\* The start set in the second part.
<1>6. ASSUME NEW i \in 1..(n + 1), SetBefore(b, i)
      PROVE  SetBefore(c, i + m)
  <2>1. PICK j \in 1..n : j < i /\ b[j].op = "setStart" /\ Undisturbed(b, j, i)
    BY <1>1, <1>6 DEF SetBefore
  <2>2. j + m \in DOMAIN c /\ c[j + m] = b[j] /\ j + m < i + m
    BY <1>1, <1>3, <2>1
  <2>3. ASSUME NEW k \in DOMAIN c, j + m < k, k < i + m PROVE c[k].op # "clearStart"
    <3>1. k - m \in 1..n /\ k = (k - m) + m /\ j < k - m /\ k - m < i
      BY <1>1, <1>2, <2>3
    <3>2. b[k - m].op # "clearStart"
      BY <1>1, <2>1, <3>1 DEF Undisturbed
    <3>3. c[(k - m) + m] = b[k - m]
      BY <1>3, <3>1
    <3>4. QED BY <3>1, <3>2, <3>3
  <2>4. QED BY <2>1, <2>2, <2>3 DEF SetBefore, Undisturbed
\* The start set in the first part, seen from the second.
<1>7. ASSUME NEW i \in 1..(n + 1), Ready(a), Clearless(b)
      PROVE  SetBefore(c, i + m)
  <2>1. PICK j \in 1..m : a[j].op = "setStart" /\ Undisturbed(a, j, m + 1)
    BY <1>1, <1>7 DEF Ready, SetBefore, m
  <2>2. j \in DOMAIN c /\ c[j] = a[j] /\ j < i + m
    BY <1>1, <1>3
  <2>3. ASSUME NEW k \in DOMAIN c, j < k PROVE c[k].op # "clearStart"
    <3>1. CASE k \in 1..m
      <4>1. k < m + 1
        BY <1>1, <3>1
      <4>2. QED BY <1>1, <1>3, <2>1, <2>3, <3>1, <4>1 DEF Undisturbed
    <3>2. CASE k - m \in 1..n /\ k = (k - m) + m
      <4>1. c[k] = b[k - m]
        BY <1>3, <3>2
      <4>2. QED BY <1>1, <1>7, <3>2, <4>1 DEF Clearless
    <3>3. QED BY <1>3, <3>1, <3>2
  <2>4. QED BY <2>1, <2>2, <2>3 DEF SetBefore, Undisturbed
<1>8. ASSUME Own(a), Own(b) \/ (Ready(a) /\ Clearless(b))
      PROVE  Own(c)
  <2> SUFFICES ASSUME NEW i \in DOMAIN c, c[i].op = "sim" PROVE SetBefore(c, i)
    BY DEF Own
  <2>1. CASE i \in 1..m
    BY <1>1, <1>3, <1>5, <1>8, <2>1 DEF Own
  <2>2. CASE i - m \in 1..n /\ i = (i - m) + m
    <3> DEFINE j == i - m
    <3>1. j \in 1..n /\ j \in 1..(n + 1) /\ i = j + m /\ b[j].op = "sim"
      BY <1>1, <1>3, <2>2
    <3> HIDE DEF j
    <3>2. SetBefore(c, j + m)
      BY <1>1, <1>6, <1>7, <1>8, <3>1 DEF Own
    <3>3. QED BY <3>1, <3>2
  <2>3. QED BY <1>3, <2>1, <2>2
<1>9. ASSUME Ready(b) \/ (Ready(a) /\ Clearless(b))
      PROVE  Ready(c)
  <2>1. n + 1 \in 1..(n + 1) /\ (n + 1) + m = Len(c) + 1
    BY <1>1, <1>2
  <2>2. SetBefore(c, (n + 1) + m)
    BY <1>6, <1>7, <1>9, <2>1 DEF Ready, n
  <2>3. QED BY <2>1, <2>2 DEF Ready
<1>10. QED BY <1>2, <1>4, <1>8, <1>9 DEF c

\* A part without students awaits no start.
LEMMA SimlessOwn ==
  ASSUME NEW s, Simless(s)
  PROVE  Own(s)
BY DEF Simless, Own

\* Where students sit in a whole of two parts.
LEMMA Spacing ==
  ASSUME NEW a \in Seq(Step), NEW b \in Seq(Step)
  PROVE  /\ a \o b \in Seq(Step)
         /\ Len(a \o b) \in Nat /\ Len(a \o b) = Len(a) + Len(b)
         /\ Len(a) \in Nat /\ Len(b) \in Nat
         /\ Simless(a) /\ Simless(b) => Simless(a \o b)
         /\ Simless(a) /\ Lone(b) => Lone(a \o b)
         /\ Simless(a) /\ Spaced(b) => Spaced(a \o b)
         /\ Simless(a) /\ Lone(b) /\ Len(a) >= 5 => Spaced(a \o b)
         /\ Spaced(a) /\ Simless(b) => Spaced(a \o b)
<1> DEFINE c == a \o b
           m == Len(a)
           n == Len(b)
<1>1. m \in Nat /\ n \in Nat /\ DOMAIN a = 1..m /\ DOMAIN b = 1..n
  BY LenProperties
<1>2. /\ c \in Seq(Step) /\ Len(c) = m + n /\ DOMAIN c = 1..(m + n)
      /\ \A i \in 1..(m + n) : c[i] = IF i <= m THEN a[i] ELSE b[i - m]
  BY ConcatProperties, LenProperties
<1> HIDE DEF c, m, n
<1>3. \A i \in DOMAIN c :
        \/ i \in DOMAIN a /\ c[i] = a[i]
        \/ i > m /\ i - m \in DOMAIN b /\ c[i] = b[i - m]
  <2> TAKE i \in DOMAIN c
  <2>1. CASE i <= m
    BY <1>1, <1>2, <2>1
  <2>2. CASE ~(i <= m)
    BY <1>1, <1>2, <2>2
  <2>3. QED BY <2>1, <2>2
<1>4. \A i \in DOMAIN c : i \in Nat
  BY <1>1, <1>2
<1>5. Simless(a) /\ Simless(b) => Simless(c)
  BY <1>3 DEF Simless
<1>6. ASSUME Simless(a), NEW i \in DOMAIN c, c[i].op = "sim"
      PROVE  i > m /\ i - m \in DOMAIN b /\ b[i - m].op = "sim"
  BY <1>3, <1>6 DEF Simless
<1>7. ASSUME Simless(a), Lone(b)
      PROVE  Lone(c)
  <2> SUFFICES ASSUME NEW i \in DOMAIN c, NEW j \in DOMAIN c,
                      c[i].op = "sim", c[j].op = "sim"
               PROVE  i = j
    BY DEF Lone
  <2>1. i - m = j - m
    BY <1>6, <1>7 DEF Lone
  <2>2. QED BY <1>1, <1>4, <2>1
<1>8. Simless(a) /\ Late(b) => Late(c)
  <2> SUFFICES ASSUME Simless(a), Late(b), NEW i \in DOMAIN c, c[i].op = "sim"
               PROVE  i > 5
    BY DEF Late
  <2>1. i - m > 5
    BY <1>6 DEF Late
  <2>2. QED BY <1>1, <1>4, <2>1
<1>9. Simless(a) /\ m >= 5 => Late(c)
  <2> SUFFICES ASSUME Simless(a), m >= 5, NEW i \in DOMAIN c, c[i].op = "sim"
               PROVE  i > 5
    BY DEF Late
  <2>1. i > m
    BY <1>6
  <2>2. QED BY <1>1, <1>4, <2>1
<1>10. ASSUME Spaced(a), Simless(b)
       PROVE  Spaced(c)
  <2>1. \A i \in DOMAIN c : c[i].op = "sim" => i \in DOMAIN a /\ a[i].op = "sim"
    BY <1>3, <1>10 DEF Simless
  <2>2. QED BY <1>10, <2>1 DEF Spaced, Lone, Late
<1>11. QED BY <1>1, <1>2, <1>5, <1>7, <1>8, <1>9, <1>10 DEF c, m, n, Spaced

LEMMA SimlessSpaced ==
  ASSUME NEW s, Simless(s)
  PROVE  Spaced(s)
BY DEF Simless, Spaced, Lone, Late

\* A single step.
LEMMA Single ==
  ASSUME NEW st \in Step
  PROVE  /\ <<st>> \in Seq(Step)
         /\ Leaves(<<st>>, {st.arg})
         /\ ~Adding(st) => Leaves(<<st>>, {})
         /\ Removing(st) => Removes(<<st>>, {st.arg})
         /\ Removes(<<st>>, {})
         /\ st.op # "clearStart" => Clearless(<<st>>)
         /\ st.op # "sim" => Own(<<st>>) /\ Simless(<<st>>)
         /\ Lone(<<st>>) /\ Len(<<st>>) = 1
         /\ st.op = "setStart" => Ready(<<st>>)
<1> DEFINE s == <<st>>
<1>1. s \in Seq(Step) /\ DOMAIN s = {1} /\ s[1] = st /\ Len(s) = 1
  OBVIOUS
<1> HIDE DEF s
<1>2. st.op = "setStart" => Ready(s)
  BY <1>1 DEF Ready, SetBefore, Undisturbed
<1>3. QED
  BY <1>1, <1>2 DEF s, Leaves, Removes, Clearless, Own, Simless, Lone

-----------------------------------------------------------------------------
(* The parts of a scenario.                                                *)

\* There are finitely many containers.
LEMMA FiniteContainers ==
  ASSUME NEW S, S \subseteq Containers
  PROVE  IsFiniteSet(S)
<1>1. \A a, b, c, d, e : IsFiniteSet({a, b, c, d, e})
  <2> TAKE a, b, c, d, e
  <2>1. IsFiniteSet({} \cup {a} \cup {b} \cup {c} \cup {d} \cup {e})
    BY FS_EmptySet, FS_AddElement
  <2>2. {} \cup {a} \cup {b} \cup {c} \cup {d} \cup {e} = {a, b, c, d, e}
    OBVIOUS
  <2>3. QED BY <2>1, <2>2
<1>2. IsFiniteSet(Clients)
  <2>1. Clients = {"client-1", "client-2", "client-3", "client-3", "client-3"}
    BY DEF Clients
  <2>2. QED BY <1>1, <2>1
<1>3. IsFiniteSet(Servers)
  <2>1. Servers = {"rudp-server-1", "rudp-server-2", "rudp-server-3",
                   "tcp-server-sync", "tcp-server-nosync"}
    BY DEF Servers, Rudp
  <2>2. QED BY <1>1, <2>1
<1>4. IsFiniteSet(Dns \cup {"dhcp-server"})
  <2>1. Dns \cup {"dhcp-server"}
          = {"dns-root", "dns-tld", "dns-auth", "dns-resolver", "dhcp-server"}
    BY DEF Dns
  <2>2. IsFiniteSet({"dns-root", "dns-tld", "dns-auth", "dns-resolver", "dhcp-server"})
    BY <1>1
  <2>3. QED BY <2>1, <2>2, Zenon
<1>5. IsFiniteSet(Clients \cup Servers \cup (Dns \cup {"dhcp-server"}))
  BY <1>2, <1>3, <1>4, FS_Union
<1>6. S \in SUBSET (Clients \cup Servers \cup (Dns \cup {"dhcp-server"}))
  BY DEF Containers
<1>7. QED BY <1>5, <1>6, FS_Subset

\* SetToSeq lists the members of a finite set.
LEMMA Listed ==
  ASSUME NEW S, IsFiniteSet(S)
  PROVE  /\ SetToSeq(S) \in Seq(S)
         /\ \A x \in S : \E i \in DOMAIN SetToSeq(S) : SetToSeq(S)[i] = x
<1> DEFINE n == Cardinality(S)
           Lists(f) == f \in [1..n -> S] /\ IsInjective(f)
<1>1. n \in Nat /\ ExistsBijection(1..n, S)
  BY FS_CardinalityType
<1>2. \E f : Lists(f)
  BY <1>1 DEF ExistsBijection, Bijection, Injection
<1>3. SetToSeq(S) = CHOOSE f \in [1..n -> S] : IsInjective(f)
  BY DEF SetToSeq
<1>4. Lists(SetToSeq(S))
  BY <1>2, <1>3
<1>5. SetToSeq(S) \in Surjection(1..n, S)
  <2>1. SetToSeq(S) \in Injection(1..n, S)
    BY <1>4 DEF Injection
  <2>2. IsFiniteSet(1..n) /\ Cardinality(1..n) = n
    BY <1>1, FS_Interval
  <2>3. QED BY <2>1, <2>2, FS_Injection
<1>6. SetToSeq(S) \in Seq(S) /\ DOMAIN SetToSeq(S) = 1..n
  BY <1>1, <1>4
<1>7. QED BY <1>5, <1>6 DEF Surjection

\* The list of a set of containers, by position.
LEMMA Members ==
  ASSUME NEW S, S \subseteq Containers
  PROVE  /\ DOMAIN SetToSeq(S) = 1..Len(SetToSeq(S)) /\ Len(SetToSeq(S)) \in Nat
         /\ \A i \in DOMAIN SetToSeq(S) : SetToSeq(S)[i] \in S
<1> DEFINE cs == SetToSeq(S)
<1>1. cs \in Seq(S)
  BY FiniteContainers, Listed
<1> HIDE DEF cs
<1>2. DOMAIN cs = 1..Len(cs) /\ Len(cs) \in Nat
  BY <1>1, LenProperties
<1>3. \A i \in DOMAIN cs : cs[i] \in S
  BY <1>1, <1>2, ElementOfSeq
<1>4. QED BY <1>2, <1>3 DEF cs

\* A list is as long as the set it lists, here of up to three members.
LEMMA Many ==
  ASSUME NEW S, S \subseteq Containers
  PROVE  /\ \A x \in S : Len(SetToSeq(S)) >= 1
         /\ \A x, y \in S : x # y => Len(SetToSeq(S)) >= 2
         /\ \A x, y, z \in S : x # y /\ x # z /\ y # z => Len(SetToSeq(S)) >= 3
<1> DEFINE cs == SetToSeq(S)
<1>1. \A x \in S : \E i \in DOMAIN cs : cs[i] = x
  BY FiniteContainers, Listed
<1>2. DOMAIN cs = 1..Len(cs) /\ Len(cs) \in Nat
  BY Members
<1> HIDE DEF cs
<1>3. \A x \in S : Len(cs) >= 1
  BY <1>1, <1>2
<1>4. ASSUME NEW x \in S, NEW y \in S, x # y
      PROVE  Len(cs) >= 2
  <2>1. PICK i \in 1..Len(cs), j \in 1..Len(cs) : cs[i] = x /\ cs[j] = y
    BY <1>1, <1>2
  <2>2. i # j
    BY <1>4, <2>1
  <2>3. QED BY <1>2, <2>2
<1>5. ASSUME NEW x \in S, NEW y \in S, NEW z \in S, x # y, x # z, y # z
      PROVE  Len(cs) >= 3
  <2>1. PICK i \in 1..Len(cs), j \in 1..Len(cs), k \in 1..Len(cs) :
          cs[i] = x /\ cs[j] = y /\ cs[k] = z
    BY <1>1, <1>2
  <2>2. i # j /\ i # k /\ j # k
    BY <1>5, <2>1
  <2>3. QED BY <1>2, <2>2
<1>6. QED BY <1>3, <1>4, <1>5 DEF cs

\* A step for each container of a set.
LEMMA ForEach ==
  ASSUME NEW S, S \subseteq Containers, NEW op, NEW s,
         s \in [DOMAIN SetToSeq(S) -> Step],
         \A i \in DOMAIN SetToSeq(S) : s[i].op = op /\ s[i].arg = SetToSeq(S)[i]
  PROVE  /\ s \in Seq(Step) /\ Len(s) = Len(SetToSeq(S))
         /\ \A i \in DOMAIN s : s[i].op = op /\ s[i].arg \in S
<1> DEFINE cs == SetToSeq(S)
<1>1. /\ DOMAIN cs = 1..Len(cs) /\ Len(cs) \in Nat
      /\ \A i \in DOMAIN cs : cs[i] \in S
  BY Members
<1>2. /\ s \in [DOMAIN cs -> Step]
      /\ \A i \in DOMAIN cs : s[i].op = op /\ s[i].arg = cs[i]
  OBVIOUS
<1> HIDE DEF cs
<1>3. s \in Seq(Step) /\ Len(s) = Len(cs)
  BY <1>1, <1>2
<1>4. QED BY <1>1, <1>2, <1>3 DEF cs

\* Sidecars are started, and taken off again.
LEMMA Captures ==
  ASSUME NEW S, S \subseteq Containers
  PROVE  /\ StartCaptures(S) \in Seq(Step)
         /\ Leaves(StartCaptures(S), S) /\ Removes(StartCaptures(S), {})
         /\ Clearless(StartCaptures(S)) /\ Own(StartCaptures(S))
         /\ StopCaptures(S) \in Seq(Step)
         /\ Leaves(StopCaptures(S), {}) /\ Removes(StopCaptures(S), S)
         /\ Clearless(StopCaptures(S)) /\ Own(StopCaptures(S))
         /\ Simless(StartCaptures(S)) /\ Simless(StopCaptures(S))
         /\ Len(StartCaptures(S)) = Len(SetToSeq(S))
<1>1. \A x \in S : Must("capture", x) \in Step /\ Do("uncapture", x) \in Step
  BY DEF Must, Do, Step, Ops, Args, Legal, Adding
<1>2. \A x : /\ Must("capture", x).op = "capture" /\ Must("capture", x).arg = x
             /\ Do("uncapture", x).op = "uncapture" /\ Do("uncapture", x).arg = x
  BY DEF Must, Do
<1>3. /\ StartCaptures(S) \in Seq(Step) /\ Len(StartCaptures(S)) = Len(SetToSeq(S))
      /\ \A i \in DOMAIN StartCaptures(S) :
           StartCaptures(S)[i].op = "capture" /\ StartCaptures(S)[i].arg \in S
  <2> DEFINE s == StartCaptures(S)
  <2>1. s = [i \in DOMAIN SetToSeq(S) |-> Must("capture", SetToSeq(S)[i])]
    BY DEF StartCaptures
  <2> HIDE DEF s
  <2>2. s \in [DOMAIN SetToSeq(S) -> Step]
    BY <1>1, <2>1, Members
  <2>3. \A i \in DOMAIN SetToSeq(S) : s[i].op = "capture" /\ s[i].arg = SetToSeq(S)[i]
    BY <1>2, <2>1
  <2>4. QED BY <2>2, <2>3, ForEach DEF s
<1>4. /\ StopCaptures(S) \in Seq(Step)
      /\ \A i \in DOMAIN StopCaptures(S) : StopCaptures(S)[i].op = "uncapture"
      /\ \A x \in S : \E i \in DOMAIN StopCaptures(S) :
           StopCaptures(S)[i].op = "uncapture" /\ StopCaptures(S)[i].arg = x
  <2> DEFINE s == StopCaptures(S)
  <2>1. s = [i \in DOMAIN SetToSeq(S) |-> Do("uncapture", SetToSeq(S)[i])]
    BY DEF StopCaptures
  <2> HIDE DEF s
  <2>2. s \in [DOMAIN SetToSeq(S) -> Step]
    BY <1>1, <2>1, Members
  <2>3. \A i \in DOMAIN SetToSeq(S) : s[i].op = "uncapture" /\ s[i].arg = SetToSeq(S)[i]
    BY <1>2, <2>1
  <2>4. \A x \in S : \E i \in DOMAIN s : s[i].op = "uncapture" /\ s[i].arg = x
    <3> TAKE x \in S
    <3>1. PICK i \in DOMAIN SetToSeq(S) : SetToSeq(S)[i] = x
      BY FiniteContainers, Listed
    <3>2. i \in DOMAIN s
      BY <2>2
    <3>3. QED BY <2>3, <3>1, <3>2
  <2>5. s \in Seq(Step) /\ \A i \in DOMAIN s : s[i].op = "uncapture"
    BY <2>2, <2>3, ForEach
  <2>6. QED BY <2>4, <2>5 DEF s
<1>5. Leaves(StartCaptures(S), S) /\ Removes(StartCaptures(S), {})
  BY <1>3 DEF Leaves, Removes
<1>6. Leaves(StopCaptures(S), {}) /\ Removes(StopCaptures(S), S)
  BY <1>4 DEF Leaves, Removes, Adding, Removing
<1>7. /\ Clearless(StartCaptures(S)) /\ Simless(StartCaptures(S))
      /\ Clearless(StopCaptures(S)) /\ Simless(StopCaptures(S))
  BY <1>3, <1>4 DEF Clearless, Simless
<1>8. QED BY <1>3, <1>4, <1>5, <1>6, <1>7, SimlessOwn

\* The clients are made sure of.
LEMMA Ensured ==
  ASSUME NEW S, S \subseteq Clients
  PROVE  /\ Ensure(S) \in Seq(Step)
         /\ Leaves(Ensure(S), {}) /\ Own(Ensure(S))
         /\ Simless(Ensure(S)) /\ Len(Ensure(S)) = Len(SetToSeq(S))
<1> DEFINE s == Ensure(S)
<1>1. \A x \in S : Must("ensure", x) \in Step
  BY DEF Must, Step, Ops, Args, Legal, Adding, Containers
<1>2. \A x : Must("ensure", x).op = "ensure" /\ Must("ensure", x).arg = x
  BY DEF Must
<1>3. s = [i \in DOMAIN SetToSeq(S) |-> Must("ensure", SetToSeq(S)[i])]
  BY DEF Ensure
<1> HIDE DEF s
<1>4. S \subseteq Containers
  BY DEF Containers
<1>5. s \in [DOMAIN SetToSeq(S) -> Step]
  BY <1>1, <1>3, <1>4, Members
<1>6. \A i \in DOMAIN SetToSeq(S) : s[i].op = "ensure" /\ s[i].arg = SetToSeq(S)[i]
  BY <1>2, <1>3
<1>7. /\ s \in Seq(Step) /\ Len(s) = Len(SetToSeq(S))
      /\ \A i \in DOMAIN s : s[i].op = "ensure"
  BY <1>4, <1>5, <1>6, ForEach
<1>8. Leaves(s, {}) /\ Simless(s)
  BY <1>7 DEF Leaves, Adding, Simless
<1>9. QED BY <1>7, <1>8, SimlessOwn DEF s

-----------------------------------------------------------------------------
(* The ten scenarios.                                                      *)

\* A tidy part takes back all it does, and lets students sit once, after the
\* start was set and rounds of earlier students are over.
Tidy(s) == s \in Seq(Step) /\ Leaves(s, {}) /\ Own(s) /\ Spaced(s)

\* Removing the start and setting a new one makes the part ready.
LEMMA NewStartFacts ==
  /\ NewStart \in Seq(Step)
  /\ Leaves(NewStart, {}) /\ Own(NewStart) /\ Ready(NewStart)
  /\ Simless(NewStart) /\ Len(NewStart) = 2
<1> DEFINE s == NewStart
<1>1. s = <<Do("clearStart", None), Must("setStart", None)>>
  BY DEF NewStart
<1>2. Do("clearStart", None) \in Step /\ Must("setStart", None) \in Step
  BY DEF Do, Must, Step, Ops, Args, Legal, Adding
<1>3. /\ s \in Seq(Step) /\ DOMAIN s = {1, 2} /\ Len(s) = 2
      /\ s[1].op = "clearStart" /\ s[2].op = "setStart"
  BY <1>1, <1>2 DEF Do, Must
<1> HIDE DEF s
<1>4. Leaves(s, {}) /\ Simless(s)
  BY <1>3 DEF Leaves, Adding, Simless
<1>5. Ready(s)
  BY <1>3 DEF Ready, SetBefore, Undisturbed
<1>6. QED BY <1>3, <1>4, <1>5, SimlessOwn DEF s

\* Clients, start, sidecars, students, sidecars off.
LEMMA ExamTidy ==
  ASSUME NEW cs, cs \subseteq Clients, cs # {},
         NEW ps, ps \subseteq Servers, ps # {}, NEW ss, ss \subseteq Servers
  PROVE  Tidy(Exam(cs, ps, ss))
<1> DEFINE S  == ps \cup cs
           a1 == Ensure(cs)
           a2 == a1 \o NewStart
           a3 == a2 \o StartCaptures(S)
           a4 == a3 \o <<Do("sim", ss)>>
           a5 == a4 \o StopCaptures(S)
<1>1. S \subseteq Containers
  BY DEF Containers
<1>2. Do("sim", ss) \in Step /\ Do("sim", ss).op = "sim" /\ ~Adding(Do("sim", ss))
  BY DEF Do, Step, Ops, Args, Legal, Adding
<1>3. /\ <<Do("sim", ss)>> \in Seq(Step)
      /\ Leaves(<<Do("sim", ss)>>, {}) /\ Removes(<<Do("sim", ss)>>, {})
      /\ Clearless(<<Do("sim", ss)>>) /\ Lone(<<Do("sim", ss)>>)
  BY <1>2, Single
<1>0. Len(SetToSeq(S)) >= 2 /\ Len(SetToSeq(cs)) >= 1
  <2>1. PICK x \in cs, y \in ps : TRUE
    OBVIOUS
  <2>2. x \in S /\ y \in S /\ x # y
    BY DEF Clients, Servers, Rudp
  <2>3. cs \subseteq Containers
    BY DEF Containers
  <2> HIDE DEF S
  <2>4. QED BY <1>1, <2>2, <2>3, Many
<1> HIDE DEF S
<1>4. a1 \in Seq(Step) /\ Leaves(a1, {}) /\ Own(a1)
  BY Ensured
<1>5. a2 \in Seq(Step) /\ Leaves(a2, {}) /\ Own(a2) /\ Ready(a2)
  <2> HIDE DEF a1
  <2>1. Removes(NewStart, {})
    BY DEF Removes
  <2>2. Leaves(a2, ({} \ {}) \cup {})
    BY <1>4, <2>1, NewStartFacts, Concat
  <2>3. QED BY <1>4, <2>2, NewStartFacts, Concat
<1>6. a3 \in Seq(Step) /\ Leaves(a3, S) /\ Own(a3) /\ Ready(a3)
  <2> HIDE DEF a2
  <2>1. Leaves(a3, ({} \ {}) \cup S)
    BY <1>1, <1>5, Captures, Concat
  <2>2. QED BY <1>1, <1>5, <2>1, Captures, Concat
<1>7. a4 \in Seq(Step) /\ Leaves(a4, S) /\ Own(a4)
  <2> HIDE DEF a3
  <2>1. Leaves(a4, (S \ {}) \cup {})
    BY <1>3, <1>6, Concat
  <2>2. QED BY <1>3, <1>6, <2>1, Concat
<1>8. a5 \in Seq(Step) /\ Leaves(a5, {}) /\ Own(a5)
  <2> HIDE DEF a4
  <2>1. Leaves(a5, (S \ S) \cup {})
    BY <1>1, <1>7, Captures, Concat
  <2>2. QED BY <1>1, <1>7, <2>1, Captures, Concat
<1>9. Spaced(a5)
  <2>1. a1 \in Seq(Step) /\ Simless(a1) /\ Len(a1) >= 1 /\ Len(a1) \in Nat
    BY <1>0, Ensured, LenProperties
  <2> HIDE DEF a1
  <2>2. Simless(a2) /\ Len(a2) >= 3 /\ Len(a2) \in Nat
    <3>1. Simless(a2) /\ Len(a2) \in Nat /\ Len(a2) = Len(a1) + Len(NewStart)
      BY <2>1, NewStartFacts, Spacing
    <3>2. QED BY <2>1, <3>1, NewStartFacts
  <2> HIDE DEF a2
  <2>3. Simless(a3) /\ Len(a3) >= 5
    BY <1>0, <1>1, <1>5, <2>2, Captures, Spacing
  <2> HIDE DEF a3
  <2>4. Spaced(a4)
    BY <1>3, <1>6, <2>3, Spacing
  <2> HIDE DEF a4
  <2>5. QED BY <1>1, <1>7, <2>4, Captures, Spacing
<1>10. QED BY <1>8, <1>9 DEF Exam, Tidy, S

\* Two and three steps.
LEMMA Pair ==
  ASSUME NEW x \in Step, NEW y \in Step
  PROVE  /\ <<x, y>> \in Seq(Step) /\ DOMAIN <<x, y>> = {1, 2} /\ Len(<<x, y>>) = 2
         /\ <<x, y>>[1] = x /\ <<x, y>>[2] = y
OBVIOUS

LEMMA Triple ==
  ASSUME NEW x \in Step, NEW y \in Step, NEW z \in Step
  PROVE  /\ <<x, y, z>> \in Seq(Step) /\ DOMAIN <<x, y, z>> = {1, 2, 3}
         /\ Len(<<x, y, z>>) = 3
         /\ <<x, y, z>>[1] = x /\ <<x, y, z>>[2] = y /\ <<x, y, z>>[3] = z
OBVIOUS

\* What is switched on around a part is switched off again.
LEMMA Around ==
  ASSUME NEW a \in Seq(Step), NEW b, Tidy(b), NEW c \in Seq(Step), NEW D,
         Leaves(a, D), Simless(a), Leaves(c, {}), Removes(c, D), Simless(c)
  PROVE  Tidy(a \o b \o c)
<1> DEFINE ab == a \o b
<1>1. Own(a) /\ Own(c)
  BY SimlessOwn
<1>2. b \in Seq(Step) /\ Leaves(b, {}) /\ Removes(b, {}) /\ Own(b)
  BY DEF Tidy, Removes
<1>3. ab \in Seq(Step) /\ Own(ab) /\ Leaves(ab, (D \ {}) \cup {})
  BY <1>1, <1>2, Concat
<1> HIDE DEF ab
<1>4. (D \ {}) \cup {} = D /\ (D \ D) \cup {} = {}
  OBVIOUS
<1>5. Leaves(ab, D)
  BY <1>3, <1>4
<1>6. ab \o c \in Seq(Step) /\ Own(ab \o c) /\ Leaves(ab \o c, (D \ D) \cup {})
  BY <1>1, <1>3, <1>5, Concat
<1>7. Spaced(ab \o c)
  <2>1. Spaced(ab)
    BY <1>2, Spacing DEF Tidy, ab
  <2>2. QED BY <1>3, <2>1, Spacing
<1>8. QED BY <1>4, <1>6, <1>7 DEF Tidy, ab

\* The first scenario takes its sidecars off, though client-1 was recreated.
LEMMA Tidy1 == Tidy(Scenario1)
<1> DEFINE S  == {"dhcp-server", "rudp-server-1"} \cup Dns
           T  == {"dhcp-server", "rudp-server-1", "client-1"} \cup Dns
           r  == Must("recreate", "client-1")
           m  == <<Must("setStart", None), Do("sim", {"rudp-server-1"}), Do("dig", None)>>
           a1 == StartCaptures(S)
           a2 == a1 \o <<r>>
           a3 == a2 \o StartCaptures({"client-1"})
           a4 == a3 \o m
           a5 == a4 \o StopCaptures(T)
<1>1. S \subseteq Containers /\ T \subseteq Containers /\ {"client-1"} \subseteq Containers
  BY DEF Containers, Clients, Servers, Rudp
<1>2. S \cup {"client-1"} = T
  OBVIOUS
<1>0. Len(SetToSeq(S)) >= 3 /\ Len(SetToSeq({"client-1"})) >= 1
  <2>1. "dhcp-server" \in S /\ "rudp-server-1" \in S /\ "dns-root" \in S
    BY DEF Dns
  <2> HIDE DEF S
  <2>2. QED BY <1>1, <2>1, Many
<1>3. /\ <<r>> \in Seq(Step) /\ Leaves(<<r>>, {}) /\ Removes(<<r>>, {}) /\ Own(<<r>>)
      /\ Simless(<<r>>) /\ Len(<<r>>) = 1
  <2>1. r \in Step /\ ~Adding(r) /\ r.op # "sim"
    BY DEF Must, Step, Ops, Args, Legal, Adding, Containers, Clients
  <2> HIDE DEF r
  <2>2. QED BY <2>1, Single
<1>4. m \in Seq(Step) /\ Leaves(m, {}) /\ Removes(m, {}) /\ Own(m) /\ Lone(m)
  <2>1. /\ Must("setStart", None) \in Step /\ Do("sim", {"rudp-server-1"}) \in Step
        /\ Do("dig", None) \in Step
    BY DEF Must, Do, Step, Ops, Args, Legal, Adding, Servers, Rudp
  <2>2. /\ m \in Seq(Step) /\ DOMAIN m = {1, 2, 3}
        /\ m[1] = Must("setStart", None) /\ m[2] = Do("sim", {"rudp-server-1"})
        /\ m[3] = Do("dig", None)
    BY <2>1, Triple
  <2> HIDE DEF m
  <2>3. m[1].op = "setStart" /\ m[2].op = "sim" /\ m[3].op = "dig"
    BY <2>2 DEF Must, Do
  <2>4. Leaves(m, {}) /\ Removes(m, {})
    BY <2>2, <2>3 DEF Leaves, Adding, Removes
  <2>5. SetBefore(m, 2)
    BY <2>2, <2>3 DEF SetBefore, Undisturbed
  <2>6. Own(m) /\ Lone(m)
    BY <2>2, <2>3, <2>5 DEF Own, Lone
  <2>7. QED BY <2>2, <2>4, <2>6
<1> HIDE DEF S, T, r, m
<1>5. a1 \in Seq(Step) /\ Leaves(a1, S) /\ Own(a1)
  BY <1>1, Captures
<1>6. a2 \in Seq(Step) /\ Leaves(a2, S) /\ Own(a2)
  <2> HIDE DEF a1
  <2>1. Leaves(a2, (S \ {}) \cup {})
    BY <1>3, <1>5, Concat
  <2>2. QED BY <1>3, <1>5, <2>1, Concat
<1>7. a3 \in Seq(Step) /\ Leaves(a3, T) /\ Own(a3)
  <2> HIDE DEF a2
  <2>1. Leaves(a3, (S \ {}) \cup {"client-1"})
    BY <1>1, <1>6, Captures, Concat
  <2>2. (S \ {}) \cup {"client-1"} = T
    BY <1>2
  <2>3. QED BY <1>1, <1>6, <2>1, <2>2, Captures, Concat
<1>8. a4 \in Seq(Step) /\ Leaves(a4, T) /\ Own(a4)
  <2> HIDE DEF a3
  <2>1. Leaves(a4, (T \ {}) \cup {})
    BY <1>4, <1>7, Concat
  <2>2. QED BY <1>4, <1>7, <2>1, Concat
<1>9. a5 \in Seq(Step) /\ Leaves(a5, {}) /\ Own(a5)
  <2> HIDE DEF a4
  <2>1. Leaves(a5, (T \ T) \cup {})
    BY <1>1, <1>8, Captures, Concat
  <2>2. QED BY <1>1, <1>8, <2>1, Captures, Concat
<1>10. Spaced(a5)
  <2>1. a1 \in Seq(Step) /\ Simless(a1) /\ Len(a1) >= 3 /\ Len(a1) \in Nat
    BY <1>0, <1>1, Captures, LenProperties
  <2> HIDE DEF a1
  <2>2. Simless(a2) /\ Len(a2) >= 4 /\ Len(a2) \in Nat
    <3>1. Simless(a2) /\ Len(a2) \in Nat /\ Len(a2) = Len(a1) + Len(<<r>>)
      BY <1>3, <2>1, Spacing
    <3>2. QED BY <1>3, <2>1, <3>1
  <2> HIDE DEF a2
  <2>3. Simless(a3) /\ Len(a3) >= 5
    BY <1>0, <1>1, <1>6, <2>2, Captures, Spacing
  <2> HIDE DEF a3
  <2>4. Spaced(a4)
    BY <1>4, <1>7, <2>3, Spacing
  <2> HIDE DEF a4
  <2>5. QED BY <1>1, <1>8, <2>4, Captures, Spacing
<1>11. QED BY <1>9, <1>10 DEF Scenario1, Tidy, S, T, r, m

\* The third takes the delay of client-2 off, and then its sidecars.
LEMMA Tidy3 == Tidy(Scenario3)
<1> DEFINE C  == {"client-1", "client-2"}
           S  == {"rudp-server-1"} \cup C
           on == Do("on", "netem")
           of == Do("off", "netem")
           si == Do("sim", TwoRudp)
           a1 == Ensure(C)
           a2 == a1 \o NewStart
           a3 == a2 \o <<on>>
           a4 == a3 \o StartCaptures(S)
           a5 == a4 \o <<si>>
           a6 == a5 \o <<of>>
           a7 == a6 \o StopCaptures(S)
<1>1. S \subseteq Containers /\ C \subseteq Clients /\ "netem" \notin S
  BY DEF Containers, Clients, Servers, Rudp
<1>2. /\ on \in Step /\ on.arg = "netem" /\ on.op # "clearStart" /\ on.op # "sim"
      /\ of \in Step /\ of.arg = "netem" /\ of.op # "sim" /\ Removing(of) /\ ~Adding(of)
      /\ si \in Step /\ si.op # "clearStart" /\ ~Adding(si)
  BY DEF Do, Step, Ops, Args, Legal, Adding, Removing, Switches, Servers, Rudp, TwoRudp
<1>0. Len(SetToSeq(S)) >= 3 /\ Len(SetToSeq(C)) >= 1
  <2>1. /\ "rudp-server-1" \in S /\ "client-1" \in S /\ "client-2" \in S
        /\ "client-1" \in C /\ C \subseteq Containers
    BY DEF Containers, Clients
  <2> HIDE DEF S, C
  <2>2. QED BY <1>1, <2>1, Many
<1> HIDE DEF S, C, on, of, si
<1>3. /\ <<on>> \in Seq(Step) /\ Leaves(<<on>>, {"netem"}) /\ Removes(<<on>>, {})
      /\ Clearless(<<on>>) /\ Own(<<on>>) /\ Simless(<<on>>) /\ Len(<<on>>) = 1
  BY <1>2, Single
<1>4. /\ <<of>> \in Seq(Step) /\ Leaves(<<of>>, {}) /\ Removes(<<of>>, {"netem"})
      /\ Own(<<of>>) /\ Simless(<<of>>)
  BY <1>2, Single
<1>5. /\ <<si>> \in Seq(Step) /\ Leaves(<<si>>, {}) /\ Removes(<<si>>, {})
      /\ Clearless(<<si>>) /\ Lone(<<si>>)
  BY <1>2, Single
<1>6. a1 \in Seq(Step) /\ Leaves(a1, {}) /\ Own(a1)
  BY <1>1, Ensured
<1>7. a2 \in Seq(Step) /\ Leaves(a2, {}) /\ Own(a2) /\ Ready(a2)
  <2> HIDE DEF a1
  <2>1. Removes(NewStart, {})
    BY DEF Removes
  <2>2. Leaves(a2, ({} \ {}) \cup {})
    BY <1>6, <2>1, NewStartFacts, Concat
  <2>3. QED BY <1>6, <2>2, NewStartFacts, Concat
<1>8. a3 \in Seq(Step) /\ Leaves(a3, {"netem"}) /\ Own(a3) /\ Ready(a3)
  <2> HIDE DEF a2
  <2>1. Leaves(a3, ({} \ {}) \cup {"netem"})
    BY <1>3, <1>7, Concat
  <2>2. QED BY <1>3, <1>7, <2>1, Concat
<1>9. a4 \in Seq(Step) /\ Leaves(a4, {"netem"} \cup S) /\ Own(a4) /\ Ready(a4)
  <2> HIDE DEF a3
  <2>1. Leaves(a4, ({"netem"} \ {}) \cup S)
    BY <1>1, <1>8, Captures, Concat
  <2>2. QED BY <1>1, <1>8, <2>1, Captures, Concat
<1>10. a5 \in Seq(Step) /\ Leaves(a5, {"netem"} \cup S) /\ Own(a5)
  <2> HIDE DEF a4
  <2>1. Leaves(a5, (({"netem"} \cup S) \ {}) \cup {})
    BY <1>5, <1>9, Concat
  <2>2. QED BY <1>5, <1>9, <2>1, Concat
<1>11. a6 \in Seq(Step) /\ Leaves(a6, S) /\ Own(a6)
  <2> HIDE DEF a5
  <2>1. Leaves(a6, (({"netem"} \cup S) \ {"netem"}) \cup {})
    BY <1>4, <1>10, Concat
  <2>2. (({"netem"} \cup S) \ {"netem"}) \cup {} = S
    BY <1>1
  <2>3. QED BY <1>4, <1>10, <2>1, <2>2, Concat
<1>12. a7 \in Seq(Step) /\ Leaves(a7, {}) /\ Own(a7)
  <2> HIDE DEF a6
  <2>1. Leaves(a7, (S \ S) \cup {})
    BY <1>1, <1>11, Captures, Concat
  <2>2. QED BY <1>1, <1>11, <2>1, Captures, Concat
<1>13. Spaced(a7)
  <2>1. a1 \in Seq(Step) /\ Simless(a1) /\ Len(a1) >= 1 /\ Len(a1) \in Nat
    BY <1>0, <1>1, Ensured, LenProperties
  <2> HIDE DEF a1
  <2>2. Simless(a2) /\ Len(a2) >= 3 /\ Len(a2) \in Nat
    <3>1. Simless(a2) /\ Len(a2) \in Nat /\ Len(a2) = Len(a1) + Len(NewStart)
      BY <2>1, NewStartFacts, Spacing
    <3>2. QED BY <2>1, <3>1, NewStartFacts
  <2> HIDE DEF a2
  <2>3. Simless(a3) /\ Len(a3) >= 4 /\ Len(a3) \in Nat
    <3>1. Simless(a3) /\ Len(a3) \in Nat /\ Len(a3) = Len(a2) + Len(<<on>>)
      BY <1>3, <1>7, <2>2, Spacing
    <3>2. QED BY <1>3, <2>2, <3>1
  <2> HIDE DEF a3
  <2>4. Simless(a4) /\ Len(a4) >= 5
    BY <1>0, <1>1, <1>8, <2>3, Captures, Spacing
  <2> HIDE DEF a4
  <2>5. Spaced(a5)
    BY <1>5, <1>9, <2>4, Spacing
  <2> HIDE DEF a5
  <2>6. Spaced(a6)
    BY <1>4, <1>10, <2>5, Spacing
  <2> HIDE DEF a6
  <2>7. QED BY <1>1, <1>11, <2>6, Captures, Spacing
<1>14. QED BY <1>12, <1>13 DEF Scenario3, Tidy, S, C, on, of, si

\* The first three steps of a part that goes on, and the last ones.
LEMMA Opening ==
  ASSUME NEW x \in Seq(Step), NEW y \in Seq(Step), Len(x) >= 3
  PROVE  /\ Len(x \o y) \in Nat /\ Len(x \o y) >= 3
         /\ \A k \in 1..3 : (x \o y)[k] = x[k]
<1>1. Len(x) \in Nat /\ Len(y) \in Nat
  BY LenProperties
<1>2. /\ Len(x \o y) = Len(x) + Len(y)
      /\ \A k \in 1..(Len(x) + Len(y)) :
           (x \o y)[k] = IF k <= Len(x) THEN x[k] ELSE y[k - Len(x)]
  BY ConcatProperties
<1>3. \A k \in 1..3 : k \in 1..(Len(x) + Len(y)) /\ k <= Len(x)
  BY <1>1
<1>4. QED BY <1>1, <1>2, <1>3

LEMMA Closing ==
  ASSUME NEW x \in Seq(Step), NEW y \in Seq(Step), Len(y) = 2
  PROVE  /\ Len(x \o y) = Len(x) + 2
         /\ \A k \in 1..2 : (x \o y)[Len(x) + k] = y[k]
<1>1. Len(x) \in Nat
  BY LenProperties
<1>2. /\ Len(x \o y) = Len(x) + 2
      /\ \A k \in 1..(Len(x) + 2) :
           (x \o y)[k] = IF k <= Len(x) THEN x[k] ELSE y[k - Len(x)]
  <2>1. /\ Len(x \o y) = Len(x) + Len(y)
        /\ \A k \in 1..(Len(x) + Len(y)) :
             (x \o y)[k] = IF k <= Len(x) THEN x[k] ELSE y[k - Len(x)]
    BY ConcatProperties
  <2>2. QED BY <2>1
<1>3. ASSUME NEW k \in 1..2 PROVE (x \o y)[Len(x) + k] = y[k]
  <2>1. PICK j \in 1..(Len(x) + 2) : j = Len(x) + k /\ ~(j <= Len(x)) /\ j - Len(x) = k
    BY <1>1
  <2>2. QED BY <1>2, <2>1
<1>4. QED BY <1>2, <1>3

\* The seventh takes its sidecars off and switches back; it opens with the two
\* switches and closes with taking them back.
LEMMA Tidy7 ==
  /\ Tidy(Scenario7)
  /\ Len(Scenario7) \in Nat /\ Len(Scenario7) >= 5
  /\ \A k \in 1..3 : Adding(Scenario7[k]) => Scenario7[k].arg \in {"resolver", "root"}
  /\ Scenario7[Len(Scenario7) - 1] = Must("off", "resolver")
  /\ Scenario7[Len(Scenario7)] = Do("off", "root")
<1> DEFINE a1 == <<Must("on", "resolver"), Must("on", "root"), Must("restart", "dns-resolver")>>
           d  == Do("dig", None)
           b  == <<Must("off", "resolver"), Do("off", "root")>>
           a2 == a1 \o StartCaptures(Dns)
           a3 == a2 \o <<d>>
           a4 == a3 \o StopCaptures(Dns)
           a5 == a4 \o b
           R  == {"resolver", "root"}
<1>1. Dns \subseteq Containers /\ R \cap Dns = {}
  BY DEF Containers, Dns
<1>2. /\ <<d>> \in Seq(Step) /\ Leaves(<<d>>, {}) /\ Removes(<<d>>, {}) /\ Own(<<d>>)
      /\ Simless(<<d>>)
  <2>1. d \in Step /\ ~Adding(d) /\ d.op # "sim"
    BY DEF Do, Step, Ops, Args, Legal, Adding
  <2> HIDE DEF d
  <2>2. QED BY <2>1, Single
<1>3. /\ a1 \in Seq(Step) /\ Len(a1) = 3 /\ Leaves(a1, R) /\ Own(a1) /\ Simless(a1)
      /\ \A k \in 1..3 : Adding(a1[k]) => a1[k].arg \in R
  <2>1. /\ Must("on", "resolver") \in Step /\ Must("on", "root") \in Step
        /\ Must("restart", "dns-resolver") \in Step
    BY DEF Must, Step, Ops, Args, Legal, Adding, Switches, Containers, Dns
  <2>2. /\ a1 \in Seq(Step) /\ DOMAIN a1 = {1, 2, 3} /\ Len(a1) = 3
        /\ a1[1] = Must("on", "resolver") /\ a1[2] = Must("on", "root")
        /\ a1[3] = Must("restart", "dns-resolver")
    BY <2>1, Triple
  <2> HIDE DEF a1
  <2>3. /\ a1[1].op = "on" /\ a1[1].arg = "resolver"
        /\ a1[2].op = "on" /\ a1[2].arg = "root" /\ a1[3].op = "restart"
    BY <2>2 DEF Must
  <2>4. Leaves(a1, R)
    BY <2>2, <2>3 DEF Leaves, Adding
  <2>5. Simless(a1)
    BY <2>2, <2>3 DEF Simless
  <2>6. \A k \in 1..3 : k \in {1, 2, 3}
    OBVIOUS
  <2>7. QED BY <2>2, <2>3, <2>4, <2>5, <2>6, SimlessOwn DEF Adding
<1>4. /\ b \in Seq(Step) /\ Len(b) = 2 /\ Leaves(b, {}) /\ Removes(b, R) /\ Own(b)
      /\ Simless(b)
      /\ b[1] = Must("off", "resolver") /\ b[2] = Do("off", "root")
  <2>1. Must("off", "resolver") \in Step /\ Do("off", "root") \in Step
    BY DEF Must, Do, Step, Ops, Args, Legal, Adding, Switches
  <2>2. /\ b \in Seq(Step) /\ DOMAIN b = {1, 2} /\ Len(b) = 2
        /\ b[1] = Must("off", "resolver") /\ b[2] = Do("off", "root")
    BY <2>1, Pair
  <2> HIDE DEF b
  <2>3. b[1].op = "off" /\ b[1].arg = "resolver" /\ b[2].op = "off" /\ b[2].arg = "root"
    BY <2>2 DEF Must, Do
  <2>4. Leaves(b, {}) /\ Removes(b, R) /\ Simless(b)
    BY <2>2, <2>3 DEF Leaves, Adding, Removes, Removing, Simless
  <2>5. QED BY <2>2, <2>4, SimlessOwn
<1> HIDE DEF a1, b, d, R
<1>5. a2 \in Seq(Step) /\ Leaves(a2, R \cup Dns) /\ Own(a2)
  <2>1. Leaves(a2, (R \ {}) \cup Dns)
    BY <1>1, <1>3, Captures, Concat
  <2>2. QED BY <1>1, <1>3, <2>1, Captures, Concat
<1>6. a3 \in Seq(Step) /\ Leaves(a3, R \cup Dns) /\ Own(a3)
  <2> HIDE DEF a2
  <2>1. Leaves(a3, ((R \cup Dns) \ {}) \cup {})
    BY <1>2, <1>5, Concat
  <2>2. QED BY <1>2, <1>5, <2>1, Concat
<1>7. a4 \in Seq(Step) /\ Leaves(a4, R) /\ Own(a4)
  <2> HIDE DEF a3
  <2>1. Leaves(a4, ((R \cup Dns) \ Dns) \cup {})
    BY <1>1, <1>6, Captures, Concat
  <2>2. ((R \cup Dns) \ Dns) \cup {} = R
    BY <1>1
  <2>3. QED BY <1>1, <1>6, <2>1, <2>2, Captures, Concat
<1>8. a5 \in Seq(Step) /\ Leaves(a5, {}) /\ Own(a5)
  <2> HIDE DEF a4
  <2>1. Leaves(a5, (R \ R) \cup {})
    BY <1>4, <1>7, Concat
  <2>2. QED BY <1>4, <1>7, <2>1, Concat
<1>9. StartCaptures(Dns) \in Seq(Step) /\ StopCaptures(Dns) \in Seq(Step)
  BY <1>1, Captures
<1>10. /\ Len(a4) \in Nat /\ Len(a4) >= 3 /\ \A k \in 1..3 : a4[k] = a1[k]
  <2>1. Len(a2) \in Nat /\ Len(a2) >= 3 /\ \A k \in 1..3 : a2[k] = a1[k]
    <3>1. Len(a1) >= 3
      BY <1>3
    <3>2. QED BY <1>3, <1>9, <3>1, Opening, Zenon
  <2> HIDE DEF a2
  <2>2. Len(a3) \in Nat /\ Len(a3) >= 3 /\ \A k \in 1..3 : a3[k] = a1[k]
    BY <1>2, <1>5, <2>1, Opening
  <2> HIDE DEF a3
  <2>3. QED BY <1>6, <1>9, <2>2, Opening
<1> HIDE DEF a4
<1>11. /\ Len(a5) = Len(a4) + 2
       /\ \A k \in 1..3 : a5[k] = a1[k]
       /\ a5[Len(a4) + 1] = b[1] /\ a5[Len(a4) + 2] = b[2]
  <2>1. \A k \in 1..3 : a5[k] = a4[k]
    BY <1>4, <1>7, <1>10, Opening
  <2>2. Len(a5) = Len(a4) + 2 /\ \A k \in 1..2 : a5[Len(a4) + k] = b[k]
    BY <1>4, <1>7, Closing
  <2>3. 1 \in 1..2 /\ 2 \in 1..2
    OBVIOUS
  <2>4. QED BY <1>10, <2>1, <2>2, <2>3
<1>12. Len(a4) + 1 = Len(a5) - 1 /\ Len(a4) + 2 = Len(a5) /\ Len(a5) \in Nat /\ Len(a5) >= 5
  BY <1>10, <1>11
<1>15. Spaced(a5)
  <2>1. a2 \in Seq(Step) /\ Simless(a2)
    BY <1>1, <1>3, Captures, Spacing
  <2>2. a4 \in Seq(Step) /\ Simless(a4)
    <3> HIDE DEF a2
    <3>1. Simless(a3)
      BY <1>2, <2>1, Spacing
    <3> HIDE DEF a3
    <3>2. QED BY <1>1, <1>6, <3>1, Captures, Spacing DEF a4
  <2>3. QED BY <1>4, <2>2, Spacing, SimlessSpaced
<1>13. Scenario7 = a5
  BY DEF Scenario7, a1, a4, b, d
<1> HIDE DEF a5
<1>14. QED BY <1>3, <1>4, <1>8, <1>11, <1>12, <1>13, <1>15 DEF Tidy, R

\* The eighth slows the sending down and speeds it up again; it opens with a
\* restart.
LEMMA Tidy8 ==
  /\ Tidy(Scenario8)
  /\ Scenario8 # <<>> /\ Scenario8[1].op = "restart"
<1> DEFINE a == <<Must("restart", "rudp-server-1"), Must("on", "exam"), Must("on", "slowsend")>>
           e == Exam({"client-1"}, {"rudp-server-1"}, {"rudp-server-1"})
           c == <<Do("off", "slowsend"), Do("off", "exam")>>
           D == {"exam", "slowsend"}
<1>1. Tidy(e)
  BY ExamTidy DEF Clients, Servers, Rudp
<1>2. /\ a \in Seq(Step) /\ Len(a) = 3 /\ Leaves(a, D) /\ Simless(a)
      /\ a[1].op = "restart"
  <2>1. /\ Must("restart", "rudp-server-1") \in Step /\ Must("on", "exam") \in Step
        /\ Must("on", "slowsend") \in Step
    BY DEF Must, Step, Ops, Args, Legal, Adding, Switches, Containers, Servers, Rudp
  <2>2. /\ a \in Seq(Step) /\ DOMAIN a = {1, 2, 3} /\ Len(a) = 3
        /\ a[1] = Must("restart", "rudp-server-1") /\ a[2] = Must("on", "exam")
        /\ a[3] = Must("on", "slowsend")
    BY <2>1, Triple
  <2> HIDE DEF a
  <2>3. /\ a[1].op = "restart" /\ a[2].op = "on" /\ a[2].arg = "exam"
        /\ a[3].op = "on" /\ a[3].arg = "slowsend"
    BY <2>2 DEF Must
  <2>4. QED BY <2>2, <2>3 DEF Leaves, Adding, Simless
<1>3. c \in Seq(Step) /\ Leaves(c, {}) /\ Removes(c, D) /\ Simless(c)
  <2>1. Do("off", "slowsend") \in Step /\ Do("off", "exam") \in Step
    BY DEF Do, Step, Ops, Args, Legal, Adding, Switches
  <2>2. /\ c \in Seq(Step) /\ DOMAIN c = {1, 2}
        /\ c[1] = Do("off", "slowsend") /\ c[2] = Do("off", "exam")
    BY <2>1, Pair
  <2> HIDE DEF c
  <2>3. c[1].op = "off" /\ c[1].arg = "slowsend" /\ c[2].op = "off" /\ c[2].arg = "exam"
    BY <2>2 DEF Do
  <2>4. QED BY <2>2, <2>3 DEF Leaves, Adding, Removes, Removing, Simless
<1> HIDE DEF a, c, D, e
<1>4. Tidy(a \o e \o c)
  BY <1>1, <1>2, <1>3, Around
<1>5. (a \o e \o c)[1] = a[1] /\ Len(a \o e \o c) >= 3
  <2> DEFINE ae == a \o e
  <2>1. e \in Seq(Step) /\ 1 \in 1..3
    BY <1>1 DEF Tidy
  <2>2. ae \in Seq(Step) /\ Len(ae) >= 3 /\ ae[1] = a[1]
    BY <1>2, <2>1, Opening, Concat
  <2> HIDE DEF ae
  <2>3. (ae \o c)[1] = a[1] /\ Len(ae \o c) >= 3
    BY <1>3, <2>1, <2>2, Opening
  <2>4. QED BY <2>3 DEF ae
<1>6. Scenario8 = a \o e \o c
  BY DEF Scenario8, a, c, e
<1>7. Scenario8 # <<>>
  <2>1. Len(<<>>) = 0
    OBVIOUS
  <2>2. QED BY <1>5, <1>6, <2>1
<1>8. QED BY <1>2, <1>4, <1>5, <1>6, <1>7

\* The two with the big exam take it away again.
LEMMA LargeTidy ==
  ASSUME NEW x \in Servers
  PROVE  Tidy(Large(x))
<1> DEFINE on == Must("on", "exam")
           of == Do("off", "exam")
           e  == Exam({"client-1"}, {x}, {x})
<1>1. Tidy(e)
  BY ExamTidy DEF Clients
<1>2. /\ on \in Step /\ on.arg = "exam" /\ on.op = "on"
      /\ of \in Step /\ of.arg = "exam" /\ of.op = "off"
  BY DEF Must, Do, Step, Ops, Args, Legal, Adding, Switches
<1> HIDE DEF on, of, e
<1>3. <<on>> \in Seq(Step) /\ Leaves(<<on>>, {"exam"}) /\ Simless(<<on>>)
  BY <1>2, Single DEF Simless
<1>4. /\ <<of>> \in Seq(Step) /\ Leaves(<<of>>, {}) /\ Removes(<<of>>, {"exam"})
      /\ Simless(<<of>>)
  BY <1>2, Single DEF Adding, Removing, Simless
<1>5. Tidy(<<on>> \o e \o <<of>>)
  BY <1>1, <1>3, <1>4, Around
<1>6. QED BY <1>5 DEF Large, on, of, e

\* Every scenario is tidy.
LEMMA AllTidy ==
  ASSUME NEW n \in 1..10
  PROVE  Tidy(StepsOf(n))
<1>1. Tidy(Scenario2)
  <2>1. Rudp \subseteq Servers /\ Rudp # {} /\ Clients # {}
    BY DEF Servers, Rudp, Clients
  <2>2. QED BY <2>1, ExamTidy DEF Scenario2
<1>2. Tidy(Scenario4) /\ Tidy(Scenario5) /\ Tidy(Scenario6)
  <2>1. /\ {"client-1", "client-2"} \subseteq Clients /\ {"rudp-server-1"} \subseteq Servers
        /\ {"tcp-server-nosync"} \subseteq Servers /\ {"tcp-server-sync"} \subseteq Servers
        /\ TwoRudp \subseteq Servers
    BY DEF Clients, Servers, Rudp, TwoRudp
  <2>2. QED BY <2>1, ExamTidy DEF Scenario4, Scenario5, Scenario6
<1>3. Tidy(Scenario9) /\ Tidy(Scenario10)
  <2>1. "tcp-server-nosync" \in Servers /\ "tcp-server-sync" \in Servers
    BY DEF Servers
  <2>2. QED BY <2>1, LargeTidy DEF Scenario9, Scenario10
<1>4. n \in {1, 2, 3, 4, 5, 6, 7, 8, 9, 10}
  OBVIOUS
<1>5. QED BY <1>1, <1>2, <1>3, <1>4, Tidy1, Tidy3, Tidy7, Tidy8 DEF StepsOf

-----------------------------------------------------------------------------
(* The inductive invariant.                                                *)

\* How many steps of the scenario are behind.
Behind == Len(StepsOf(cur)) - Len(steps)

\* The steps that are left are the end of the scenario's list, and clean.
Rest ==
  /\ steps \in Seq(Step)
  /\ cur # 0 => /\ Len(steps) <= Len(StepsOf(cur))
                /\ \A i \in 1..Len(steps) : steps[i] = StepsOf(cur)[Behind + i]
                /\ Leaves(steps, {})

\* What is on and was not found so was switched on by a step that is behind,
\* and unless one has failed unseen a step that is left takes it back.
Accounted ==
  cur # 0 =>
    /\ \A d \in dirt \ base : \E k \in 1..Behind :
         Adding(StepsOf(cur)[k]) /\ StepsOf(cur)[k].arg = d
    /\ ~silent => Removes(steps, dirt \ base)

\* Students to come find the start set before them, or it is set already.
StartDue ==
  cur # 0 => \A i \in DOMAIN steps : steps[i].op = "sim" =>
    \/ SetBefore(steps, i)
    \/ startFile = cur /\ Undisturbed(steps, 0, i)

\* Rounds that earlier students left are over when students come: with each step
\* that is behind one step less is left to a round.
RoundsDue ==
  cur # 0 => \A i \in DOMAIN steps : steps[i].op = "sim" =>
    \A x \in Servers : rounds[x] = 0 \/ rounds[x] + Behind <= RoundSteps

\* Every round is a step nearer its end.
Shorter == \A x \in Servers : rounds'[x] = 0 \/ rounds'[x] + 1 <= rounds[x]

IInv == /\ TypeOK
        /\ Rest
        /\ Accounted
        /\ StartDue
        /\ RoundsDue
        /\ RestoredAfterSuccess
        /\ SimsHaveTheirStart

\* The type of what is on, in the terms of the steps.
LEMMA DirtType == TypeOK => dirt \subseteq Containers \cup Switches
BY DEF TypeOK, Containers, Switches

\* A scenario's list of steps.
LEMMA ListFacts ==
  ASSUME TypeOK, Rest, cur # 0
  PROVE  /\ StepsOf(cur) \in Seq(Step) /\ Len(StepsOf(cur)) \in Nat
         /\ Spaced(StepsOf(cur))
         /\ Len(steps) \in Nat /\ DOMAIN steps = 1..Len(steps)
         /\ Behind \in Nat /\ Behind + Len(steps) = Len(StepsOf(cur))
<1>1. cur \in 1..10
  BY DEF TypeOK
<1>2. StepsOf(cur) \in Seq(Step) /\ Spaced(StepsOf(cur))
  BY <1>1, AllTidy DEF Tidy
<1>3. Len(StepsOf(cur)) \in Nat
  BY <1>2, LenProperties
<1>4. Len(steps) \in Nat /\ DOMAIN steps = 1..Len(steps)
  BY LenProperties DEF Rest
<1>5. Len(steps) <= Len(StepsOf(cur))
  BY DEF Rest
<1>6. QED BY <1>2, <1>3, <1>4, <1>5 DEF Behind

\* Time passes.
LEMMA ElapsedFacts ==
  ASSUME rounds \in [Servers -> 0 .. RoundSteps]
  PROVE  /\ Elapsed \in [Servers -> 0 .. RoundSteps]
         /\ \A x \in Servers : Elapsed[x] = 0 \/ Elapsed[x] + 1 <= rounds[x]
<1>1. RoundSteps \in Nat
  BY RunnerConstants
<1>2. ASSUME NEW x \in Servers
      PROVE  /\ Elapsed[x] \in 0 .. RoundSteps
             /\ Elapsed[x] = 0 \/ Elapsed[x] + 1 <= rounds[x]
  <2>1. Elapsed[x] = IF rounds[x] = 0 THEN 0 ELSE rounds[x] - 1
    BY DEF Elapsed
  <2>2. rounds[x] \in 0 .. RoundSteps
    OBVIOUS
  <2>3. QED BY <1>1, <2>1, <2>2
<1>3. Elapsed = [x \in Servers |-> Elapsed[x]]
  BY DEF Elapsed
<1>4. QED BY <1>2, <1>3

\* What a step does to what is on, to the start, to rounds and to the students.
LEMMA EffectFacts ==
  ASSUME TypeOK, cur # 0, NEW st \in Step, Effect(st.op, st.arg)
  PROVE  /\ dirt' \subseteq Containers \cup Switches /\ down' \subseteq Clients
         /\ startFile' \in 0 .. 10 /\ startCache' \in [Servers -> 0 .. 10 \cup {None}]
         /\ seen' \subseteq [server : Servers, start : 0 .. 10]
         /\ \A d \in dirt' : d \in dirt \/ (Adding(st) /\ d = st.arg)
         /\ Removing(st) => st.arg \notin dirt'
         /\ st.op = "setStart" => startFile' = cur
         /\ st.op \notin {"setStart", "clearStart"} => startFile' = startFile
         /\ rounds' \in [Servers -> 0 .. RoundSteps]
         /\ st.op # "sim" => seen' = seen /\ Shorter
         /\ st.op = "sim" /\ (\A x \in Servers : rounds[x] = 0) =>
              \A a \in seen' : a.server # "tcp-server-nosync" => a.start = startFile
<1>1. /\ st.op \in Ops
      /\ Adding(st) => st.arg \in Containers \cup Switches
      /\ st.op \in {"recreate", "ensure"} => st.arg \in Clients
      /\ st.op = "sim" => st.arg \subseteq Servers
  BY DEF Step, Legal
<1>2. /\ dirt \subseteq Containers \cup Switches /\ down \subseteq Clients
      /\ startFile \in 0 .. 10 /\ startCache \in [Servers -> 0 .. 10 \cup {None}]
      /\ seen \subseteq [server : Servers, start : 0 .. 10] /\ cur \in 0 .. 10
  BY DirtType DEF TypeOK
<1>3. /\ dirt' \subseteq Containers \cup Switches /\ down' \subseteq Clients
      /\ \A d \in dirt' : d \in dirt \/ (Adding(st) /\ d = st.arg)
      /\ Removing(st) => st.arg \notin dirt'
  <2>1. CASE Adding(st)
    BY <1>1, <1>2, <2>1 DEF Effect, Adding, Removing
  <2>2. CASE Removing(st)
    BY <1>1, <1>2, <2>2 DEF Effect, Adding, Removing
  <2>3. CASE st.op = "recreate" \/ st.op = "ensure"
    BY <1>1, <1>2, <2>3 DEF Effect, Adding, Removing, Recreated
  <2>4. CASE st.op \notin {"capture", "on", "uncapture", "off", "recreate", "ensure"}
    BY <1>1, <1>2, <2>4 DEF Effect, Adding, Removing
  <2>5. QED BY <2>1, <2>2, <2>3, <2>4 DEF Adding, Removing
<1>4. /\ startFile' \in 0 .. 10
      /\ st.op = "setStart" => startFile' = cur
      /\ st.op \notin {"setStart", "clearStart"} => startFile' = startFile
  BY <1>2 DEF Effect
<1>0. /\ rounds \in [Servers -> 0 .. RoundSteps] /\ RoundSteps \in 0 .. RoundSteps
      /\ 0 \in 0 .. RoundSteps
      /\ Elapsed \in [Servers -> 0 .. RoundSteps]
      /\ \A x \in Servers : Elapsed[x] = 0 \/ Elapsed[x] + 1 <= rounds[x]
  <2>1. RoundSteps \in 0 .. RoundSteps /\ 0 \in 0 .. RoundSteps
    BY RunnerConstants
  <2>2. rounds \in [Servers -> 0 .. RoundSteps]
    BY DEF TypeOK
  <2>3. QED BY <2>1, <2>2, ElapsedFacts
<1>5. CASE st.op # "sim"
  <2>1. seen' = seen
    BY <1>5 DEF Effect
  <2>2. startCache' \in [Servers -> 0 .. 10 \cup {None}]
    BY <1>2, <1>5 DEF Effect
  <2>3. \/ rounds' = Elapsed
        \/ st.arg \in Servers /\ rounds' = [Elapsed EXCEPT ![st.arg] = 0]
    BY <1>5 DEF Effect
  <2> HIDE DEF Elapsed
  <2>4. rounds' \in [Servers -> 0 .. RoundSteps]
    BY <1>0, <2>3
  <2>5. Shorter
    BY <1>0, <2>3 DEF Shorter
  <2>6. QED BY <1>2, <1>3, <1>4, <1>5, <2>1, <2>2, <2>4, <2>5
<1>6. CASE st.op = "sim"
  <2>1. \A x \in Servers : \A busy :
          /\ Announced(x, busy) \in 0 .. 10
          /\ busy = {} /\ x # "tcp-server-nosync" => Announced(x, busy) = startFile
    BY <1>2 DEF Announced
  <2>2. PICK asked \in {st.arg, {}} : \E busy \in SUBSET {x \in asked : rounds[x] > 0} :
          /\ seen' = {[server |-> x, start |-> Announced(x, busy)] : x \in asked}
          /\ startCache' = [x \in Servers |-> IF x \in asked THEN Announced(x, busy)
                                              ELSE startCache[x]]
          /\ rounds' = [x \in Servers |-> IF x \in asked \ {"tcp-server-nosync"}
                                            THEN RoundSteps ELSE Elapsed[x]]
    BY <1>6 DEF Effect, Simulate
  <2>3. asked \subseteq Servers
    BY <1>1, <1>6
  <2>4. PICK busy \in SUBSET {x \in asked : rounds[x] > 0} :
          /\ seen' = {[server |-> x, start |-> Announced(x, busy)] : x \in asked}
          /\ startCache' = [x \in Servers |-> IF x \in asked THEN Announced(x, busy)
                                              ELSE startCache[x]]
          /\ rounds' = [x \in Servers |-> IF x \in asked \ {"tcp-server-nosync"}
                                            THEN RoundSteps ELSE Elapsed[x]]
    BY <2>2
  <2>5. seen' \subseteq [server : Servers, start : 0 .. 10]
    BY <2>1, <2>3, <2>4
  <2>6. startCache' \in [Servers -> 0 .. 10 \cup {None}]
    BY <1>2, <2>1, <2>4
  <2>7. rounds' \in [Servers -> 0 .. RoundSteps]
    BY <1>0, <2>4
  <2>8. ASSUME \A x \in Servers : rounds[x] = 0
        PROVE  \A a \in seen' : a.server # "tcp-server-nosync" => a.start = startFile
    <3>1. busy = {}
      BY <2>3, <2>8
    <3>2. QED BY <2>1, <2>3, <2>4, <3>1
  <2>9. QED BY <1>3, <1>4, <1>6, <2>5, <2>6, <2>7, <2>8
<1>7. QED BY <1>5, <1>6

\* The steps that are left after the first of them.
LEMMA TailFacts ==
  ASSUME TypeOK, Rest, cur # 0, steps # <<>>, cur' = cur, steps' = Tail(steps)
  PROVE  /\ Rest'
         /\ Head(steps) \in Step /\ Head(steps) = steps[1]
         /\ Len(steps') = Len(steps) - 1 /\ DOMAIN steps' = 1..(Len(steps) - 1)
         /\ \A i \in DOMAIN steps' : i + 1 \in DOMAIN steps /\ steps'[i] = steps[i + 1]
         /\ \A j \in DOMAIN steps : j = 1 \/ (j - 1 \in DOMAIN steps' /\ j = (j - 1) + 1)
         /\ Behind \in Nat /\ Behind' = Behind + 1
         /\ StepsOf(cur)[Behind + 1] = Head(steps) /\ 1 \in DOMAIN steps
<1>1. steps \in Seq(Step) /\ Len(steps) \in Nat /\ DOMAIN steps = 1..Len(steps)
  BY ListFacts DEF Rest
<1>2. /\ Head(steps) \in Step /\ Head(steps) = steps[1]
      /\ steps' \in Seq(Step) /\ Len(steps') = Len(steps) - 1 /\ Len(steps) # 0
      /\ \A i \in 1..(Len(steps) - 1) : steps'[i] = steps[i + 1]
  <2>1. /\ Head(steps) \in Step /\ steps' \in Seq(Step) /\ Len(steps') = Len(steps) - 1
        /\ \A i \in 1..Len(steps') : steps'[i] = steps[i + 1]
    BY <1>1, HeadTailProperties
  <2>2. Len(steps) # 0
    BY <1>1, EmptySeq
  <2>3. Head(steps) = steps[1]
    BY <1>1
  <2>4. QED BY <2>1, <2>2, <2>3
<1>3. DOMAIN steps' = 1..(Len(steps) - 1)
  <2>1. DOMAIN steps' = 1..Len(steps')
    BY <1>2, LenProperties
  <2>2. QED BY <1>2, <2>1
<1>4. /\ \A i \in DOMAIN steps' : i + 1 \in DOMAIN steps /\ steps'[i] = steps[i + 1]
      /\ \A j \in DOMAIN steps : j = 1 \/ (j - 1 \in DOMAIN steps' /\ j = (j - 1) + 1)
      /\ 1 \in DOMAIN steps
  BY <1>1, <1>2, <1>3
<1>5. /\ Behind \in Nat /\ Len(StepsOf(cur)) \in Nat
      /\ Behind = Len(StepsOf(cur)) - Len(steps)
      /\ Behind' = Len(StepsOf(cur)) - Len(steps')
  <2>1. Behind' = Len(StepsOf(cur)) - Len(steps')
    BY DEF Behind
  <2>2. QED BY <2>1, ListFacts DEF Behind
<1>6. Behind' = Behind + 1
  BY <1>1, <1>2, <1>5
<1>7. StepsOf(cur)[Behind + 1] = Head(steps)
  BY <1>1, <1>2, <1>4 DEF Rest
<1>8. Leaves(steps', {})
  <2> SUFFICES ASSUME NEW k \in DOMAIN steps', Adding(steps'[k])
               PROVE  \E i \in DOMAIN steps' :
                        i > k /\ Removing(steps'[i]) /\ steps'[i].arg = steps'[k].arg
    BY DEF Leaves
  <2>1. k + 1 \in DOMAIN steps /\ steps'[k] = steps[k + 1] /\ k \in Nat
    BY <1>1, <1>3, <1>4
  <2>2. PICK j \in DOMAIN steps :
          j > k + 1 /\ Removing(steps[j]) /\ steps[j].arg = steps[k + 1].arg
    BY <2>1 DEF Rest, Leaves
  <2>3. j - 1 \in DOMAIN steps' /\ j = (j - 1) + 1 /\ j - 1 > k
    BY <1>1, <1>4, <2>1, <2>2
  <2>4. steps'[j - 1] = steps[j]
    BY <1>4, <2>3
  <2>5. QED BY <2>1, <2>2, <2>3, <2>4
<1>9. \A i \in 1..Len(steps') : steps'[i] = StepsOf(cur)[Behind' + i]
  <2> TAKE i \in 1..Len(steps')
  <2>1. i \in DOMAIN steps' /\ i + 1 \in 1..Len(steps) /\ Behind' + i = Behind + (i + 1)
    BY <1>1, <1>2, <1>3, <1>5, <1>6
  <2>2. steps[i + 1] = StepsOf(cur)[Behind + (i + 1)]
    BY <2>1 DEF Rest
  <2>3. QED BY <1>4, <2>1, <2>2
<1>10. Rest'
  <2>1. Len(steps') <= Len(StepsOf(cur))
    BY <1>1, <1>2 DEF Rest
  <2>2. QED BY <1>2, <1>8, <1>9, <2>1 DEF Rest
<1>11. QED BY <1>2, <1>3, <1>4, <1>5, <1>6, <1>7, <1>10

-----------------------------------------------------------------------------
(* Every action keeps the invariant.                                       *)

\* Students to come keep their start when a step is behind: the start that the
\* step sets is the scenario's own.
LEMMA DueTail ==
  ASSUME TypeOK, Rest, StartDue, cur # 0, steps # <<>>, cur' = cur,
         steps' = Tail(steps),
         Head(steps).op = "setStart" => startFile' = cur,
         Head(steps).op \notin {"setStart", "clearStart"} => startFile' = startFile
  PROVE  StartDue'
<1>1. /\ Head(steps) = steps[1] /\ 1 \in DOMAIN steps
      /\ DOMAIN steps = 1..Len(steps) /\ DOMAIN steps' = 1..(Len(steps) - 1)
      /\ Len(steps) \in Nat
      /\ \A i \in DOMAIN steps' : i + 1 \in DOMAIN steps /\ steps'[i] = steps[i + 1]
      /\ \A j \in DOMAIN steps : j = 1 \/ (j - 1 \in DOMAIN steps' /\ j = (j - 1) + 1)
  BY TailFacts, ListFacts
<1> SUFFICES ASSUME NEW i \in DOMAIN steps', steps'[i].op = "sim"
             PROVE  SetBefore(steps', i) \/ (startFile' = cur /\ Undisturbed(steps', 0, i))
  BY DEF StartDue
<1>2. i \in Nat /\ i + 1 \in DOMAIN steps /\ steps[i + 1].op = "sim"
  BY <1>1
<1>3. ASSUME NEW j \in Nat, Undisturbed(steps, j + 1, i + 1)
      PROVE  Undisturbed(steps', j, i)
  <2> SUFFICES ASSUME NEW k \in DOMAIN steps', j < k, k < i
               PROVE  steps'[k].op # "clearStart"
    BY DEF Undisturbed
  <2>1. PICK l \in DOMAIN steps : l = k + 1 /\ steps'[k] = steps[l]
    BY <1>1
  <2>2. k \in Nat /\ j + 1 < l /\ l < i + 1
    BY <1>1, <1>2, <2>1
  <2>3. QED BY <1>3, <2>1, <2>2 DEF Undisturbed
<1>4. CASE SetBefore(steps, i + 1)
  <2>1. PICK j \in DOMAIN steps :
          j < i + 1 /\ steps[j].op = "setStart" /\ Undisturbed(steps, j, i + 1)
    BY <1>4 DEF SetBefore
  <2>2. CASE j = 1
    <3>1. startFile' = cur
      BY <1>1, <2>1, <2>2
    <3>2. Undisturbed(steps, 0 + 1, i + 1)
      BY <2>1, <2>2
    <3>3. QED BY <1>3, <3>1, <3>2
  <2>3. CASE j # 1
    <3>1. PICK k \in DOMAIN steps' : j = k + 1 /\ steps'[k] = steps[j]
      BY <1>1, <2>3
    <3>2. k \in Nat /\ k < i
      BY <1>1, <1>2, <2>1, <3>1
    <3>3. Undisturbed(steps', k, i)
      BY <1>3, <2>1, <3>1, <3>2
    <3>4. QED BY <2>1, <3>1, <3>2, <3>3 DEF SetBefore
  <2>4. QED BY <2>2, <2>3
<1>5. CASE startFile = cur /\ Undisturbed(steps, 0, i + 1)
  <2>1. Head(steps).op # "clearStart"
    <3>1. 0 < 1 /\ 1 < i + 1
      BY <1>1, <1>2
    <3>2. QED BY <1>1, <1>5, <3>1 DEF Undisturbed
  <2>2. startFile' = cur
    BY <1>5, <2>1
  <2>3. Undisturbed(steps, 0 + 1, i + 1)
    BY <1>1, <1>2, <1>5 DEF Undisturbed
  <2>4. QED BY <1>3, <2>2, <2>3
<1>6. QED BY <1>2, <1>4, <1>5 DEF StartDue

\* Rounds are over in time when a step is behind: after the students there are
\* no others to come.
LEMMA RoundsTail ==
  ASSUME TypeOK, Rest, RoundsDue, cur # 0, steps # <<>>, cur' = cur,
         steps' = Tail(steps), rounds' \in [Servers -> 0 .. RoundSteps],
         Head(steps).op # "sim" => Shorter
  PROVE  RoundsDue'
<1> SUFFICES ASSUME NEW i \in DOMAIN steps', steps'[i].op = "sim", NEW x \in Servers
             PROVE  rounds'[x] = 0 \/ rounds'[x] + Behind' <= RoundSteps
  BY DEF RoundsDue
<1>1. /\ i + 1 \in DOMAIN steps /\ steps[i + 1].op = "sim" /\ i \in Nat /\ i # 0
      /\ 1 \in DOMAIN steps /\ Head(steps) = steps[1]
      /\ DOMAIN steps = 1..Len(steps) /\ Len(steps) \in Nat
      /\ Behind \in Nat /\ Behind' = Behind + 1
      /\ Behind + Len(steps) = Len(StepsOf(cur)) /\ Spaced(StepsOf(cur))
      /\ DOMAIN StepsOf(cur) = 1..Len(StepsOf(cur))
  BY TailFacts, ListFacts, LenProperties
<1>2. Head(steps).op # "sim"
  <2>1. /\ steps[1] = StepsOf(cur)[Behind + 1]
        /\ steps[i + 1] = StepsOf(cur)[Behind + (i + 1)]
    BY <1>1 DEF Rest
  <2>2. Behind + 1 \in DOMAIN StepsOf(cur) /\ Behind + (i + 1) \in DOMAIN StepsOf(cur)
    BY <1>1
  <2>3. Behind + 1 # Behind + (i + 1)
    BY <1>1
  <2>4. QED BY <1>1, <2>1, <2>2, <2>3 DEF Spaced, Lone
<1>3. rounds[x] = 0 \/ rounds[x] + Behind <= RoundSteps
  BY <1>1 DEF RoundsDue
<1>4. /\ rounds[x] \in Nat /\ rounds'[x] \in Nat /\ RoundSteps \in Nat
      /\ rounds'[x] = 0 \/ rounds'[x] + 1 <= rounds[x]
  <2>1. RoundSteps \in Nat
    BY RunnerConstants
  <2>2. QED BY <1>2, <2>1 DEF Shorter, TypeOK
<1>5. QED BY <1>1, <1>3, <1>4

\* No round is left where students come next: more than five steps are behind.
LEMMA RoundsOver ==
  ASSUME TypeOK, Rest, RoundsDue, cur # 0, steps # <<>>, Head(steps).op = "sim",
         NEW x \in Servers
  PROVE  rounds[x] = 0
<1>1. /\ 1 \in DOMAIN steps /\ Head(steps) = steps[1]
      /\ DOMAIN steps = 1..Len(steps) /\ Len(steps) \in Nat
      /\ Behind \in Nat /\ Behind + Len(steps) = Len(StepsOf(cur))
      /\ Spaced(StepsOf(cur)) /\ DOMAIN StepsOf(cur) = 1..Len(StepsOf(cur))
  <2>1. steps \in Seq(Step)
    BY DEF Rest
  <2>2. Len(steps) # 0
    BY <2>1, EmptySeq
  <2>3. QED BY <2>1, <2>2, ListFacts, LenProperties
<1>2. Behind + 1 > 5
  <2>1. steps[1] = StepsOf(cur)[Behind + 1]
    BY <1>1 DEF Rest
  <2>2. Behind + 1 \in DOMAIN StepsOf(cur)
    BY <1>1
  <2>3. QED BY <1>1, <2>1, <2>2 DEF Spaced, Late
<1>3. rounds[x] = 0 \/ rounds[x] + Behind <= RoundSteps
  BY <1>1 DEF RoundsDue
<1>4. rounds[x] \in Nat /\ RoundSteps \in 0 .. 5
  BY RunnerConstants DEF TypeOK
<1>5. QED BY <1>1, <1>2, <1>3, <1>4

\* What is on stays accounted for when a step is behind, that has had its
\* effect or failed unseen.
LEMMA AccountTail ==
  ASSUME TypeOK, Rest, Accounted, cur # 0, steps # <<>>, cur' = cur,
         steps' = Tail(steps), base' = base, silent => silent',
         \A d \in dirt' : d \in dirt \/ (Adding(Head(steps)) /\ d = Head(steps).arg),
         ~silent' /\ Removing(Head(steps)) => Head(steps).arg \notin dirt'
  PROVE  Accounted'
<1>1. /\ Head(steps) = steps[1] /\ 1 \in DOMAIN steps
      /\ DOMAIN steps = 1..Len(steps) /\ Len(steps) \in Nat
      /\ \A i \in DOMAIN steps' : i + 1 \in DOMAIN steps /\ steps'[i] = steps[i + 1]
      /\ \A j \in DOMAIN steps : j = 1 \/ (j - 1 \in DOMAIN steps' /\ j = (j - 1) + 1)
      /\ Behind \in Nat /\ Behind' = Behind + 1
      /\ StepsOf(cur)[Behind + 1] = Head(steps)
  BY TailFacts, ListFacts
<1>2. \A d \in dirt' \ base' : \E k \in 1..Behind' :
        Adding(StepsOf(cur)[k]) /\ StepsOf(cur)[k].arg = d
  <2> TAKE d \in dirt' \ base'
  <2>1. CASE d \in dirt
    <3>1. PICK k \in 1..Behind : Adding(StepsOf(cur)[k]) /\ StepsOf(cur)[k].arg = d
      BY <2>1 DEF Accounted
    <3>2. k \in 1..Behind'
      BY <1>1
    <3>3. QED BY <3>1, <3>2
  <2>2. CASE Adding(Head(steps)) /\ d = Head(steps).arg
    <3>1. Behind' \in 1..Behind' /\ StepsOf(cur)[Behind'] = Head(steps)
      BY <1>1
    <3>2. QED BY <2>2, <3>1
  <2>3. QED BY <2>1, <2>2
<1>3. ASSUME ~silent'
      PROVE  Removes(steps', dirt' \ base')
  <2> SUFFICES ASSUME NEW d \in dirt' \ base'
               PROVE  \E i \in DOMAIN steps' : Removing(steps'[i]) /\ steps'[i].arg = d
    BY DEF Removes
  <2>1. PICK j \in DOMAIN steps : j # 1 /\ Removing(steps[j]) /\ steps[j].arg = d
    <3>1. CASE d \in dirt
      <4>1. PICK j \in DOMAIN steps : Removing(steps[j]) /\ steps[j].arg = d
        BY <1>3, <3>1 DEF Accounted, Removes
      <4>2. j # 1
        BY <1>1, <1>3, <4>1
      <4>3. QED BY <4>1, <4>2
    <3>2. CASE Adding(Head(steps)) /\ d = Head(steps).arg
      <4>1. Leaves(steps, {})
        BY DEF Rest
      <4>2. PICK j \in DOMAIN steps : j > 1 /\ Removing(steps[j]) /\ steps[j].arg = d
        BY <1>1, <3>2, <4>1 DEF Leaves
      <4>3. j # 1
        BY <1>1, <4>2
      <4>4. QED BY <4>2, <4>3
    <3>3. QED BY <3>1, <3>2
  <2>2. PICK k \in DOMAIN steps' : steps'[k] = steps[j]
    BY <1>1, <2>1
  <2>3. QED BY <2>1, <2>2
<1>4. QED BY <1>2, <1>3 DEF Accounted

LEMMA InitInv == Init => IInv
<1> SUFFICES ASSUME Init PROVE IInv
  OBVIOUS
<1>1. TypeOK
  <2>1. todo \in Seq(1..10)
    BY RunnerConstants DEF Init
  <2>2. startCache \in [Servers -> 0 .. 10 \cup {None}]
    BY DEF Init
  <2>3. cur \in 0 .. 10 /\ startFile \in 0 .. 10
    BY DEF Init
  <2>4. rounds \in [Servers -> 0 .. RoundSteps]
    <3>1. 0 \in 0 .. RoundSteps
      BY RunnerConstants
    <3>2. QED BY <3>1 DEF Init
  <2>5. QED BY <2>1, <2>2, <2>3, <2>4 DEF Init, TypeOK
<1>2. Rest
  BY DEF Init, Rest
<1>3. QED BY <1>1, <1>2 DEF Init, IInv, Accounted, StartDue, RoundsDue,
                            RestoredAfterSuccess, SimsHaveTheirStart

\* A scenario begins with all of its steps and on what it finds.
LEMMA BeginInv == IInv /\ Begin => IInv'
<1> SUFFICES ASSUME IInv, Begin PROVE IInv'
  OBVIOUS
<1>1. Head(todo) \in 1..10 /\ Tail(todo) \in Seq(1..10)
  BY HeadTailProperties DEF Begin, IInv, TypeOK
<1>2. cur' = Head(todo) /\ cur' \in 1..10 /\ cur' # 0 /\ steps' = StepsOf(cur')
  BY <1>1 DEF Begin
<1>3. Tidy(steps')
  BY <1>2, AllTidy
<1>4. /\ steps' \in Seq(Step) /\ Len(steps') \in Nat /\ DOMAIN steps' = 1..Len(steps')
      /\ Leaves(steps', {}) /\ Own(steps')
  BY <1>3, LenProperties DEF Tidy
<1>5. Behind' = 0
  BY <1>2, <1>4 DEF Behind
<1>6. TypeOK'
  <2>1. /\ TypeOK /\ todo' = Tail(todo) /\ seen' = {} /\ silent' = FALSE
        /\ UNCHANGED <<dirt, outcome, down, startFile, startCache, rounds>>
    BY DEF Begin, IInv
  <2>2. todo' \in Seq(1..10)
    BY <1>1, <2>1, Zenon
  <2>3. cur' \in 0 .. 10
    BY <1>2
  <2>4. QED BY <1>2, <2>1, <2>2, <2>3 DEF TypeOK
<1>7. Rest'
  BY <1>2, <1>4, <1>5 DEF Rest
<1>8. Accounted'
  BY DEF Begin, Accounted, Removes
<1>9. StartDue'
  BY <1>4 DEF StartDue, Own
<1>10. RestoredAfterSuccess' /\ SimsHaveTheirStart'
  BY <1>2 DEF Begin, RestoredAfterSuccess, SimsHaveTheirStart
<1>11. RoundsDue'
  <2>1. \A x \in Servers : rounds'[x] \in Nat /\ rounds'[x] + 0 <= RoundSteps
    <3>1. RoundSteps \in Nat
      BY RunnerConstants
    <3>2. QED BY <1>6, <3>1 DEF TypeOK
  <2>2. QED BY <1>5, <2>1 DEF RoundsDue
<1>12. QED BY <1>6, <1>7, <1>8, <1>9, <1>10, <1>11 DEF IInv

\* A step takes effect; at students, the scenario's own start is set.
LEMMA PerformInv == IInv /\ Perform => IInv'
<1> SUFFICES ASSUME IInv, Perform PROVE IInv'
  OBVIOUS
<1> DEFINE st == Head(steps)
<1>1. /\ TypeOK /\ Rest /\ Accounted /\ StartDue /\ RoundsDue /\ SimsHaveTheirStart
      /\ steps # <<>> /\ cur # 0 /\ cur' = cur /\ steps' = Tail(steps)
      /\ base' = base /\ silent' = silent /\ todo' = todo /\ outcome' = outcome
  BY DEF IInv, Perform, TypeOK
<1>2. Rest' /\ st \in Step /\ st = steps[1] /\ 1 \in DOMAIN steps
  BY <1>1, TailFacts
<1>3. Effect(st.op, st.arg)
  BY DEF Perform
<1> HIDE DEF st
<1>4. /\ dirt' \subseteq Containers \cup Switches /\ down' \subseteq Clients
      /\ startFile' \in 0 .. 10 /\ startCache' \in [Servers -> 0 .. 10 \cup {None}]
      /\ seen' \subseteq [server : Servers, start : 0 .. 10]
      /\ \A d \in dirt' : d \in dirt \/ (Adding(st) /\ d = st.arg)
      /\ Removing(st) => st.arg \notin dirt'
      /\ st.op = "setStart" => startFile' = cur
      /\ st.op \notin {"setStart", "clearStart"} => startFile' = startFile
      /\ rounds' \in [Servers -> 0 .. RoundSteps]
      /\ st.op # "sim" => seen' = seen /\ Shorter
      /\ st.op = "sim" /\ (\A x \in Servers : rounds[x] = 0) =>
           \A a \in seen' : a.server # "tcp-server-nosync" => a.start = startFile
  BY <1>1, <1>2, <1>3, EffectFacts
<1>5. TypeOK'
  BY <1>1, <1>4 DEF TypeOK, Containers, Switches
<1>6. Accounted'
  BY <1>1, <1>4, AccountTail DEF st
<1>7. StartDue'
  BY <1>1, <1>4, DueTail DEF st
<1>8. RestoredAfterSuccess'
  BY <1>1 DEF RestoredAfterSuccess
<1>9. SimsHaveTheirStart'
  <2>1. CASE st.op = "sim"
    <3>1. startFile = cur
      <4>1. ~SetBefore(steps, 1)
        <5>1. DOMAIN steps = 1..Len(steps) /\ Len(steps) \in Nat
          BY <1>1, ListFacts
        <5>2. QED BY <5>1 DEF SetBefore
      <4>2. QED BY <1>1, <1>2, <2>1, <4>1 DEF StartDue
    <3>2. \A x \in Servers : rounds[x] = 0
      BY <1>1, <2>1, RoundsOver DEF st
    <3>3. QED BY <1>1, <1>4, <2>1, <3>1, <3>2 DEF SimsHaveTheirStart
  <2>2. CASE st.op # "sim"
    BY <1>1, <1>4, <2>2 DEF SimsHaveTheirStart
  <2>3. QED BY <2>1, <2>2
<1>10. RoundsDue'
  BY <1>1, <1>4, RoundsTail DEF st
<1>11. QED BY <1>2, <1>5, <1>6, <1>7, <1>8, <1>9, <1>10 DEF IInv

\* A step that fails unseen is none that sets the start.
LEMMA FailUnseenInv == IInv /\ FailUnseen => IInv'
<1> SUFFICES ASSUME IInv, FailUnseen PROVE IInv'
  OBVIOUS
<1>1. /\ TypeOK /\ Rest /\ Accounted /\ StartDue /\ RoundsDue /\ SimsHaveTheirStart
      /\ steps # <<>> /\ cur # 0 /\ cur' = cur /\ steps' = Tail(steps)
      /\ base' = base /\ silent' = TRUE /\ dirt' = dirt /\ seen' = seen
      /\ startFile' = startFile /\ rounds' = Elapsed /\ ~Head(steps).checked
  BY DEF IInv, FailUnseen, TypeOK
<1>2. Rest' /\ Head(steps) \in Step
  BY <1>1, TailFacts
<1>3. Head(steps).op # "setStart"
  BY <1>1, <1>2 DEF Step, Legal
<1>9. rounds' \in [Servers -> 0 .. RoundSteps] /\ Shorter
  <2>1. rounds \in [Servers -> 0 .. RoundSteps]
    BY <1>1 DEF TypeOK
  <2>2. QED BY <1>1, <2>1, ElapsedFacts DEF Shorter
<1>4. TypeOK'
  BY <1>1, <1>9 DEF FailUnseen, IInv, TypeOK
<1>10. RoundsDue'
  BY <1>1, <1>9, RoundsTail
<1>5. Accounted'
  BY <1>1, AccountTail
<1>6. StartDue'
  BY <1>1, <1>3, DueTail
<1>7. RestoredAfterSuccess' /\ SimsHaveTheirStart'
  BY <1>1 DEF RestoredAfterSuccess, SimsHaveTheirStart
<1>8. QED BY <1>2, <1>4, <1>5, <1>6, <1>7, <1>10 DEF IInv

\* Where a scenario finds its prerequisites missing it has switched nothing on.
LEMMA UnpreparedInv == IInv /\ Unprepared => IInv'
<1> SUFFICES ASSUME IInv, Unprepared PROVE IInv'
  OBVIOUS
<1>1. /\ TypeOK /\ Rest /\ Accounted /\ SimsHaveTheirStart /\ RestoredAfterSuccess
      /\ cur \in 8..10 /\ cur # 0 /\ cur' = cur /\ steps' = <<>>
      /\ UNCHANGED <<todo, dirt, base, outcome, silent, down, startFile, startCache,
                     rounds, seen>>
  BY DEF IInv, Unprepared
<1>2. /\ StepsOf(cur) \in Seq(Step) /\ Len(StepsOf(cur)) \in Nat
      /\ Behind' = Len(StepsOf(cur))
  <2>1. Behind' = Len(StepsOf(cur)) - 0
    BY <1>1 DEF Behind
  <2>2. QED BY <1>1, <2>1, ListFacts
<1>3. dirt \subseteq base
  <2>1. CASE steps = StepsOf(cur)
    <3>1. Behind = 0
      BY <1>2, <2>1 DEF Behind
    <3>2. QED BY <1>1, <3>1 DEF Accounted
  <2>2. CASE cur = 8 /\ steps = Tail(Scenario8)
    <3>1. StepsOf(cur) = Scenario8
      BY <2>2 DEF StepsOf
    <3>2. Len(steps) = Len(Scenario8) - 1
      BY <1>2, <2>2, <3>1, Tidy8, HeadTailProperties
    <3>3. Behind = 1
      BY <1>2, <3>1, <3>2 DEF Behind
    <3>4. ~Adding(StepsOf(cur)[1])
      BY <3>1, Tidy8 DEF Adding
    <3>5. QED BY <1>1, <3>3, <3>4 DEF Accounted
  <2>3. QED BY <2>1, <2>2 DEF Unprepared
<1>4. TypeOK'
  BY <1>1 DEF TypeOK
<1>5. Rest'
  <2>1. Len(steps') = 0 /\ DOMAIN steps' = {} /\ steps' \in Seq(Step)
    BY <1>1
  <2>2. QED BY <1>1, <1>2, <2>1 DEF Rest, Leaves
<1>6. Accounted'
  <2>1. dirt' \ base' = {}
    BY <1>1, <1>3
  <2>2. QED BY <2>1 DEF Accounted, Removes
<1>7. StartDue' /\ RoundsDue'
  <2>1. DOMAIN steps' = {}
    BY <1>1
  <2>2. QED BY <2>1 DEF StartDue, RoundsDue
<1>8. RestoredAfterSuccess' /\ SimsHaveTheirStart'
  BY <1>1 DEF RestoredAfterSuccess, SimsHaveTheirStart
<1>9. QED BY <1>4, <1>5, <1>6, <1>7, <1>8 DEF IInv

\* Without a network the seventh scenario has switched on what its last two
\* steps switch off.
LEMMA NoNetworkInv == IInv /\ NoNetwork => IInv'
<1> SUFFICES ASSUME IInv, NoNetwork PROVE IInv'
  OBVIOUS
<1> DEFINE s == Scenario7
           n == Len(Scenario7)
           R == {"resolver", "root"}
<1>1. /\ TypeOK /\ Rest /\ Accounted /\ SimsHaveTheirStart /\ RestoredAfterSuccess
      /\ cur = 7 /\ cur # 0 /\ cur' = cur /\ Len(steps) = n - 3
      /\ steps' = SubSeq(s, n - 1, n)
      /\ UNCHANGED <<todo, dirt, base, outcome, silent, down, startFile, startCache,
                     rounds, seen>>
  BY DEF IInv, NoNetwork
<1>2. StepsOf(cur) = s /\ StepsOf(cur') = s
  BY <1>1 DEF StepsOf
<1>3. /\ s \in Seq(Step) /\ n \in Nat /\ n >= 5 /\ DOMAIN s = 1..n
      /\ \A k \in 1..3 : Adding(s[k]) => s[k].arg \in R
      /\ s[n - 1] = Must("off", "resolver") /\ s[n] = Do("off", "root")
  BY Tidy7, LenProperties DEF Tidy
<1> HIDE DEF s, n
<1>4. Behind = 3
  BY <1>1, <1>2, <1>3 DEF Behind, n
<1>5. dirt \ base \subseteq R
  <2> SUFFICES ASSUME NEW d \in dirt \ base PROVE d \in R
    OBVIOUS
  <2>1. PICK k \in 1..3 : Adding(s[k]) /\ s[k].arg = d
    BY <1>1, <1>2, <1>4 DEF Accounted
  <2>2. QED BY <1>3, <2>1
<1>6. /\ steps' \in Seq(Step) /\ Len(steps') = 2 /\ DOMAIN steps' = {1, 2}
      /\ steps'[1] = s[n - 1] /\ steps'[2] = s[n]
  <2>1. n - 1 \in Int /\ n \in Int /\ n - 1 <= n /\ n - (n - 1) + 1 = 2
        /\ (n - 1) + 1 - 1 = n - 1 /\ (n - 1) + 2 - 1 = n
    BY <1>3
  <2>2. \A i \in (n - 1)..n : s[i] \in Step
    <3>1. \A i \in (n - 1)..n : i \in 1..n
      BY <1>3
    <3>2. QED BY <1>3, <3>1, ElementOfSeq DEF n
  <2>3. /\ SubSeq(s, n - 1, n) \in Seq(Step) /\ Len(SubSeq(s, n - 1, n)) = 2
        /\ \A i \in 1..2 : SubSeq(s, n - 1, n)[i] = s[(n - 1) + i - 1]
    BY <2>1, <2>2, SubSeqProperties
  <2>4. steps' \in Seq(Step) /\ Len(steps') = 2 /\ \A i \in 1..2 : steps'[i] = s[(n - 1) + i - 1]
    BY <1>1, <2>3
  <2>5. DOMAIN steps' = 1..2
    BY <2>4, LenProperties
  <2>6. 1 \in 1..2 /\ 2 \in 1..2 /\ 1..2 = {1, 2}
    OBVIOUS
  <2>7. QED BY <2>1, <2>4, <2>5, <2>6
<1>7. /\ steps'[1].op = "off" /\ steps'[1].arg = "resolver"
      /\ steps'[2].op = "off" /\ steps'[2].arg = "root"
  BY <1>3, <1>6 DEF Must, Do
<1>8. Behind' = n - 2
  BY <1>1, <1>2, <1>3, <1>6 DEF Behind, n, s
<1>9. TypeOK'
  BY <1>1 DEF TypeOK
<1>10. Rest'
  <2>1. Leaves(steps', {})
    BY <1>6, <1>7 DEF Leaves, Adding
  <2>2. \A i \in 1..Len(steps') : steps'[i] = s[Behind' + i]
    <3>1. Behind' + 1 = n - 1 /\ Behind' + 2 = n
      BY <1>3, <1>8
    <3>2. \A i \in 1..Len(steps') : i = 1 \/ i = 2
      BY <1>6
    <3>3. QED BY <1>6, <3>1, <3>2
  <2>3. Len(steps') <= Len(StepsOf(cur'))
    BY <1>2, <1>3, <1>6 DEF n
  <2>4. QED BY <1>2, <1>6, <2>1, <2>2, <2>3 DEF Rest
<1>11. Accounted'
  <2>1. dirt' \ base' = dirt \ base
    BY <1>1
  <2>2. Removes(steps', dirt' \ base')
    BY <1>5, <1>6, <1>7, <2>1 DEF Removes, Removing
  <2>3. ASSUME NEW d \in dirt' \ base'
        PROVE  \E k \in 1..Behind' : Adding(StepsOf(cur')[k]) /\ StepsOf(cur')[k].arg = d
    <3>1. PICK k \in 1..3 : Adding(s[k]) /\ s[k].arg = d
      BY <1>1, <1>2, <1>4, <2>1, <2>3 DEF Accounted
    <3>2. k \in 1..Behind'
      BY <1>3, <1>8
    <3>3. QED BY <1>2, <3>1, <3>2
  <2>4. QED BY <2>2, <2>3 DEF Accounted
<1>12. StartDue' /\ RoundsDue'
  BY <1>6, <1>7 DEF StartDue, RoundsDue
<1>13. RestoredAfterSuccess' /\ SimsHaveTheirStart'
  BY <1>1 DEF RestoredAfterSuccess, SimsHaveTheirStart
<1>14. QED BY <1>9, <1>10, <1>11, <1>12, <1>13 DEF IInv

\* What is said of a scenario that runs holds when none does.
LEMMA Idle ==
  ASSUME cur' = 0, steps' = <<>>
  PROVE  Rest' /\ Accounted' /\ StartDue' /\ RoundsDue' /\ SimsHaveTheirStart'
<1>1. steps' \in Seq(Step)
  OBVIOUS
<1>2. QED BY <1>1 DEF Rest, Accounted, StartDue, RoundsDue, SimsHaveTheirStart

\* A scenario that is abandoned is not reported complete.
LEMMA RaiseInv == IInv /\ Raise => IInv'
<1> SUFFICES ASSUME IInv, Raise PROVE IInv'
  OBVIOUS
<1> DEFINE st == Head(steps)
<1>1. /\ TypeOK /\ Rest /\ cur # 0 /\ steps # <<>>
      /\ cur' = 0 /\ steps' = <<>> /\ outcome' = "failed"
      /\ todo' = todo /\ silent' = silent
      /\ \/ Effect(st.op, st.arg)
         \/ UNCHANGED <<dirt, down, startFile, startCache, rounds, seen>>
  BY DEF IInv, Raise, Fails, TypeOK
<1>2. st \in Step
  BY <1>1, HeadTailProperties DEF Rest
<1> HIDE DEF st
<1>3. /\ dirt' \subseteq Containers \cup Switches /\ down' \subseteq Clients
      /\ startFile' \in 0 .. 10 /\ startCache' \in [Servers -> 0 .. 10 \cup {None}]
      /\ seen' \subseteq [server : Servers, start : 0 .. 10]
      /\ rounds' \in [Servers -> 0 .. RoundSteps]
  <2>1. CASE Effect(st.op, st.arg)
    BY <1>1, <1>2, <2>1, EffectFacts
  <2>2. CASE UNCHANGED <<dirt, down, startFile, startCache, rounds, seen>>
    BY <1>1, <2>2, DirtType DEF TypeOK
  <2>3. QED BY <1>1, <2>1, <2>2
<1>4. TypeOK'
  BY <1>1, <1>3 DEF TypeOK, Containers, Switches
<1>5. RestoredAfterSuccess'
  BY <1>1 DEF RestoredAfterSuccess
<1>6. QED BY <1>1, <1>4, <1>5, Idle DEF IInv

\* With no step left nothing is on that was not found so.
LEMMA CompleteInv == IInv /\ Complete => IInv'
<1> SUFFICES ASSUME IInv, Complete PROVE IInv'
  OBVIOUS
<1>1. /\ TypeOK /\ Accounted /\ cur # 0 /\ steps = <<>> /\ cur' = 0 /\ steps' = <<>>
      /\ outcome' = "ok"
      /\ UNCHANGED <<todo, dirt, base, silent, down, startFile, startCache,
                     rounds, seen>>
  BY DEF IInv, Complete
<1>2. TypeOK'
  BY <1>1 DEF TypeOK
<1>3. RestoredAfterSuccess'
  <2>1. ~silent => dirt \subseteq base
    BY <1>1 DEF Accounted, Removes
  <2>2. QED BY <1>1, <2>1 DEF RestoredAfterSuccess
<1>4. QED BY <1>1, <1>2, <1>3, Idle DEF IInv

\* A container that exits changes nothing the runner has done.
LEMMA CrashInv == IInv /\ (\E c \in Clients : Crash(c)) => IInv'
<1> SUFFICES ASSUME IInv, NEW c \in Clients, Crash(c) PROVE IInv'
  OBVIOUS
<1>1. /\ down' = down \cup {c}
      /\ UNCHANGED <<todo, cur, steps, dirt, base, outcome, silent, startFile,
                     startCache, rounds, seen>>
  BY DEF Crash
<1>2. TypeOK'
  BY <1>1 DEF IInv, TypeOK
<1>3. Behind' = Behind
  BY <1>1 DEF Behind
<1>4. Rest' /\ Accounted'
  BY <1>1, <1>3 DEF IInv, Rest, Accounted
<1>5. StartDue' /\ RoundsDue' /\ RestoredAfterSuccess' /\ SimsHaveTheirStart'
  BY <1>1, <1>3 DEF IInv, StartDue, RoundsDue, RestoredAfterSuccess, SimsHaveTheirStart
<1>6. QED BY <1>2, <1>4, <1>5 DEF IInv

LEMMA StutterInv == IInv /\ UNCHANGED vars => IInv'
<1> SUFFICES ASSUME IInv, UNCHANGED vars PROVE IInv'
  OBVIOUS
<1>1. UNCHANGED <<todo, cur, steps, dirt, base, outcome, silent, down, startFile,
                  startCache, rounds, seen>>
  BY DEF vars
<1>2. Behind' = Behind
  BY <1>1 DEF Behind
<1>3. TypeOK' /\ Rest' /\ Accounted'
  BY <1>1, <1>2 DEF IInv, TypeOK, Rest, Accounted
<1>4. StartDue' /\ RoundsDue' /\ RestoredAfterSuccess' /\ SimsHaveTheirStart'
  BY <1>1, <1>2 DEF IInv, StartDue, RoundsDue, RestoredAfterSuccess, SimsHaveTheirStart
<1>5. QED BY <1>3, <1>4 DEF IInv

-----------------------------------------------------------------------------
(* The theorems.                                                           *)

\* Whatever scenarios run, in whatever order and however often, and whichever
\* steps fail: the steps left are the clean end of a scenario's list, what is
\* on is accounted for, rounds of earlier students end before the next ask, and
\* the start is due (IInv).
THEOREM Inductive == Spec => []IInv
<1>1. IInv /\ [Next]_vars => IInv'
  BY BeginInv, PerformInv, FailUnseenInv, UnpreparedInv, NoNetworkInv, RaiseInv,
     CompleteInv, CrashInv, StutterInv DEF Next, Runner
<1>2. QED BY InitInv, <1>1, PTL DEF Spec

\* Every variable of the runner keeps its type (TypeOK).
THEOREM TypeCorrect == Spec => []TypeOK
<1>1. IInv => TypeOK
  BY DEF IInv
<1>2. QED BY <1>1, Inductive, PTL

\* A scenario that run_scenarios.py reports complete, none of its clean-up
\* commands having failed unseen, leaves no sidecar, delay or switch on that it
\* did not find so, whatever the scenarios before it left behind
\* (RestoredAfterSuccess).
THEOREM RestoreCorrect == Spec => []RestoredAfterSuccess
<1>1. IInv => RestoredAfterSuccess
  BY DEF IInv
<1>2. QED BY <1>1, Inductive, PTL

\* The simulated students of a scenario are told the start that the scenario
\* itself wrote to start_at.txt, by every server that synchronises, given that a
\* round of its coordinator, in which reset() is skipped, lasts no more than five
\* steps of the runner (RunnerConstants, SimsHaveTheirStart).
THEOREM StartCorrect == Spec => []SimsHaveTheirStart
<1>1. IInv => SimsHaveTheirStart
  BY DEF IInv
<1>2. QED BY <1>1, Inductive, PTL
=============================================================================
