---------------------------- MODULE BuildsProofs ----------------------------
(* Previews and downloads: the properties of Builds, for any number of      *)
(* requests, users, workspaces, toolchains and slots. The lines come first, *)
(* then the toolchains, then each step of a request.                        *)
EXTENDS Builds, Integers, SequenceTheorems, FiniteSetTheorems,
        WellFoundedInduction, TLAPS

-----------------------------------------------------------------------------
(* Lines.                                                                   *)

\* A sequence without one of its elements.
LEMMA RemoveAtFacts ==
  ASSUME NEW S, NEW q \in Seq(S), NEW i \in 1..Len(q)
  PROVE  /\ RemoveAt(q, i) \in Seq(S)
         /\ Len(RemoveAt(q, i)) = Len(q) - 1
         /\ \A j \in 1..Len(q) - 1 :
              RemoveAt(q, i)[j] = IF j < i THEN q[j] ELSE q[j + 1]
<1> DEFINE a == SubSeq(q, 1, i - 1)
           b == SubSeq(q, i + 1, Len(q))
<1>0. Len(q) \in Nat /\ \A j \in 1..Len(q) : q[j] \in S
  BY LenProperties, ElementOfSeq
<1>1. /\ a \in Seq(S)
      /\ Len(a) = i - 1
      /\ \A j \in 1..i - 1 : a[j] = q[j]
  OBVIOUS
<1>2. /\ b \in Seq(S)
      /\ Len(b) = Len(q) - i
      /\ \A j \in 1..Len(q) - i : b[j] = q[i + j]
  OBVIOUS
<1>3. RemoveAt(q, i) = a \o b
  BY DEF RemoveAt
<1> HIDE DEF a, b
<1>4. /\ a \o b \in Seq(S)
      /\ Len(a \o b) = Len(a) + Len(b)
      /\ \A j \in 1..Len(a) + Len(b) :
           (a \o b)[j] = IF j <= Len(a) THEN a[j] ELSE b[j - Len(a)]
  BY <1>1, <1>2, ConcatProperties
<1>5. Len(a) + Len(b) = Len(q) - 1
  BY <1>0, <1>1, <1>2
<1>6. ASSUME NEW j \in 1..Len(q) - 1
      PROVE  (a \o b)[j] = IF j < i THEN q[j] ELSE q[j + 1]
  <2>1. CASE j < i
    BY <2>1, <1>0, <1>1, <1>4, <1>5
  <2>2. CASE ~(j < i)
    <3>1. j - (i - 1) \in 1..Len(q) - i /\ i + (j - (i - 1)) = j + 1
      BY <2>2, <1>0
    <3>2. (a \o b)[j] = b[j - (i - 1)]
      BY <2>2, <1>0, <1>1, <1>4, <1>5
    <3>3. b[j - (i - 1)] = q[i + (j - (i - 1))]
      BY <3>1, <1>2
    <3>4. QED
      BY <2>2, <3>1, <3>2, <3>3
  <2>3. QED
    BY <2>1, <2>2
<1>7. QED
  BY <1>3, <1>4, <1>5, <1>6

\* The place of the first element that is e.
PlaceOf(q, e) == SelectInSeq(q, LAMBDA v : v = e)

\* It is e's place.
LEMMA PlaceFacts ==
  ASSUME NEW S, NEW q \in Seq(S), NEW e, NEW i \in 1..Len(q), q[i] = e
  PROVE  PlaceOf(q, e) \in 1..Len(q) /\ q[PlaceOf(q, e)] = e
<1> DEFINE I == { j \in 1..Len(q) : q[j] = e }
<1>1. i \in I /\ I \subseteq Nat /\ Len(q) \in Nat
  BY LenProperties
<1>2. \E x \in I : \A y \in I : x <= y
  <2> DEFINE R == OpToRel(<, Nat)
  <2>1. IsWellFoundedOn(R, Nat)
    BY NatLessThanWellFounded
  <2>2. \A x \in Nat, y \in Nat : <<x, y>> \in R <=> x < y
    BY DEF OpToRel
  <2> HIDE DEF R
  <2>3. PICK m \in I : \A y \in I : ~ (<<y, m>> \in R)
    BY <1>1, <2>1, WFMin
  <2>4. ASSUME NEW y \in I PROVE m <= y
    <3>1. m \in Nat /\ y \in Nat
      BY <1>1
    <3>2. ~(y < m)
      BY <2>2, <2>3, <3>1
    <3>3. QED
      BY <3>1, <3>2
  <2>5. QED
    BY <2>4
<1>3. PlaceOf(q, e) = CHOOSE x \in I : \A y \in I : x <= y
  BY <1>1 DEF PlaceOf, SelectInSeq, Min
<1>4. QED
  BY <1>2, <1>3

\* A line without one that has at most one place there.
LEMMA WithoutFacts ==
  ASSUME NEW S, NEW q, Line(q, S), NEW r
  PROVE  /\ Line(Without(q, r), S \ {r})
         /\ \A x : x # r /\ First(q, x) => First(Without(q, r), x)
<1>1. /\ q \in Seq(Requests) /\ Len(q) \in Nat /\ DOMAIN q = 1..Len(q)
      /\ \A i, j \in 1..Len(q) : q[i] = q[j] => i = j
      /\ \A x : x \in S <=> \E i \in 1..Len(q) : q[i] = x
      /\ q = <<>> <=> Len(q) = 0
  BY LenProperties, EmptySeq DEF Line, IsInjective, ToSet
<1>2. CASE r \notin S
  <2>1. Without(q, r) = q
    BY <1>1, <1>2 DEF Without, RemoveFirst
  <2>2. S \ {r} = S
    BY <1>2
  <2>3. QED
    BY <2>1, <2>2
<1>3. CASE r \in S
  <2> DEFINE p == PlaceOf(q, r)
             t == Without(q, r)
  <2>1. PICK n \in 1..Len(q) : q[n] = r
    BY <1>1, <1>3
  <2>2. p \in 1..Len(q) /\ q[p] = r
    BY <1>1, <2>1, PlaceFacts
  <2>3. t = RemoveAt(q, p)
    BY <2>1 DEF Without, RemoveFirst, PlaceOf
  <2> HIDE DEF p, t
  <2>4. /\ t \in Seq(Requests) /\ Len(t) = Len(q) - 1
        /\ \A j \in 1..Len(t) : t[j] = IF j < p THEN q[j] ELSE q[j + 1]
        /\ DOMAIN t = 1..Len(t)
        /\ t = <<>> <=> Len(t) = 0
    <3>1. /\ t \in Seq(Requests) /\ Len(t) = Len(q) - 1
          /\ \A j \in 1..Len(q) - 1 : t[j] = IF j < p THEN q[j] ELSE q[j + 1]
      <4>1. q \in Seq(Requests) /\ p \in 1..Len(q)
        BY <1>1, <2>2
      <4>2. /\ RemoveAt(q, p) \in Seq(Requests)
            /\ Len(RemoveAt(q, p)) = Len(q) - 1
            /\ \A j \in 1..Len(q) - 1 :
                 RemoveAt(q, p)[j] = IF j < p THEN q[j] ELSE q[j + 1]
        BY <4>1, RemoveAtFacts
      <4>3. QED
        BY <2>3, <4>2
    <3>2. DOMAIN t = 1..Len(t)
      BY <3>1, LenProperties
    <3>3. t = <<>> <=> Len(t) = 0
      BY <3>1, EmptySeq
    <3>4. QED
      BY <3>1, <3>2, <3>3
  <2>5. IsInjective(t)
    <3> SUFFICES ASSUME NEW i \in 1..Len(t), NEW j \in 1..Len(t), t[i] = t[j]
                 PROVE  i = j
      BY <2>4 DEF IsInjective
    <3> DEFINE at(k) == IF k < p THEN k ELSE k + 1
    <3>1. at(i) \in 1..Len(q) /\ at(j) \in 1..Len(q) /\ q[at(i)] = q[at(j)]
      BY <1>1, <2>4
    <3>2. at(i) = at(j)
      BY <1>1, <3>1
    <3>3. QED
      BY <1>1, <2>2, <2>4, <3>2
  <2>6. \A x \in ToSet(t) : x \in S \ {r}
    <3> SUFFICES ASSUME NEW i \in 1..Len(t) PROVE t[i] \in S /\ t[i] # r
      BY <2>4 DEF ToSet
    <3> DEFINE at == IF i < p THEN i ELSE i + 1
    <3>1. at \in 1..Len(q) /\ at # p /\ t[i] = q[at]
      BY <1>1, <2>2, <2>4
    <3>2. QED
      BY <1>1, <2>2, <3>1
  <2>7. ASSUME NEW x \in S, x # r PROVE \E i \in 1..Len(t) : t[i] = x
    <3>1. PICK j \in 1..Len(q) : q[j] = x
      BY <1>1
    <3>2. CASE j < p
      <4>1. j \in 1..Len(t)
        BY <1>1, <2>2, <2>4, <3>2
      <4>2. QED
        BY <2>4, <3>1, <3>2, <4>1
    <3>3. CASE j > p
      <4>1. j - 1 \in 1..Len(t) /\ ~(j - 1 < p) /\ (j - 1) + 1 = j
        BY <1>1, <2>2, <2>4, <3>3
      <4>2. t[j - 1] = x
        BY <2>4, <3>1, <4>1
      <4>3. QED
        BY <4>1, <4>2
    <3>4. j # p
      BY <2>2, <2>7, <3>1
    <3>5. QED
      BY <2>2, <3>2, <3>3, <3>4
  <2>8. ToSet(t) = S \ {r}
    BY <2>4, <2>6, <2>7 DEF ToSet
  <2>9. ASSUME NEW x, x # r, First(q, x) PROVE First(t, x)
    <3>1. Len(q) # 0 /\ q[1] = x /\ 1 \in 1..Len(q)
      BY <1>1, <2>9 DEF First
    <3>2. p # 1
      BY <2>2, <2>9, <3>1
    <3>3. 1 < p /\ 1 \in 1..Len(t)
      BY <1>1, <2>2, <2>4, <3>2
    <3>4. t[1] = x
      BY <2>4, <3>1, <3>3
    <3>5. QED
      BY <2>4, <3>3, <3>4 DEF First
  <2>10. QED
    BY <2>4, <2>5, <2>8, <2>9 DEF Line, t
<1>4. QED
  BY <1>2, <1>3

\* A line that somebody joins.
LEMMA AppendFacts ==
  ASSUME NEW S, NEW q, Line(q, S), NEW r \in Requests, r \notin S
  PROVE  /\ Line(Append(q, r), S \union {r})
         /\ \A x : First(q, x) => First(Append(q, r), x)
<1> DEFINE t == Append(q, r)
<1>1. /\ q \in Seq(Requests) /\ Len(q) \in Nat /\ DOMAIN q = 1..Len(q)
      /\ \A i, j \in 1..Len(q) : q[i] = q[j] => i = j
      /\ \A x : x \in S <=> \E i \in 1..Len(q) : q[i] = x
      /\ q = <<>> <=> Len(q) = 0
  BY LenProperties, EmptySeq DEF Line, IsInjective, ToSet
<1>2. /\ t \in Seq(Requests) /\ Len(t) = Len(q) + 1 /\ t # <<>>
      /\ \A i \in 1..Len(q) : t[i] = q[i]
      /\ t[Len(q) + 1] = r
      /\ DOMAIN t = 1..Len(t)
  BY <1>1, AppendProperties, LenProperties
<1> HIDE DEF t
<1>3. \A i \in 1..Len(t) : i \in 1..Len(q) \/ i = Len(q) + 1
  BY <1>1, <1>2
<1>4. \A i \in 1..Len(q) : t[i] # r
  BY <1>1, <1>2
<1>5. IsInjective(t)
  <2> SUFFICES ASSUME NEW i \in 1..Len(t), NEW j \in 1..Len(t), t[i] = t[j]
               PROVE  i = j
    BY <1>2 DEF IsInjective
  <2>1. QED
    BY <1>1, <1>2, <1>3, <1>4
<1>6. ToSet(t) = S \union {r}
  <2>1. \A x \in ToSet(t) : x \in S \union {r}
    BY <1>1, <1>2, <1>3 DEF ToSet
  <2>2. \A i \in 1..Len(q) : i \in DOMAIN t
    BY <1>1, <1>2
  <2>3. \A x \in S : x \in ToSet(t)
    BY <1>1, <1>2, <2>2 DEF ToSet
  <2>4. Len(q) + 1 \in DOMAIN t
    BY <1>1, <1>2
  <2>5. r \in ToSet(t)
    BY <1>2, <2>4 DEF ToSet
  <2>6. QED
    BY <2>1, <2>3, <2>5
<1>7. ASSUME NEW x, First(q, x) PROVE First(t, x)
  <2>1. 1 \in 1..Len(q)
    BY <1>1, <1>7 DEF First
  <2>2. QED
    BY <1>2, <1>7, <2>1 DEF First
<1>8. QED
  BY <1>2, <1>5, <1>6, <1>7 DEF Line, t

\* A line that nobody stands in.
LEMMA EmptyLine == Line(<<>>, {})
BY EmptySeq DEF Line, IsInjective, ToSet

-----------------------------------------------------------------------------
(* Toolchains.                                                              *)

ToolInv == ToolchainTypeOK /\ InstallsFit

\* The line of the installs, as a sequence.
LEMMA InstallLine ==
  ASSUME NEW q
  PROVE  q \in SeqOf(Names, MaxInstalls) <=> q \in Seq(Names) /\ Len(q) <= MaxInstalls
<1>1. ASSUME q \in SeqOf(Names, MaxInstalls)
      PROVE  q \in Seq(Names) /\ Len(q) <= MaxInstalls
  <2>1. PICK m \in 0..MaxInstalls : q \in [1..m -> Names]
    BY <1>1 DEF SeqOf
  <2>2. m \in Nat /\ m <= MaxInstalls
    BY MaxInstallsAssumption
  <2>3. QED
    BY <2>1, <2>2, IsASeq, LenProperties
<1>2. ASSUME q \in Seq(Names), Len(q) <= MaxInstalls
      PROVE  q \in SeqOf(Names, MaxInstalls)
  <2>1. Len(q) \in 0..MaxInstalls /\ q \in [1..Len(q) -> Names]
    BY <1>2, LenProperties, MaxInstallsAssumption
  <2>2. QED
    BY <2>1 DEF SeqOf
<1>3. QED
  BY <1>1, <1>2

\* The invariant of the toolchains, spelled out for any state of them.
ToolOK(f, u, q, s, x) ==
  /\ f \in [Names -> {"absent", "half", "ready"}]
  /\ u \subseteq {n \in Names : f[n] = "ready"}
  /\ q \in Seq(Names) /\ Len(q) \in Nat /\ Len(q) <= MaxInstalls
  /\ \A i, j \in 1..Len(q) : q[i] = q[j] => i = j
  /\ s \in {"fetch", "files", "installed", "failed"}
  /\ Len(q) = 0 => s = "fetch"
  /\ x \subseteq Names
  /\ \A i \in 1..Len(q) : f[q[i]] = "ready" <=> i = 1 /\ s = "installed"

\* It says the same, now and in the next state.
LEMMA ToolFacts ==
  /\ ToolInv <=> ToolOK(folder, fresh, installs, stage, failures)
  /\ ToolInv' <=> ToolOK(folder', fresh', installs', stage', failures')
<1>1. ASSUME NEW f, NEW u, NEW q, NEW s, NEW x
      PROVE  ToolOK(f, u, q, s, x) <=>
               /\ f \in [Names -> {"absent", "half", "ready"}]
               /\ u \subseteq {n \in Names : f[n] = "ready"}
               /\ q \in SeqOf(Names, MaxInstalls) /\ IsInjective(q)
               /\ s \in {"fetch", "files", "installed", "failed"}
               /\ q = <<>> => s = "fetch"
               /\ x \subseteq Names
               /\ \A i \in DOMAIN q : f[q[i]] = "ready" <=> i = 1 /\ s = "installed"
  <2>1. q \in SeqOf(Names, MaxInstalls)
          <=> q \in Seq(Names) /\ Len(q) \in Nat /\ Len(q) <= MaxInstalls
    BY InstallLine, LenProperties
  <2>2. q \in Seq(Names) => DOMAIN q = 1..Len(q) /\ (q = <<>> <=> Len(q) = 0)
    BY LenProperties, EmptySeq
  <2>3. CASE ~(q \in Seq(Names))
    BY <2>1, <2>3 DEF ToolOK
  <2>4. CASE q \in Seq(Names)
    <3>1. IsInjective(q) <=> \A i, j \in 1..Len(q) : q[i] = q[j] => i = j
      BY <2>2, <2>4 DEF IsInjective
    <3>2. QED
      BY <2>1, <2>2, <2>4, <3>1 DEF ToolOK
  <2>5. QED
    BY <2>3, <2>4
<1>2. ToolInv <=> ToolOK(folder, fresh, installs, stage, failures)
  BY <1>1 DEF ToolInv, ToolchainTypeOK, InstallsFit, IsInstalled
<1>3. ToolInv' <=> ToolOK(folder', fresh', installs', stage', failures')
  BY <1>1 DEF ToolInv, ToolchainTypeOK, InstallsFit, IsInstalled
<1>4. QED
  BY <1>2, <1>3

\* Whoever is in the line of the installs.
LEMMA InLine ==
  /\ installs \in Seq(Names) =>
       \A n : Installing(n) <=> \E i \in 1..Len(installs) : installs[i] = n
  /\ installs' \in Seq(Names) =>
       \A n : Installing(n)' <=> \E i \in 1..Len(installs') : installs'[i] = n
BY LenProperties DEF Installing

\* What a step leaves as it is for those who use a toolchain or wait for it.
ToolsKept == \A n \in Names : /\ IsInstalled(n) => IsInstalled(n)'
                              /\ Installing(n) => Installing(n)'

\* A caller starts an install of what is missing, unless there are too many.
LEMMA StartedFacts ==
  ASSUME ToolInv, NEW n \in Names, ~IsInstalled(n), installs' = Started(installs, n),
         UNCHANGED <<folder, fresh, stage, failures>>
  PROVE  ToolInv' /\ ToolsKept /\ (Waits(n) => Installing(n)')
<1>1. ToolOK(folder, fresh, installs, stage, failures)
  BY ToolFacts
<1> DEFINE L == Len(installs)
           t == Append(installs, n)
<1>2. installs \in Seq(Names) /\ L \in Nat
  BY <1>1 DEF ToolOK
<1>3. CASE Contains(installs, n) \/ L >= MaxInstalls
  <2>1. installs' = installs
    BY <1>3 DEF Started
  <2>2. ToolInv' /\ ToolsKept
    BY <1>1, <2>1, ToolFacts DEF ToolsKept, IsInstalled, Installing
  <2>3. Waits(n) => Installing(n)
    BY <1>2, <1>3, InLine DEF Waits, Raises, Contains
  <2>4. QED
    BY <2>1, <2>2, <2>3 DEF Installing
<1>4. CASE ~Contains(installs, n) /\ ~(L >= MaxInstalls)
  <2>1. installs' = t
    BY <1>4 DEF Started
  <2>2. /\ t \in Seq(Names) /\ Len(t) = L + 1
        /\ \A i \in 1..L : t[i] = installs[i]
        /\ t[L + 1] = n
    BY <1>2, AppendProperties
  <2> HIDE DEF t
  <2>3. \A i \in 1..L : installs[i] # n
    BY <1>4 DEF Contains
  <2>4. \A i \in 1..Len(t) : i \in 1..L \/ i = L + 1
    BY <1>2, <2>2
  <2>5. L + 1 <= MaxInstalls
    BY <1>2, <1>4, MaxInstallsAssumption
  <2>6. \A i, j \in 1..Len(t) : t[i] = t[j] => i = j
    BY <1>1, <2>2, <2>3, <2>4 DEF ToolOK
  <2>7. \A i \in 1..Len(t) : folder[t[i]] = "ready" <=> i = 1 /\ stage = "installed"
    <3> SUFFICES ASSUME NEW i \in 1..Len(t)
                 PROVE  folder[t[i]] = "ready" <=> i = 1 /\ stage = "installed"
      OBVIOUS
    <3>1. CASE i \in 1..L
      BY <1>1, <2>2, <3>1 DEF ToolOK
    <3>2. CASE i = L + 1
      <4>1. folder[t[i]] # "ready"
        BY <2>2, <3>2 DEF IsInstalled
      <4>2. i = 1 => stage = "fetch"
        BY <1>1, <1>2, <3>2 DEF ToolOK
      <4>3. QED
        BY <4>1, <4>2
    <3>3. QED
      BY <2>4, <3>1, <3>2
  <2>8. ToolOK(folder, fresh, t, stage, failures)
    BY <1>1, <1>2, <2>2, <2>5, <2>6, <2>7 DEF ToolOK
  <2>9. ToolInv'
    BY <2>1, <2>8, ToolFacts
  <2>10. Installing(n)'
    <3>1. L + 1 \in 1..Len(t)
      BY <1>2, <2>2
    <3>2. QED
      BY <2>1, <2>2, <3>1, InLine
  <2>11. ASSUME NEW m \in Names, Installing(m) PROVE Installing(m)'
    <3>1. PICK i \in 1..L : installs[i] = m
      BY <1>2, <2>11, InLine
    <3>2. i \in 1..Len(t) /\ t[i] = m
      BY <1>2, <2>2, <3>1
    <3>3. QED
      BY <2>1, <2>2, <3>2, InLine
  <2>12. QED
    BY <2>9, <2>10, <2>11 DEF ToolsKept, IsInstalled
<1>5. QED
  BY <1>3, <1>4

\* The install in front gets on: it removes the rest of an earlier attempt,
\* and its toolchain is there or it fails.
LEMMA InstallGetsOn ==
  ASSUME ToolInv, StartFiles \/ Install \/ InstallFails
  PROVE  ToolInv' /\ ToolsKept
<1>1. ToolOK(folder, fresh, installs, stage, failures)
  BY ToolFacts
<1> DEFINE h == installs[1]
<1>2. /\ installs' = installs /\ failures' = failures
      /\ Len(installs) \in Nat /\ Len(installs) # 0 /\ 1 \in 1..Len(installs)
      /\ stage # "installed" /\ stage' \in {"files", "installed", "failed"}
  <2>1. installs # <<>> /\ installs \in Seq(Names) /\ Len(installs) \in Nat
    BY <1>1 DEF ToolOK, StartFiles, Install, InstallFails
  <2>2. Len(installs) # 0
    BY <2>1, EmptySeq
  <2>3. QED
    BY <2>1, <2>2 DEF StartFiles, Install, InstallFails
<1>3. h \in Names /\ folder[h] # "ready" /\ h \notin fresh
  BY <1>1, <1>2, ElementOfSeq DEF ToolOK
<1>4. /\ folder' \in [Names -> {"absent", "half", "ready"}]
      /\ \A m \in Names : m # h => folder'[m] = folder[m]
      /\ folder'[h] = "ready" <=> stage' = "installed"
      /\ fresh' \subseteq {n \in Names : folder'[n] = "ready"}
  <2>1. CASE StartFiles
    BY <1>1, <1>3, <2>1 DEF ToolOK, StartFiles
  <2>2. CASE Install
    BY <1>1, <1>3, <2>2 DEF ToolOK, Install
  <2>3. CASE InstallFails
    BY <1>1, <1>3, <2>3 DEF ToolOK, InstallFails
  <2>4. QED
    BY <2>1, <2>2, <2>3
<1>5. \A i \in 1..Len(installs) :
        folder'[installs[i]] = "ready" <=> i = 1 /\ stage' = "installed"
  <2> SUFFICES ASSUME NEW i \in 1..Len(installs)
               PROVE  folder'[installs[i]] = "ready" <=> i = 1 /\ stage' = "installed"
    OBVIOUS
  <2>1. CASE i = 1
    BY <1>4, <2>1
  <2>2. CASE i # 1
    <3>1. installs[i] \in Names /\ installs[i] # h /\ folder[installs[i]] # "ready"
      BY <1>1, <1>2, <2>2, ElementOfSeq DEF ToolOK
    <3>2. QED
      BY <1>4, <2>2, <3>1
  <2>3. QED
    BY <2>1, <2>2
<1>6. ToolOK(folder', fresh', installs', stage', failures')
  BY <1>1, <1>2, <1>4, <1>5 DEF ToolOK
<1>7. ToolsKept
  BY <1>2, <1>3, <1>4 DEF ToolsKept, IsInstalled, Installing
<1>8. QED
  BY <1>6, <1>7, ToolFacts

\* The callback of an install that has ended lets the next one begin.
LEMMA FinishedFacts ==
  ASSUME ToolInv, Finished
  PROVE  /\ ToolInv'
         /\ installs[1] \in Names
         /\ stage = "installed" => IsInstalled(installs[1])
         /\ stage \in {"installed", "failed"}
         /\ \A m \in Names : IsInstalled(m) => IsInstalled(m)'
         /\ \A m \in Names : Installing(m) /\ m # installs[1] => Installing(m)'
<1>1. ToolOK(folder, fresh, installs, stage, failures)
  BY ToolFacts
<1> DEFINE L == Len(installs)
           t == Tail(installs)
<1>2. /\ installs \in Seq(Names) /\ L \in Nat /\ L # 0 /\ 1 \in 1..L
      /\ installs' = t /\ stage' = "fetch" /\ folder' = folder /\ fresh' = fresh
      /\ stage \in {"installed", "failed"}
  <2>1. installs # <<>> /\ installs \in Seq(Names) /\ Len(installs) \in Nat
    BY <1>1 DEF ToolOK, Finished
  <2>2. Len(installs) # 0
    BY <2>1, EmptySeq
  <2>3. QED
    BY <2>1, <2>2 DEF Finished
<1>3. /\ t \in Seq(Names) /\ Len(t) = L - 1
      /\ \A i \in 1..Len(t) : t[i] = installs[i + 1]
  <2>1. installs # <<>>
    BY <1>2, EmptySeq
  <2>2. QED
    BY <1>2, <2>1, HeadTailProperties
<1>4. installs[1] \in Names
  BY <1>2, ElementOfSeq
<1> HIDE DEF t
<1>5. \A i \in 1..Len(t) : i + 1 \in 1..L /\ i + 1 # 1
  BY <1>2, <1>3
<1>6. failures' \subseteq Names
  BY <1>1, <1>4 DEF ToolOK, Finished
<1>7. \A i, j \in 1..Len(t) : t[i] = t[j] => i = j
  BY <1>1, <1>3, <1>5 DEF ToolOK
<1>8. \A i \in 1..Len(t) : folder[t[i]] # "ready"
  BY <1>1, <1>3, <1>5 DEF ToolOK
<1>9. Len(t) \in Nat /\ Len(t) <= MaxInstalls
  BY <1>1, <1>2, <1>3, MaxInstallsAssumption DEF ToolOK
<1>10. ToolOK(folder', fresh', installs', stage', failures')
  BY <1>1, <1>2, <1>3, <1>6, <1>7, <1>8, <1>9 DEF ToolOK
<1>11. stage = "installed" => IsInstalled(installs[1])
  BY <1>1, <1>2 DEF ToolOK, IsInstalled
<1>12. ASSUME NEW m \in Names, Installing(m), m # installs[1] PROVE Installing(m)'
  <2>1. PICK i \in 1..L : installs[i] = m
    BY <1>2, <1>12, InLine
  <2>2. i # 1
    BY <1>12, <2>1
  <2>3. i - 1 \in 1..Len(t) /\ t[i - 1] = m
    BY <1>2, <1>3, <2>1, <2>2
  <2>4. QED
    BY <1>2, <1>3, <2>3, InLine
<1>13. QED
  BY <1>2, <1>4, <1>10, <1>11, <1>12, ToolFacts DEF IsInstalled

\* Failures are forgotten and toolchains go unused.
LEMMA TimeFacts ==
  ASSUME ToolInv, NEW n \in Names, RetryAfter(n) \/ GoesUnused(n)
  PROVE  ToolInv' /\ ToolsKept
<1>1. ToolOK(folder, fresh, installs, stage, failures)
  BY ToolFacts
<1>2. /\ folder' = folder /\ installs' = installs /\ stage' = stage
      /\ fresh' \subseteq fresh /\ failures' \subseteq failures
  BY DEF RetryAfter, GoesUnused
<1>3. ToolOK(folder', fresh', installs', stage', failures')
  BY <1>1, <1>2 DEF ToolOK
<1>4. QED
  BY <1>2, <1>3, ToolFacts DEF ToolsKept, IsInstalled, Installing

\* After a start, what is prepared is what the workspaces need and is not there.
LEMMA RestartFacts ==
  ASSUME ToolInv, NEW used, NEW active, active \subseteq Names, IsFiniteSet(active),
         Restart(used, active)
  PROVE  ToolInv'
<1>1. ToolOK(folder, fresh, installs, stage, failures)
  BY ToolFacts
<1>0. PICK unlike \in SUBSET {n \in Names : folder[n] = "half"} :
        LET kept == [n \in Names |-> IF Removable(n, used) /\ n \notin unlike THEN "absent"
                                                                            ELSE folder[n]]
            missing == {n \in active : kept[n] # "ready"}
        IN /\ folder' = kept
           /\ fresh' = {n \in fresh : kept[n] = "ready"}
           /\ \E order \in SetToSeqs(missing) :
                installs' = SubSeq(order, 1, IF Len(order) < MaxInstalls THEN Len(order) ELSE MaxInstalls)
           /\ stage' = "fetch" /\ failures' = {}
  BY DEF Restart
<1> DEFINE kept == [n \in Names |-> IF Removable(n, used) /\ n \notin unlike THEN "absent"
                                                                           ELSE folder[n]]
           missing == {n \in active : kept[n] # "ready"}
           cut(o) == SubSeq(o, 1, IF Len(o) < MaxInstalls THEN Len(o) ELSE MaxInstalls)
<1>2. /\ folder' = kept /\ fresh' = {n \in fresh : kept[n] = "ready"}
      /\ stage' = "fetch" /\ failures' = {}
      /\ \E o \in SetToSeqs(missing) : installs' = cut(o)
  BY <1>0
<1>3. kept \in [Names -> {"absent", "half", "ready"}]
  BY <1>1 DEF ToolOK
<1>4. missing \subseteq Names
  OBVIOUS
<1>5. Cardinality(missing) \in Nat
  <2>1. missing \in SUBSET active
    OBVIOUS
  <2>2. IsFiniteSet(missing)
    BY <2>1, FS_Subset
  <2>3. QED
    BY <2>2, FS_CardinalityType
<1>6. PICK o \in SetToSeqs(missing) : installs' = cut(o)
  BY <1>2
<1>7. /\ \A n \in missing : kept[n] # "ready"
      /\ fresh' \subseteq {n \in Names : kept[n] = "ready"}
  BY <1>1, <1>2 DEF ToolOK
<1> HIDE DEF kept, missing
<1>8. /\ o \in Seq(Names) /\ Len(o) \in Nat
      /\ \A i \in 1..Len(o) : o[i] \in missing
      /\ \A i, j \in 1..Len(o) : o[i] = o[j] => i = j
  <2> DEFINE c == Cardinality(missing)
  <2>1. o \in [1..c -> missing] /\ \A i, j \in 1..c : i # j => o[i] # o[j]
    BY <1>6 DEF SetToSeqs
  <2> HIDE DEF c
  <2>2. c \in Nat
    BY <1>5 DEF c
  <2>3. o \in [1..c -> Names]
    BY <1>4, <2>1
  <2>4. o \in Seq(Names) /\ Len(o) = c
    BY <2>2, <2>3, IsASeq, LenProperties
  <2>5. QED
    BY <2>1, <2>2, <2>4
<1> DEFINE k == IF Len(o) < MaxInstalls THEN Len(o) ELSE MaxInstalls
           t == SubSeq(o, 1, k)
<1>9. k \in 0..Len(o) /\ k <= MaxInstalls
  BY <1>8, MaxInstallsAssumption
<1>10. /\ t \in Seq(Names) /\ Len(t) = k
       /\ \A i \in 1..k : t[i] = o[i]
  BY <1>8, <1>9
<1>11. installs' = t
  BY <1>6
<1> HIDE DEF k, t
<1>12. \A i \in 1..Len(t) : i \in 1..Len(o) /\ t[i] = o[i]
  BY <1>8, <1>9, <1>10
<1>13. \A i, j \in 1..Len(t) : t[i] = t[j] => i = j
  BY <1>8, <1>12
<1>14. \A i \in 1..Len(t) : kept[t[i]] # "ready"
  BY <1>7, <1>8, <1>12
<1>15. Len(t) \in Nat /\ Len(t) <= MaxInstalls
  BY <1>9, <1>10, <1>8
<1>16. ToolOK(folder', fresh', installs', stage', failures')
  BY <1>2, <1>3, <1>7, <1>10, <1>11, <1>13, <1>14, <1>15 DEF ToolOK
<1>17. QED
  BY <1>16, ToolFacts

-----------------------------------------------------------------------------
(* Requests. The invariant is one statement for each of them, and one for   *)
(* each line.                                                               *)

ReqOK(r) == RequestOK(r) /\ HasToolchain(r) /\ HasBuildLock(r) /\ HasTurn(r)

ReqInv == DOMAIN req = Requests /\ \A r \in Requests : ReqOK(r)

LinesOK ==
  /\ DOMAIN building = Workspaces /\ \A w \in Workspaces : Line(building[w], InBuilding(w))
  /\ DOMAIN turns = Users /\ \A u \in Users : Line(turns[u], InTurns(u))
  /\ Line(slots, InSlots)

WantsOK == wants \in [Workspaces -> Names \union {Invalid}]

\* The invariant in its parts, now and in the next state.
LEMMA Parts ==
  /\ IInv <=> ToolInv /\ WantsOK /\ ReqInv /\ LinesOK
  /\ IInv' <=> ToolInv' /\ WantsOK' /\ ReqInv' /\ LinesOK'
BY DEF IInv, TypeOK, ToolInv, WantsOK, ReqInv, LinesOK, ReqOK

\* A request that is not idle.
Request(q) ==
  /\ q \in [at : Places, kind : Kinds, work : Workspaces, user : Users,
            tool : Names \union {Invalid}]
  /\ q.at \in {"preparing", "ensuring", "ensured", "slot"} <=> q.tool \in Names

\* A request is idle or a request.
LEMMA IdleFacts ==
  ASSUME NEW r \in Requests, RequestOK(r)
  PROVE  \/ req[r] = Idle /\ req[r].at = "idle"
         \/ Request(req[r]) /\ req[r].at # "idle"
BY DEF RequestOK, Request, Idle, Places

\* Those in front of a line who stay there.
FrontsKept(r) ==
  \A s \in Requests : s # r =>
    /\ \A w \in Workspaces : First(building[w], s) => First(building[w], s)'
    /\ \A u \in Users : First(turns[u], s) => First(turns[u], s)'

\* A step leaves a request alone.
LEMMA OthersKept ==
  ASSUME NEW r, NEW s \in Requests, s # r, ReqOK(s), req'[s] = req[s], ToolsKept,
         FrontsKept(r)
  PROVE  ReqOK(s)'
<1>1. CASE req[s] = Idle
  BY <1>1 DEF ReqOK, RequestOK, HasToolchain, HasBuildLock, HasTurn, BeyondBuildLock, Queued, Idle
<1>2. CASE Request(req[s]) /\ req[s].at # "idle"
  <2>1. req[s].work \in Workspaces /\ req[s].user \in Users
    BY <1>2 DEF Request
  <2>2. RequestOK(s)'
    BY <1>2 DEF ReqOK, RequestOK, Request, ToolsKept, Idle
  <2>3. HasToolchain(s)'
    BY <1>2 DEF ReqOK, HasToolchain, Request, ToolsKept
  <2>4. HasBuildLock(s)'
    BY <2>1 DEF ReqOK, HasBuildLock, FrontsKept, BeyondBuildLock, Queued
  <2>5. HasTurn(s)'
    BY <2>1 DEF ReqOK, HasTurn, FrontsKept
  <2>6. QED
    BY <2>2, <2>3, <2>4, <2>5 DEF ReqOK
<1>3. QED
  BY <1>1, <1>2, IdleFacts DEF ReqOK

\* Who is in the lines, once one request has moved.
LEMMA WhoIsInLine ==
  ASSUME NEW r \in Requests, \A s \in Requests : s # r => req'[s] = req[s]
  PROVE  /\ \A w : InBuilding(w)' =
              IF (Queued(r) /\ req[r].kind # "download" /\ req[r].work = w)'
              THEN InBuilding(w) \union {r} ELSE InBuilding(w) \ {r}
         /\ \A u : InTurns(u)' =
              IF (BeyondBuildLock(r) /\ req[r].user = u)'
              THEN InTurns(u) \union {r} ELSE InTurns(u) \ {r}
         /\ InSlots' = IF (req[r].at = "slot")' THEN InSlots \union {r} ELSE InSlots \ {r}
<1>1. ASSUME NEW w
      PROVE  InBuilding(w)' =
               IF (Queued(r) /\ req[r].kind # "download" /\ req[r].work = w)'
               THEN InBuilding(w) \union {r} ELSE InBuilding(w) \ {r}
  BY DEF InBuilding, Queued
<1>2. ASSUME NEW u
      PROVE  InTurns(u)' =
               IF (BeyondBuildLock(r) /\ req[r].user = u)'
               THEN InTurns(u) \union {r} ELSE InTurns(u) \ {r}
  BY DEF InTurns, BeyondBuildLock, Queued
<1>3. InSlots' = IF (req[r].at = "slot")' THEN InSlots \union {r} ELSE InSlots \ {r}
  BY DEF InSlots
<1>4. QED
  BY <1>1, <1>2, <1>3

\* A request ends.
LEMMA LeaveFacts ==
  ASSUME ReqInv, LinesOK, NEW r \in Requests, Leave(r), ToolsKept
  PROVE  ReqInv' /\ LinesOK'
<1>1. /\ DOMAIN req' = Requests /\ req'[r] = Idle
      /\ \A s \in Requests : s # r => req'[s] = req[s]
  BY DEF Leave, ReqInv
<1>2. /\ ~Queued(r)' /\ ~BeyondBuildLock(r)' /\ ~(req[r].at = "slot")'
  BY <1>1 DEF Queued, BeyondBuildLock, Idle
<1>3. /\ \A w : InBuilding(w)' = InBuilding(w) \ {r}
      /\ \A u : InTurns(u)' = InTurns(u) \ {r}
      /\ InSlots' = InSlots \ {r}
  BY <1>1, <1>2, WhoIsInLine
<1>4. /\ DOMAIN building' = Workspaces
      /\ \A w \in Workspaces : building'[w] = Without(building[w], r)
      /\ DOMAIN turns' = Users
      /\ \A u \in Users : turns'[u] = Without(turns[u], r)
      /\ slots' = Without(slots, r)
  BY DEF Leave
<1>5. FrontsKept(r)
  <2> SUFFICES ASSUME NEW s \in Requests, s # r
               PROVE  /\ \A w \in Workspaces : First(building[w], s) => First(building'[w], s)
                      /\ \A u \in Users : First(turns[u], s) => First(turns'[u], s)
    BY DEF FrontsKept, First
  <2>1. ASSUME NEW w \in Workspaces, First(building[w], s) PROVE First(building'[w], s)
    <3>1. Line(building[w], InBuilding(w))
      BY DEF LinesOK
    <3>2. First(Without(building[w], r), s)
      BY <2>1, <3>1, WithoutFacts
    <3>3. QED
      BY <1>4, <3>2
  <2>2. ASSUME NEW u \in Users, First(turns[u], s) PROVE First(turns'[u], s)
    <3>1. Line(turns[u], InTurns(u))
      BY DEF LinesOK
    <3>2. First(Without(turns[u], r), s)
      BY <2>2, <3>1, WithoutFacts
    <3>3. QED
      BY <1>4, <3>2
  <2>3. QED
    BY <2>1, <2>2
<1>6. LinesOK'
  <2>1. ASSUME NEW w \in Workspaces PROVE Line(building'[w], InBuilding(w)')
    <3>1. Line(building[w], InBuilding(w))
      BY DEF LinesOK
    <3>2. Line(Without(building[w], r), InBuilding(w) \ {r})
      BY <3>1, WithoutFacts
    <3>3. QED
      BY <1>3, <1>4, <3>2
  <2>2. ASSUME NEW u \in Users PROVE Line(turns'[u], InTurns(u)')
    <3>1. Line(turns[u], InTurns(u))
      BY DEF LinesOK
    <3>2. Line(Without(turns[u], r), InTurns(u) \ {r})
      BY <3>1, WithoutFacts
    <3>3. QED
      BY <1>3, <1>4, <3>2
  <2>3. Line(slots', InSlots')
    <3>1. Line(slots, InSlots)
      BY DEF LinesOK
    <3>2. Line(Without(slots, r), InSlots \ {r})
      BY <3>1, WithoutFacts
    <3>3. QED
      BY <1>3, <1>4, <3>2
  <2>4. QED
    BY <1>4, <2>1, <2>2, <2>3 DEF LinesOK, Line
<1>7. ReqOK(r)'
  BY <1>1, <1>2 DEF ReqOK, RequestOK, HasToolchain, HasBuildLock, HasTurn, Idle
<1>8. ASSUME NEW s \in Requests, s # r PROVE ReqOK(s)'
  BY <1>1, <1>5, <1>8, OthersKept DEF ReqInv
<1>9. QED
  BY <1>1, <1>6, <1>7, <1>8 DEF ReqInv

\* A request in another place, maybe with a toolchain.
LEMMA Moved ==
  ASSUME NEW q, Request(q), NEW place \in Places
  PROVE  LET p == [q EXCEPT !.at = place] IN
         /\ p.at = place /\ p.kind = q.kind /\ p.work = q.work /\ p.user = q.user
         /\ p.tool = q.tool
         /\ (place \in {"preparing", "ensuring", "ensured", "slot"} <=> q.tool \in Names)
              => Request(p)
BY DEF Request

\* Nobody loses the front of a line because somebody joins it.
LEMMA JoinKeepsFronts ==
  ASSUME LinesOK, NEW r \in Requests,
         \A w \in Workspaces : \/ building'[w] = building[w]
                               \/ r \notin InBuilding(w) /\ building'[w] = Append(building[w], r),
         \A u \in Users : \/ turns'[u] = turns[u]
                          \/ r \notin InTurns(u) /\ turns'[u] = Append(turns[u], r)
  PROVE  /\ FrontsKept(r)
         /\ \A w \in Workspaces : First(building[w], r) => First(building[w], r)'
         /\ \A u \in Users : First(turns[u], r) => First(turns[u], r)'
<1>1. ASSUME NEW s, NEW w \in Workspaces, First(building[w], s) PROVE First(building'[w], s)
  <2>1. Line(building[w], InBuilding(w))
    BY DEF LinesOK
  <2>2. CASE building'[w] = building[w]
    BY <1>1, <2>2
  <2>3. CASE r \notin InBuilding(w) /\ building'[w] = Append(building[w], r)
    <3>1. First(Append(building[w], r), s)
      BY <1>1, <2>1, <2>3, AppendFacts
    <3>2. QED
      BY <2>3, <3>1
  <2>4. QED
    BY <2>2, <2>3
<1>2. ASSUME NEW s, NEW u \in Users, First(turns[u], s) PROVE First(turns'[u], s)
  <2>1. Line(turns[u], InTurns(u))
    BY DEF LinesOK
  <2>2. CASE turns'[u] = turns[u]
    BY <1>2, <2>2
  <2>3. CASE r \notin InTurns(u) /\ turns'[u] = Append(turns[u], r)
    <3>1. First(Append(turns[u], r), s)
      BY <1>2, <2>1, <2>3, AppendFacts
    <3>2. QED
      BY <2>3, <3>1
  <2>4. QED
    BY <2>2, <2>3
<1>3. QED
  BY <1>1, <1>2 DEF FrontsKept, First

\* Everybody else, once r has moved and nobody has lost the front of a line.
LEMMA AllOK ==
  ASSUME ReqInv, NEW r \in Requests, DOMAIN req' = Requests,
         \A s \in Requests : s # r => req'[s] = req[s],
         ToolsKept, FrontsKept(r), ReqOK(r)'
  PROVE  ReqInv'
<1>1. ASSUME NEW s \in Requests, s # r PROVE ReqOK(s)'
  BY <1>1, OthersKept DEF ReqInv
<1>2. QED
  BY <1>1 DEF ReqInv

\* A request asks for its first lock.
LEMMA LineUpFacts ==
  ASSUME ReqInv, LinesOK, ToolsKept, NEW r \in Requests, ~Queued(r),
         NEW q, Request(q), q.at = "prepared", LineUp(r, q)
  PROVE  ReqInv' /\ LinesOK'
<1>1. q.work \in Workspaces /\ q.user \in Users /\ q.tool \notin Names
  BY DEF Request
<1>2. /\ \A w : r \notin InBuilding(w)
      /\ \A u : r \notin InTurns(u)
      /\ r \notin InSlots
  BY DEF InBuilding, InTurns, InSlots, BeyondBuildLock, Queued
<1>3. CASE q.kind = "download"
  <2> DEFINE p == [q EXCEPT !.at = "user_lock"]
  <2>1. /\ p.at = "user_lock" /\ p.kind = "download" /\ p.work = q.work /\ p.user = q.user
        /\ p.tool = q.tool /\ Request(p)
    BY <1>1, <1>3, Moved DEF Places
  <2>2. /\ req' = [req EXCEPT ![r] = p]
        /\ turns' = [turns EXCEPT ![q.user] = Append(@, r)]
        /\ building' = building /\ slots' = slots
    BY <1>3 DEF LineUp
  <2> HIDE DEF p
  <2>3. /\ DOMAIN req' = Requests /\ req'[r] = p
        /\ \A s \in Requests : s # r => req'[s] = req[s]
        /\ DOMAIN turns' = Users
        /\ turns'[q.user] = Append(turns[q.user], r)
        /\ \A u \in Users : u # q.user => turns'[u] = turns[u]
    BY <1>1, <2>2 DEF ReqInv, LinesOK
  <2>4. FrontsKept(r)
    BY <1>2, <2>2, <2>3, JoinKeepsFronts
  <2>5. /\ \A w : InBuilding(w)' = InBuilding(w)
        /\ InTurns(q.user)' = InTurns(q.user) \union {r}
        /\ \A u : u # q.user => InTurns(u)' = InTurns(u)
        /\ InSlots' = InSlots
    <3>1. /\ Queued(r)' /\ BeyondBuildLock(r)'
          /\ req'[r].kind = "download" /\ req'[r].user = q.user /\ req'[r].at # "slot"
      BY <2>1, <2>3 DEF BeyondBuildLock, Queued
    <3>2. \A w : InBuilding(w)' = InBuilding(w) \ {r}
      BY <2>3, <3>1, WhoIsInLine
    <3>3. \A u : InTurns(u)' = IF u = q.user THEN InTurns(u) \union {r} ELSE InTurns(u) \ {r}
      BY <2>3, <3>1, WhoIsInLine
    <3>4. InSlots' = InSlots \ {r}
      BY <2>3, <3>1, WhoIsInLine
    <3>5. QED
      BY <1>2, <3>2, <3>3, <3>4
  <2>6. LinesOK'
    <3>1. Line(Append(turns[q.user], r), InTurns(q.user) \union {r})
      BY <1>1, <1>2, AppendFacts DEF LinesOK
    <3>2. \A u \in Users : Line(turns'[u], InTurns(u)')
      BY <2>3, <2>5, <3>1 DEF LinesOK
    <3>3. \A w \in Workspaces : Line(building'[w], InBuilding(w)')
      BY <2>2, <2>5 DEF LinesOK
    <3>4. Line(slots', InSlots')
      BY <2>2, <2>5 DEF LinesOK
    <3>5. QED
      BY <2>2, <2>3, <3>2, <3>3, <3>4 DEF LinesOK, Line
  <2>7. ReqOK(r)'
    BY <2>1, <2>3 DEF ReqOK, RequestOK, Request, HasToolchain, HasBuildLock, HasTurn
  <2>8. QED
    BY <2>3, <2>4, <2>6, <2>7, AllOK
<1>4. CASE q.kind # "download"
  <2> DEFINE p == [q EXCEPT !.at = "build_lock"]
  <2>1. /\ p.at = "build_lock" /\ p.kind = q.kind /\ p.work = q.work /\ p.user = q.user
        /\ p.tool = q.tool /\ Request(p)
    BY <1>1, <1>4, Moved DEF Places
  <2>2. /\ req' = [req EXCEPT ![r] = p]
        /\ building' = [building EXCEPT ![q.work] = Append(@, r)]
        /\ turns' = turns /\ slots' = slots
    BY <1>4 DEF LineUp
  <2> HIDE DEF p
  <2>3. /\ DOMAIN req' = Requests /\ req'[r] = p
        /\ \A s \in Requests : s # r => req'[s] = req[s]
        /\ DOMAIN building' = Workspaces
        /\ building'[q.work] = Append(building[q.work], r)
        /\ \A w \in Workspaces : w # q.work => building'[w] = building[w]
    BY <1>1, <2>2 DEF ReqInv, LinesOK
  <2>4. FrontsKept(r)
    BY <1>2, <2>2, <2>3, JoinKeepsFronts
  <2>5. /\ \A u : InTurns(u)' = InTurns(u)
        /\ InBuilding(q.work)' = InBuilding(q.work) \union {r}
        /\ \A w : w # q.work => InBuilding(w)' = InBuilding(w)
        /\ InSlots' = InSlots
    <3>1. /\ Queued(r)' /\ ~BeyondBuildLock(r)'
          /\ req'[r].kind # "download" /\ req'[r].work = q.work /\ req'[r].at # "slot"
      BY <1>4, <2>1, <2>3 DEF BeyondBuildLock, Queued
    <3>2. \A u : InTurns(u)' = InTurns(u) \ {r}
      BY <2>3, <3>1, WhoIsInLine
    <3>3. \A w : InBuilding(w)' =
                 IF w = q.work THEN InBuilding(w) \union {r} ELSE InBuilding(w) \ {r}
      BY <2>3, <3>1, WhoIsInLine
    <3>4. InSlots' = InSlots \ {r}
      BY <2>3, <3>1, WhoIsInLine
    <3>5. QED
      BY <1>2, <3>2, <3>3, <3>4
  <2>6. LinesOK'
    <3>1. Line(Append(building[q.work], r), InBuilding(q.work) \union {r})
      BY <1>1, <1>2, AppendFacts DEF LinesOK
    <3>2. \A w \in Workspaces : Line(building'[w], InBuilding(w)')
      BY <2>3, <2>5, <3>1 DEF LinesOK
    <3>3. \A u \in Users : Line(turns'[u], InTurns(u)')
      BY <2>2, <2>5 DEF LinesOK
    <3>4. Line(slots', InSlots')
      BY <2>2, <2>5 DEF LinesOK
    <3>5. QED
      BY <2>2, <2>3, <3>2, <3>3, <3>4 DEF LinesOK, Line
  <2>7. ReqOK(r)'
    BY <2>1, <2>3 DEF ReqOK, RequestOK, Request, HasToolchain, HasBuildLock, HasTurn,
                      BeyondBuildLock
  <2>8. QED
    BY <2>3, <2>4, <2>6, <2>7, AllOK
<1>5. QED
  BY <1>3, <1>4

\* A preview that has its workspace's lock asks for its user's.
LEMMA TakeTurnFacts ==
  ASSUME ReqInv, LinesOK, NEW r \in Requests, TakeTurn(r)
  PROVE  ReqInv' /\ LinesOK'
<1> DEFINE q == req[r]
           p == [q EXCEPT !.at = "user_lock"]
<1>1. q.at = "build_lock" /\ q.kind = "preview" /\ First(building[q.work], r)
  BY DEF TakeTurn
<1>2. Request(q) /\ q.work \in Workspaces /\ q.user \in Users /\ q.tool \notin Names
  BY <1>1, IdleFacts DEF ReqInv, ReqOK, Request
<1>3. /\ p.at = "user_lock" /\ p.kind = "preview" /\ p.work = q.work /\ p.user = q.user
      /\ p.tool = q.tool /\ Request(p)
  BY <1>1, <1>2, Moved DEF Places
<1>4. /\ req' = [req EXCEPT ![r] = p]
      /\ turns' = [turns EXCEPT ![q.user] = Append(@, r)]
      /\ building' = building /\ slots' = slots /\ ToolsKept
  BY DEF TakeTurn, Moves, tvars, ToolsKept, IsInstalled, Installing
<1> HIDE DEF p
<1>5. /\ DOMAIN req' = Requests /\ req'[r] = p
      /\ \A s \in Requests : s # r => req'[s] = req[s]
      /\ DOMAIN turns' = Users
      /\ turns'[q.user] = Append(turns[q.user], r)
      /\ \A u \in Users : u # q.user => turns'[u] = turns[u]
  BY <1>2, <1>4 DEF ReqInv, LinesOK
<1>6. /\ \A u : r \notin InTurns(u)
      /\ r \notin InSlots
      /\ \A w : r \in InBuilding(w) <=> w = q.work
  BY <1>1 DEF InTurns, InSlots, InBuilding, BeyondBuildLock, Queued
<1>7. /\ FrontsKept(r)
      /\ \A w \in Workspaces : First(building[w], r) => First(building[w], r)'
  BY <1>4, <1>5, <1>6, JoinKeepsFronts
<1>8. /\ Queued(r)' /\ BeyondBuildLock(r)'
      /\ req'[r].kind # "download" /\ req'[r].work = q.work
      /\ req'[r].user = q.user /\ req'[r].at # "slot"
  BY <1>3, <1>5 DEF BeyondBuildLock, Queued
<1>9. /\ \A w : InBuilding(w)' = IF w = q.work THEN InBuilding(w) \union {r}
                                               ELSE InBuilding(w) \ {r}
      /\ \A u : InTurns(u)' = IF u = q.user THEN InTurns(u) \union {r} ELSE InTurns(u) \ {r}
      /\ InSlots' = InSlots \ {r}
  <2>1. \A w : InBuilding(w)' = IF w = q.work THEN InBuilding(w) \union {r}
                                              ELSE InBuilding(w) \ {r}
    BY <1>5, <1>8, WhoIsInLine
  <2>2. \A u : InTurns(u)' = IF u = q.user THEN InTurns(u) \union {r} ELSE InTurns(u) \ {r}
    BY <1>5, <1>8, WhoIsInLine
  <2>3. InSlots' = InSlots \ {r}
    BY <1>5, <1>8, WhoIsInLine
  <2>4. QED
    BY <2>1, <2>2, <2>3
<1>10. /\ \A w : InBuilding(w)' = InBuilding(w)
       /\ \A u : InTurns(u)' = IF u = q.user THEN InTurns(u) \union {r} ELSE InTurns(u)
       /\ InSlots' = InSlots
  <2>1. ASSUME NEW w PROVE InBuilding(w)' = InBuilding(w)
    <3>1. CASE w = q.work
      BY <1>6, <1>9, <3>1
    <3>2. CASE w # q.work
      BY <1>6, <1>9, <3>2
    <3>3. QED
      BY <3>1, <3>2
  <2>2. \A u : InTurns(u)' = IF u = q.user THEN InTurns(u) \union {r} ELSE InTurns(u)
    BY <1>6, <1>9
  <2>3. InSlots' = InSlots
    BY <1>6, <1>9
  <2>4. QED
    BY <2>1, <2>2, <2>3
<1>11. LinesOK'
  <2>1. Line(Append(turns[q.user], r), InTurns(q.user) \union {r})
    BY <1>2, <1>6, AppendFacts DEF LinesOK
  <2>2. ASSUME NEW u \in Users PROVE Line(turns'[u], InTurns(u)')
    <3>1. CASE u = q.user
      <4>1. turns'[u] = Append(turns[u], r) /\ InTurns(u)' = InTurns(u) \union {r}
        BY <1>5, <1>10, <3>1
      <4>2. QED
        BY <2>1, <3>1, <4>1
    <3>2. CASE u # q.user
      <4>1. turns'[u] = turns[u] /\ InTurns(u)' = InTurns(u)
        BY <1>5, <1>10, <3>2
      <4>2. Line(turns[u], InTurns(u))
        BY DEF LinesOK
      <4>3. QED
        BY <4>1, <4>2
    <3>3. QED
      BY <3>1, <3>2
  <2>3. \A w \in Workspaces : Line(building'[w], InBuilding(w)')
    BY <1>4, <1>10 DEF LinesOK
  <2>4. Line(slots', InSlots')
    BY <1>4, <1>10 DEF LinesOK
  <2>5. QED
    BY <1>4, <1>5, <2>2, <2>3, <2>4 DEF LinesOK, Line
<1>12. ReqOK(r)'
  <2>1. RequestOK(r)' /\ HasToolchain(r)' /\ HasTurn(r)'
    BY <1>3, <1>5 DEF RequestOK, Request, HasToolchain, HasTurn
  <2>2. HasBuildLock(r)'
    BY <1>1, <1>2, <1>3, <1>5, <1>7 DEF HasBuildLock
  <2>3. QED
    BY <2>1, <2>2 DEF ReqOK
<1>13. QED
  BY <1>4, <1>5, <1>7, <1>11, <1>12, AllOK

\* A request in another place that has no line of its own.
LEMMA InPlace ==
  ASSUME ReqInv, LinesOK, ToolsKept, NEW r \in Requests, NEW p,
         Request(req[r]), req' = [req EXCEPT ![r] = p], UNCHANGED <<building, turns>>,
         p.kind = req[r].kind, p.work = req[r].work, p.user = req[r].user,
         p.at \notin {"idle", "preparing", "prepared", "build_lock"},
         req[r].at \notin {"idle", "preparing", "prepared", "build_lock"}
  PROVE  /\ DOMAIN req' = Requests /\ req'[r] = p
         /\ \A s \in Requests : s # r => req'[s] = req[s]
         /\ FrontsKept(r)
         /\ HasBuildLock(r)'
         /\ \A w : InBuilding(w)' = InBuilding(w)
         /\ \A u : InTurns(u)' = InTurns(u)
         /\ InSlots' = IF p.at = "slot" THEN InSlots \union {r} ELSE InSlots \ {r}
<1>1. /\ DOMAIN req' = Requests /\ req'[r] = p
      /\ \A s \in Requests : s # r => req'[s] = req[s]
  BY DEF ReqInv
<1>2. /\ Queued(r) /\ BeyondBuildLock(r)
      /\ Queued(r)' /\ BeyondBuildLock(r)'
  BY <1>1 DEF Queued, BeyondBuildLock
<1>3. FrontsKept(r)
  BY DEF FrontsKept, First
<1>4. HasBuildLock(r)'
  BY <1>1, <1>2 DEF ReqInv, ReqOK, HasBuildLock, First
<1>5. \A w : InBuilding(w)' = InBuilding(w)
  <2> TAKE w
  <2>1. \A s \in Requests : (Queued(s) /\ req[s].kind # "download" /\ req[s].work = w)'
                              <=> (Queued(s) /\ req[s].kind # "download" /\ req[s].work = w)
    BY <1>1, <1>2 DEF Queued
  <2>2. QED
    BY <2>1 DEF InBuilding
<1>6. \A u : InTurns(u)' = InTurns(u)
  <2> TAKE u
  <2>1. \A s \in Requests : (BeyondBuildLock(s) /\ req[s].user = u)'
                              <=> (BeyondBuildLock(s) /\ req[s].user = u)
    BY <1>1, <1>2 DEF BeyondBuildLock, Queued
  <2>2. QED
    BY <2>1 DEF InTurns
<1>7. InSlots' = IF p.at = "slot" THEN InSlots \union {r} ELSE InSlots \ {r}
  BY <1>1, WhoIsInLine
<1>8. QED
  BY <1>1, <1>3, <1>4, <1>5, <1>6, <1>7

\* A request that has its toolchain stands in line for a slot.
LEMMA AskForSlotFacts ==
  ASSUME ReqInv, LinesOK, ToolsKept, NEW r \in Requests, NEW n \in Names,
         IsInstalled(n)', req[r].at \in {"user_lock", "ensured"},
         First(turns[req[r].user], r), AskForSlot(r, n)
  PROVE  ReqInv' /\ LinesOK'
<1> DEFINE q == req[r]
           p == [q EXCEPT !.at = "slot", !.tool = n]
<1>1. Request(q)
  BY IdleFacts DEF ReqInv, ReqOK
<1>2. /\ p.at = "slot" /\ p.kind = q.kind /\ p.work = q.work /\ p.user = q.user
      /\ p.tool = n /\ Request(p)
  <2>1. "slot" \in Places /\ n \in Names \union {Invalid}
    BY DEF Places
  <2> HIDE DEF q
  <2>2. QED
    BY <1>1, <2>1 DEF Request
<1>3. /\ req' = [req EXCEPT ![r] = p]
      /\ building' = building /\ turns' = turns /\ slots' = Append(slots, r)
  BY DEF AskForSlot
<1> HIDE DEF p
<1>4. /\ DOMAIN req' = Requests /\ req'[r] = p
      /\ \A s \in Requests : s # r => req'[s] = req[s]
      /\ FrontsKept(r)
      /\ HasBuildLock(r)'
      /\ \A w : InBuilding(w)' = InBuilding(w)
      /\ \A u : InTurns(u)' = InTurns(u)
      /\ InSlots' = InSlots \union {r}
  BY <1>1, <1>2, <1>3, InPlace
<1>5. LinesOK'
  <2>1. r \notin InSlots
    BY DEF InSlots
  <2>2. Line(slots', InSlots')
    BY <1>3, <1>4, <2>1, AppendFacts DEF LinesOK
  <2>3. /\ \A w \in Workspaces : Line(building'[w], InBuilding(w)')
        /\ \A u \in Users : Line(turns'[u], InTurns(u)')
    BY <1>3, <1>4 DEF LinesOK
  <2>4. QED
    BY <1>3, <2>2, <2>3 DEF LinesOK, Line
<1>6. ReqOK(r)'
  BY <1>2, <1>3, <1>4 DEF ReqOK, RequestOK, Request, HasToolchain, HasTurn
<1>7. QED
  BY <1>4, <1>5, <1>6, AllOK

\* A request with its user's lock waits for its toolchain.
LEMMA WaitFacts ==
  ASSUME ReqInv, LinesOK, ToolsKept, NEW r \in Requests, NEW n \in Names,
         Installing(n)', req[r].at = "user_lock", First(turns[req[r].user], r),
         req' = [req EXCEPT ![r].at = "ensuring", ![r].tool = n],
         UNCHANGED <<building, turns, slots>>
  PROVE  ReqInv' /\ LinesOK'
<1> DEFINE q == req[r]
           p == [q EXCEPT !.at = "ensuring", !.tool = n]
<1>1. Request(q)
  BY IdleFacts DEF ReqInv, ReqOK
<1>2. /\ p.at = "ensuring" /\ p.kind = q.kind /\ p.work = q.work /\ p.user = q.user
      /\ p.tool = n /\ Request(p)
  <2>1. "ensuring" \in Places /\ n \in Names \union {Invalid}
    BY DEF Places
  <2> HIDE DEF q
  <2>2. QED
    BY <1>1, <2>1 DEF Request
<1>3. req' = [req EXCEPT ![r] = p]
  OBVIOUS
<1> HIDE DEF p
<1>4. /\ DOMAIN req' = Requests /\ req'[r] = p
      /\ \A s \in Requests : s # r => req'[s] = req[s]
      /\ FrontsKept(r)
      /\ HasBuildLock(r)'
      /\ \A w : InBuilding(w)' = InBuilding(w)
      /\ \A u : InTurns(u)' = InTurns(u)
      /\ InSlots' = InSlots \ {r}
  BY <1>1, <1>2, <1>3, InPlace
<1>5. LinesOK'
  <2>1. InSlots' = InSlots
    BY <1>4 DEF InSlots
  <2>2. /\ \A w \in Workspaces : Line(building'[w], InBuilding(w)')
        /\ \A u \in Users : Line(turns'[u], InTurns(u)')
        /\ Line(slots', InSlots')
    BY <1>4, <2>1 DEF LinesOK
  <2>3. QED
    BY <2>2 DEF LinesOK, Line
<1>6. ReqOK(r)'
  BY <1>2, <1>4 DEF ReqOK, RequestOK, Request, HasToolchain, HasTurn
<1>7. QED
  BY <1>4, <1>5, <1>6, AllOK

\* A build that arrives waits for its toolchain in _prepare.
LEMMA PrepareFacts ==
  ASSUME ReqInv, LinesOK, ToolsKept, NEW r \in Requests, NEW p, Request(p),
         req[r] = Idle, p.at = "preparing", Installing(p.tool)',
         req' = [req EXCEPT ![r] = p], UNCHANGED <<building, turns, slots>>
  PROVE  ReqInv' /\ LinesOK'
<1>1. /\ DOMAIN req' = Requests /\ req'[r] = p
      /\ \A s \in Requests : s # r => req'[s] = req[s]
  BY DEF ReqInv
<1>2. /\ ~Queued(r)' /\ ~BeyondBuildLock(r)' /\ ~(req[r].at = "slot")'
      /\ ~Queued(r) /\ ~BeyondBuildLock(r) /\ req[r].at # "slot"
  BY <1>1 DEF Queued, BeyondBuildLock, Idle
<1>3. /\ \A w : InBuilding(w)' = InBuilding(w) \ {r}
      /\ \A u : InTurns(u)' = InTurns(u) \ {r}
      /\ InSlots' = InSlots \ {r}
  BY <1>1, <1>2, WhoIsInLine
<1>4. /\ \A w : r \notin InBuilding(w)
      /\ \A u : r \notin InTurns(u)
      /\ r \notin InSlots
  BY <1>2 DEF InBuilding, InTurns, InSlots
<1>5. /\ \A w : InBuilding(w)' = InBuilding(w)
      /\ \A u : InTurns(u)' = InTurns(u)
      /\ InSlots' = InSlots
  BY <1>3, <1>4
<1>6. LinesOK'
  BY <1>5 DEF LinesOK, Line
<1>7. FrontsKept(r)
  BY DEF FrontsKept, First
<1>8. ReqOK(r)'
  BY <1>1, <1>2 DEF ReqOK, RequestOK, Request, HasToolchain, HasTurn, HasBuildLock
<1>9. QED
  BY <1>1, <1>6, <1>7, <1>8, AllOK

\* Steps that move no request: an install gets on, time passes, a workspace
\* asks for another toolchain.
LEMMA NobodyMoves ==
  ASSUME ReqInv, LinesOK, ToolsKept, UNCHANGED rvars
  PROVE  ReqInv' /\ LinesOK'
<1>1. UNCHANGED <<req, building, turns, slots>>
  BY DEF rvars
<1>2. LinesOK'
  BY <1>1 DEF LinesOK, Line, InBuilding, InTurns, InSlots, BeyondBuildLock, Queued
<1>3. ASSUME NEW s \in Requests PROVE ReqOK(s)'
  <2>1. FrontsKept(req)
    BY <1>1 DEF FrontsKept, First
  <2>2. ReqOK(s)
    BY DEF ReqInv
  <2>3. CASE req[s] = Idle
    BY <1>1, <2>3
       DEF ReqOK, RequestOK, HasToolchain, HasBuildLock, HasTurn, BeyondBuildLock, Queued, Idle
  <2>4. CASE Request(req[s])
    <3>1. RequestOK(s)' /\ HasToolchain(s)'
      BY <1>1, <2>2, <2>4 DEF ReqOK, RequestOK, HasToolchain, Request, ToolsKept
    <3>2. HasBuildLock(s)' /\ HasTurn(s)'
      BY <1>1, <2>2 DEF ReqOK, HasBuildLock, HasTurn, First, BeyondBuildLock, Queued
    <3>3. QED
      BY <3>1, <3>2 DEF ReqOK
  <2>5. QED
    BY <2>2, <2>3, <2>4, IdleFacts DEF ReqOK
<1>4. QED
  BY <1>1, <1>2, <1>3 DEF ReqInv

\* How the end of an install moves one of those who wait for it.
LEMMA Woken ==
  ASSUME ToolInv, ReqInv, EndInstall, NEW s \in Requests
  PROVE  /\ RequestOK(s)' /\ HasToolchain(s)'
         /\ Queued(s)' <=> Queued(s)
         /\ BeyondBuildLock(s)' <=> BeyondBuildLock(s)
         /\ Queued(s) => /\ req'[s].kind = req[s].kind /\ req'[s].work = req[s].work
                         /\ req'[s].user = req[s].user
         /\ req'[s].at = "slot" <=> req[s].at = "slot"
         /\ req'[s].at \in {"ensuring", "ensured", "refused", "slot"}
              <=> req[s].at \in {"ensuring", "ensured", "refused", "slot"}
<1>0. PICK n, q : n = installs[1] /\ q = req[s]
  OBVIOUS
<1>1. /\ n \in Names
      /\ stage = "installed" => IsInstalled(n)
      /\ stage \in {"installed", "failed"}
      /\ \A m \in Names : IsInstalled(m) => IsInstalled(m)'
      /\ \A m \in Names : Installing(m) /\ m # n => Installing(m)'
  BY <1>0, FinishedFacts DEF EndInstall
<1>2. ReqOK(s)
  BY DEF ReqInv
<1>3. req'[s] = IF q.at = "preparing" /\ q.tool = n THEN [q EXCEPT !.at = "prepared", !.tool = Invalid]
                ELSE IF q.at = "ensuring" /\ q.tool = n
                THEN IF stage = "installed" THEN [q EXCEPT !.at = "ensured"]
                                            ELSE [q EXCEPT !.at = "refused", !.tool = Invalid]
                ELSE q
  BY <1>0 DEF EndInstall, WakeWaiters
<1>4. CASE q = Idle
  BY <1>0, <1>3, <1>4 DEF Idle, RequestOK, HasToolchain, Queued, BeyondBuildLock
<1>5. CASE Request(q) /\ q.at = "preparing" /\ q.tool = n
  <2> DEFINE p == [q EXCEPT !.at = "prepared", !.tool = Invalid]
  <2>1. /\ p.at = "prepared" /\ p.kind = q.kind /\ p.work = q.work /\ p.user = q.user
        /\ p.tool = Invalid /\ Request(p)
    BY <1>5, InvalidAssumption DEF Request, Places
  <2>2. req'[s] = p
    BY <1>3, <1>5
  <2> HIDE DEF p
  <2>3. QED
    BY <1>0, <1>5, <2>1, <2>2
       DEF Request, RequestOK, HasToolchain, Queued, BeyondBuildLock
<1>6. CASE Request(q) /\ q.at = "ensuring" /\ q.tool = n /\ stage = "installed"
  <2> DEFINE p == [q EXCEPT !.at = "ensured"]
  <2>1. /\ p.at = "ensured" /\ p.kind = q.kind /\ p.work = q.work /\ p.user = q.user
        /\ p.tool = n /\ Request(p)
    BY <1>1, <1>6 DEF Request, Places
  <2>2. req'[s] = p
    BY <1>3, <1>6
  <2> HIDE DEF p
  <2>3. IsInstalled(n)'
    BY <1>1, <1>6
  <2>4. HasToolchain(s)'
    BY <2>1, <2>2, <2>3 DEF HasToolchain, IsInstalled
  <2>5. QED
    BY <1>0, <1>6, <2>1, <2>2, <2>4
       DEF Request, RequestOK, Queued, BeyondBuildLock
<1>7. CASE Request(q) /\ q.at = "ensuring" /\ q.tool = n /\ stage # "installed"
  <2> DEFINE p == [q EXCEPT !.at = "refused", !.tool = Invalid]
  <2>1. /\ p.at = "refused" /\ p.kind = q.kind /\ p.work = q.work /\ p.user = q.user
        /\ p.tool = Invalid /\ Request(p)
    BY <1>7, InvalidAssumption DEF Request, Places
  <2>2. req'[s] = p
    BY <1>3, <1>7
  <2> HIDE DEF p
  <2>3. QED
    BY <1>0, <1>7, <2>1, <2>2
       DEF Request, RequestOK, HasToolchain, Queued, BeyondBuildLock
<1>8. CASE /\ Request(q)
           /\ ~(q.at = "preparing" /\ q.tool = n) /\ ~(q.at = "ensuring" /\ q.tool = n)
  <2>1. req'[s] = q
    BY <1>3, <1>8
  <2>2. RequestOK(s)'
    <3>1. q.at \in {"preparing", "ensuring"} => q.tool \in Names /\ q.tool # n
      BY <1>8 DEF Request
    <3>2. q.at \in {"preparing", "ensuring"} => Installing(q.tool)
      BY <1>0, <1>2, <1>8 DEF ReqOK, RequestOK, Request, Idle
    <3>3. q.at \in {"preparing", "ensuring"} => Installing(q.tool)'
      BY <1>1, <3>1, <3>2
    <3>4. q.at \in {"preparing", "ensuring"} => \E i \in DOMAIN installs' : installs'[i] = req'[s].tool
      BY <1>0, <2>1, <3>3 DEF Installing
    <3>5. QED
      BY <1>0, <1>8, <2>1, <3>4 DEF RequestOK, Request, Installing
  <2>3. HasToolchain(s)'
    <3>1. q.at \in {"ensured", "slot"} => q.tool \in Names /\ folder[q.tool] = "ready"
      BY <1>0, <1>2, <1>8 DEF ReqOK, HasToolchain, Request, IsInstalled
    <3>2. folder' = folder
      BY DEF EndInstall, Finished
    <3>3. QED
      BY <2>1, <3>1, <3>2 DEF HasToolchain, IsInstalled
  <2>4. QED
    BY <1>0, <2>1, <2>2, <2>3 DEF Queued, BeyondBuildLock
<1>9. q = Idle \/ Request(q)
  BY <1>0, <1>2, IdleFacts DEF ReqOK
<1>10. QED
  BY <1>4, <1>5, <1>6, <1>7, <1>8, <1>9

\* The end of an install wakes those who wait for it.
LEMMA EndInstallFacts ==
  ASSUME ToolInv, ReqInv, LinesOK, EndInstall
  PROVE  ReqInv' /\ LinesOK'
<1>1. building' = building /\ turns' = turns /\ slots' = slots /\ DOMAIN req' = Requests
  BY DEF EndInstall, WakeWaiters
<1>2. \A w : InBuilding(w)' = InBuilding(w)
  <2> TAKE w
  <2>1. \A s \in Requests : (Queued(s) /\ req[s].kind # "download" /\ req[s].work = w)'
                              <=> (Queued(s) /\ req[s].kind # "download" /\ req[s].work = w)
    BY Woken
  <2>2. QED
    BY <2>1 DEF InBuilding
<1>3. \A u : InTurns(u)' = InTurns(u)
  <2> TAKE u
  <2>1. \A s \in Requests : (BeyondBuildLock(s) /\ req[s].user = u)'
                              <=> (BeyondBuildLock(s) /\ req[s].user = u)
    BY Woken DEF BeyondBuildLock
  <2>2. QED
    BY <2>1 DEF InTurns
<1>4. InSlots' = InSlots
  BY Woken DEF InSlots
<1>5. LinesOK'
  BY <1>1, <1>2, <1>3, <1>4 DEF LinesOK, Line
<1>6. ASSUME NEW s \in Requests PROVE ReqOK(s)'
  <2>1. RequestOK(s)' /\ HasToolchain(s)'
    BY Woken
  <2>2. HasBuildLock(s)'
    BY <1>1, Woken DEF ReqInv, ReqOK, HasBuildLock, BeyondBuildLock, First
  <2>3. HasTurn(s)'
    BY <1>1, Woken DEF ReqInv, ReqOK, HasTurn, First, Queued
  <2>4. QED
    BY <2>1, <2>2, <2>3 DEF ReqOK
<1>7. QED
  BY <1>1, <1>5, <1>6 DEF ReqInv

\* The server starts again: nobody waits for anything.
LEMMA DieFacts ==
  ASSUME ToolInv, WantsOK, Die
  PROVE  ToolInv' /\ WantsOK' /\ ReqInv' /\ LinesOK'
<1>0. PICK active \in SUBSET Workspaces : Restart(Asked(Workspaces), Asked(active))
  BY DEF Die
<1> DEFINE all == {wants[w] : w \in active}
           asked == Asked(active)
<1>1. asked \subseteq Names
  BY DEF WantsOK, Asked
<1>2. IsFiniteSet(asked)
  <2>1. [w \in active |-> wants[w]] \in Surjection(active, all)
    <3>1. [w \in active |-> wants[w]] \in [active -> all]
      OBVIOUS
    <3>2. \A t \in all : \E w \in active : [x \in active |-> wants[x]][w] = t
      OBVIOUS
    <3>3. QED
      BY <3>1, <3>2 DEF Surjection
  <2> HIDE DEF all
  <2>2. IsFiniteSet(active)
    BY WorkspacesAssumption, FS_Subset
  <2>3. IsFiniteSet(all)
    BY <2>1, <2>2, FS_Surjection
  <2>4. asked \in SUBSET all
    BY DEF Asked, all
  <2>5. QED
    BY <2>3, <2>4, FS_Subset
<1>3. ToolInv'
  BY <1>0, <1>1, <1>2, RestartFacts
<1>4. ReqInv'
  <2>1. DOMAIN req' = Requests /\ \A s \in Requests : req'[s] = Idle
    BY DEF Die
  <2>2. QED
    BY <2>1 DEF ReqInv, ReqOK, RequestOK, HasToolchain, HasBuildLock, HasTurn,
                BeyondBuildLock, Queued, Idle
<1>5. LinesOK'
  <2>1. \A s \in Requests : ~Queued(s)' /\ ~BeyondBuildLock(s)' /\ req'[s].at # "slot"
    BY DEF Die, Idle, Queued, BeyondBuildLock
  <2>2. /\ \A w : InBuilding(w)' = {}
        /\ \A u : InTurns(u)' = {}
        /\ InSlots' = {}
    BY <2>1 DEF InBuilding, InTurns, InSlots
  <2>3. /\ DOMAIN building' = Workspaces /\ \A w \in Workspaces : building'[w] = <<>>
        /\ DOMAIN turns' = Users /\ \A u \in Users : turns'[u] = <<>>
        /\ slots' = <<>>
    BY DEF Die
  <2>4. QED
    BY <2>2, <2>3, EmptyLine DEF LinesOK, Line
<1>6. WantsOK'
  BY DEF Die, WantsOK
<1>7. QED
  BY <1>3, <1>4, <1>5, <1>6

-----------------------------------------------------------------------------
(* The steps.                                                               *)

\* Whatever leaves the toolchains alone keeps what is said of them.
LEMMA ToolsAlone ==
  ASSUME UNCHANGED tvars
  PROVE  ToolsKept /\ (ToolInv => ToolInv')
BY DEF tvars, ToolsKept, ToolInv, ToolchainTypeOK, InstallsFit, IsInstalled, Installing

\* A request arrives.
LEMMA ArriveStep ==
  ASSUME IInv, NEW r \in Requests, NEW kind \in Kinds, NEW w \in Workspaces,
         NEW u \in Users, Arrive(r, kind, w, u)
  PROVE  IInv'
<1> DEFINE n == wants[w]
           q == [at |-> "prepared", kind |-> kind, work |-> w, user |-> u, tool |-> Invalid]
<1>1. ToolInv /\ WantsOK /\ ReqInv /\ LinesOK
  BY Parts
<1>2. /\ req[r] = Idle /\ WantsOK'
      /\ UNCHANGED <<folder, fresh, stage, failures>>
      /\ IF kind # "read" /\ n \in Names /\ Waits(n)
         THEN /\ req' = [req EXCEPT ![r] = [q EXCEPT !.at = "preparing", !.tool = n]]
              /\ installs' = Started(installs, n)
              /\ UNCHANGED <<building, turns, slots>>
         ELSE LineUp(r, q) /\ UNCHANGED installs
  BY <1>1 DEF Arrive, WantsOK
<1>3. Request(q) /\ q.at = "prepared"
  BY InvalidAssumption DEF Request, Places
<1>4. CASE kind # "read" /\ n \in Names /\ Waits(n)
  <2>0. PICK m \in Names : m = n
    BY <1>4
  <2>1. PICK p : p = [q EXCEPT !.at = "preparing", !.tool = m]
    OBVIOUS
  <2>2. Request(p) /\ p.at = "preparing" /\ p.tool = m
    BY <1>3, <2>1 DEF Request, Places
  <2>3. req' = [req EXCEPT ![r] = p] /\ installs' = Started(installs, m)
        /\ UNCHANGED <<building, turns, slots>>
    BY <1>2, <1>4, <2>0, <2>1
  <2>4. ~IsInstalled(m) /\ Waits(m)
    BY <1>4, <2>0 DEF Waits
  <2>5. ToolInv' /\ ToolsKept /\ Installing(m)'
    BY <1>1, <1>2, <2>3, <2>4, StartedFacts
  <2>6. Installing(p.tool)'
    BY <2>2, <2>5
  <2>7. ReqInv' /\ LinesOK'
    BY <1>1, <1>2, <2>2, <2>3, <2>5, <2>6, PrepareFacts
  <2>8. QED
    BY <1>2, <2>5, <2>7, Parts
<1>5. CASE ~(kind # "read" /\ n \in Names /\ Waits(n))
  <2>1. LineUp(r, q) /\ UNCHANGED tvars
    BY <1>2, <1>5 DEF tvars
  <2>2. ToolInv' /\ ToolsKept
    BY <1>1, <2>1, ToolsAlone
  <2>3. ~Queued(r)
    BY <1>2 DEF Queued, Idle
  <2> HIDE DEF q
  <2>4. ReqInv' /\ LinesOK'
    BY <1>1, <1>3, <2>1, <2>2, <2>3, LineUpFacts
  <2>5. QED
    BY <1>2, <2>2, <2>4, Parts
<1>6. QED
  BY <1>4, <1>5

\* The version is read again and its toolchain is ensured again.
LEMMA EnsureStep ==
  ASSUME IInv, NEW r \in Requests, Ensure(r)
  PROVE  IInv'
<1>1. ToolInv /\ WantsOK /\ ReqInv /\ LinesOK
  BY Parts
<1>2. PICK n : n = wants[req[r].work]
  OBVIOUS
<1>3. /\ req[r].at = "user_lock" /\ First(turns[req[r].user], r)
      /\ UNCHANGED <<folder, stage, failures, wants>>
  BY DEF Ensure
<1>4. WantsOK'
  BY <1>1, <1>3 DEF WantsOK
<1>5. CASE /\ n \in Names /\ IsInstalled(n)
           /\ fresh' = fresh \union {n}
           /\ AskForSlot(r, n)
           /\ UNCHANGED installs
  <2>1. ToolOK(folder', fresh', installs', stage', failures')
    <3>1. ToolOK(folder, fresh, installs, stage, failures)
      BY <1>1, ToolFacts
    <3>2. fresh' \subseteq {m \in Names : folder[m] = "ready"}
      BY <1>5, <3>1 DEF ToolOK, IsInstalled
    <3>3. QED
      BY <1>3, <1>5, <3>1, <3>2 DEF ToolOK
  <2>2. ToolInv' /\ ToolsKept /\ IsInstalled(n)'
    BY <1>3, <1>5, <2>1, ToolFacts DEF ToolsKept, IsInstalled, Installing
  <2>3. ReqInv' /\ LinesOK'
    BY <1>1, <1>3, <1>5, <2>2, AskForSlotFacts
  <2>4. QED
    BY <1>4, <2>2, <2>3, Parts
<1>6. CASE /\ n \in Names /\ Waits(n)
           /\ installs' = Started(installs, n)
           /\ req' = [req EXCEPT ![r].at = "ensuring", ![r].tool = n]
           /\ UNCHANGED <<building, turns, slots, fresh>>
  <2>1. ToolInv' /\ ToolsKept /\ Installing(n)'
    BY <1>1, <1>3, <1>6, StartedFacts DEF Waits
  <2>2. ReqInv' /\ LinesOK'
    BY <1>1, <1>3, <1>6, <2>1, WaitFacts
  <2>3. QED
    BY <1>4, <2>1, <2>2, Parts
<1>7. CASE Leave(r) /\ UNCHANGED <<installs, fresh>>
  <2>1. ToolInv' /\ ToolsKept
    BY <1>1, <1>3, <1>7, ToolsAlone DEF tvars
  <2>2. ReqInv' /\ LinesOK'
    BY <1>1, <1>7, <2>1, LeaveFacts
  <2>3. QED
    BY <1>4, <2>1, <2>2, Parts
<1>8. QED
  BY <1>2, <1>5, <1>6, <1>7 DEF Ensure

\* Every other step of a request.
LEMMA RequestSteps ==
  ASSUME IInv, NEW r \in Requests, RequestStep(r) \/ Cancel(r)
  PROVE  IInv'
<1>1. ToolInv /\ WantsOK /\ ReqInv /\ LinesOK
  BY Parts
<1>2. ASSUME UNCHANGED <<tvars, wants>> PROVE ToolsKept /\ ToolInv' /\ WantsOK'
  BY <1>1, <1>2, ToolsAlone DEF WantsOK
<1>3. CASE EndPrepare(r)
  <2>1. req[r].at = "prepared" /\ LineUp(r, req[r]) /\ UNCHANGED <<tvars, wants>>
    BY <1>3 DEF EndPrepare
  <2>2. Request(req[r]) /\ ~Queued(r)
    BY <1>1, <2>1, IdleFacts DEF ReqInv, ReqOK, Queued
  <2>3. QED
    BY <1>1, <1>2, <2>1, <2>2, LineUpFacts, Parts
<1>4. CASE TakeTurn(r)
  <2>1. UNCHANGED <<tvars, wants>>
    BY <1>4 DEF TakeTurn
  <2>2. QED
    BY <1>1, <1>2, <1>4, <2>1, TakeTurnFacts, Parts
<1>5. CASE Read(r) \/ EndRefused(r) \/ EndBuild(r) \/ Cancel(r)
  <2>1. Leave(r) /\ UNCHANGED <<tvars, wants>>
    BY <1>5 DEF Read, EndRefused, EndBuild, Cancel
  <2>2. QED
    BY <1>1, <1>2, <2>1, LeaveFacts, Parts
<1>6. CASE Ensure(r)
  BY <1>6, EnsureStep
<1>7. CASE EndEnsure(r)
  <2>1. /\ req[r].at = "ensured" /\ AskForSlot(r, req[r].tool)
        /\ UNCHANGED <<tvars, wants>>
    BY <1>7 DEF EndEnsure
  <2>2. Request(req[r]) /\ ReqOK(r)
    BY <1>1, <2>1, IdleFacts DEF ReqInv, ReqOK
  <2>3. PICK n \in Names : n = req[r].tool
    BY <2>1, <2>2 DEF Request
  <2>4. IsInstalled(n)' /\ First(turns[req[r].user], r)
    BY <1>2, <2>1, <2>2, <2>3 DEF ReqOK, HasToolchain, HasTurn, ToolsKept
  <2>5. ReqInv' /\ LinesOK'
    BY <1>1, <1>2, <2>1, <2>3, <2>4, AskForSlotFacts
  <2>6. QED
    BY <1>2, <2>1, <2>5, Parts
<1>8. QED
  BY <1>3, <1>4, <1>5, <1>6, <1>7 DEF RequestStep

\* The installs, the clock and the workspaces' wishes.
LEMMA OtherSteps ==
  ASSUME IInv,
         \/ InstallStep \/ TimePasses
         \/ \E w \in Workspaces, n \in Names \union {Invalid} :
              ChangeVersion(w, n) \/ DriftVersion(w, n)
  PROVE  IInv'
<1>1. ToolInv /\ WantsOK /\ ReqInv /\ LinesOK
  BY Parts
<1>2. CASE (StartFiles \/ Install \/ InstallFails) /\ UNCHANGED <<rvars, wants>>
  BY <1>1, <1>2, InstallGetsOn, NobodyMoves, Parts DEF WantsOK
<1>3. CASE EndInstall
  <2>1. ToolInv' /\ WantsOK'
    BY <1>1, <1>3, FinishedFacts DEF EndInstall, WantsOK
  <2>2. QED
    BY <1>1, <1>3, <2>1, EndInstallFacts, Parts
<1>4. CASE TimePasses
  <2>1. PICK n \in Names : RetryAfter(n) \/ GoesUnused(n)
    BY <1>4 DEF TimePasses
  <2>2. ToolInv' /\ ToolsKept
    BY <1>1, <2>1, TimeFacts
  <2>3. UNCHANGED <<rvars, wants>>
    BY <1>4 DEF TimePasses
  <2>4. QED
    BY <1>1, <2>2, <2>3, NobodyMoves, Parts DEF WantsOK
<1>5. ASSUME NEW w \in Workspaces, NEW n \in Names \union {Invalid}, ChangeVersion(w, n)
      PROVE  IInv'
  <2>1. /\ wants' = [wants EXCEPT ![w] = n] /\ UNCHANGED <<folder, fresh, stage, failures>>
        /\ UNCHANGED rvars
        /\ installs' = IF n \in Names THEN Prepared(installs, n) ELSE installs
    BY <1>5 DEF ChangeVersion
  <2>2. WantsOK'
    BY <1>1, <2>1 DEF WantsOK
  <2>3. ToolInv' /\ ToolsKept
    <3>1. CASE installs' = installs
      BY <1>1, <2>1, <3>1, ToolsAlone DEF tvars
    <3>2. CASE n \in Names /\ ~IsInstalled(n) /\ installs' = Started(installs, n)
      BY <1>1, <2>1, <3>2, StartedFacts
    <3>3. QED
      BY <2>1, <3>1, <3>2 DEF Prepared
  <2>4. QED
    BY <1>1, <2>1, <2>2, <2>3, NobodyMoves, Parts
<1>6. ASSUME NEW w \in Workspaces, NEW n \in Names \union {Invalid}, DriftVersion(w, n)
      PROVE  IInv'
  <2>1. wants' = [wants EXCEPT ![w] = n] /\ UNCHANGED tvars /\ UNCHANGED rvars
    BY <1>6 DEF DriftVersion
  <2>2. WantsOK'
    BY <1>1, <2>1 DEF WantsOK
  <2>3. QED
    BY <1>1, <2>1, <2>2, ToolsAlone, NobodyMoves, Parts
<1>7. QED
  BY <1>2, <1>3, <1>4, <1>5, <1>6 DEF InstallStep

\* The invariant holds in the beginning.
LEMMA InitIInv == Init => IInv
<1> SUFFICES ASSUME Init PROVE IInv
  OBVIOUS
<1>1. ToolInv
  <2>1. /\ folder = [n \in Names |-> "absent"] /\ fresh = {} /\ installs = <<>>
        /\ stage = "fetch" /\ failures = {}
    BY DEF Init, ToolchainInit
  <2>2. installs \in Seq(Names) /\ Len(installs) = 0
    BY <2>1, EmptySeq
  <2>3. ToolOK(folder, fresh, installs, stage, failures)
    BY <2>1, <2>2, MaxInstallsAssumption DEF ToolOK
  <2>4. QED
    BY <2>3, ToolFacts
<1>2. WantsOK
  BY DEF Init, WantsOK
<1>3. ReqInv
  BY DEF Init, ReqInv, ReqOK, RequestOK, HasToolchain, HasBuildLock, HasTurn,
         BeyondBuildLock, Queued, Idle
<1>4. LinesOK
  <2>1. \A s \in Requests : ~Queued(s) /\ ~BeyondBuildLock(s) /\ req[s].at # "slot"
    BY DEF Init, Idle, Queued, BeyondBuildLock
  <2>2. /\ \A w : InBuilding(w) = {}
        /\ \A u : InTurns(u) = {}
        /\ InSlots = {}
    BY <2>1 DEF InBuilding, InTurns, InSlots
  <2>3. /\ DOMAIN building = Workspaces /\ \A w \in Workspaces : building[w] = <<>>
        /\ DOMAIN turns = Users /\ \A u \in Users : turns[u] = <<>>
        /\ slots = <<>>
    BY DEF Init
  <2>4. QED
    BY <2>2, <2>3, EmptyLine DEF LinesOK
<1>5. QED
  BY <1>1, <1>2, <1>3, <1>4, Parts

\* Every step keeps it.
LEMMA NextIInv == IInv /\ [Next]_vars => IInv'
<1> SUFFICES ASSUME IInv, [Next]_vars PROVE IInv'
  OBVIOUS
<1>1. ToolInv /\ WantsOK /\ ReqInv /\ LinesOK
  BY Parts
<1>2. CASE UNCHANGED vars
  <2>1. UNCHANGED tvars /\ UNCHANGED rvars /\ UNCHANGED wants
    BY <1>2 DEF vars, tvars, rvars
  <2>2. QED
    BY <1>1, <2>1, ToolsAlone, NobodyMoves, Parts DEF WantsOK
<1>3. CASE Die
  BY <1>1, <1>3, DieFacts, Parts
<1>4. CASE Next
  BY <1>3, <1>4, ArriveStep, RequestSteps, OtherSteps DEF Next
<1>5. QED
  BY <1>2, <1>4

\* One user's builds in the slots are one build: each has its user's lock.
LEMMA OneSlot == IInv => OneSlotPerUser
<1> SUFFICES ASSUME IInv, NEW r \in Requests, NEW s \in Requests,
                    req[r].at = "slot", req[s].at = "slot", req[r].user = req[s].user
             PROVE  r = s
  BY DEF OneSlotPerUser
<1>1. First(turns[req[r].user], r) /\ First(turns[req[s].user], s)
  BY DEF IInv, HasTurn
<1>2. QED
  BY <1>1 DEF First

-----------------------------------------------------------------------------
(* The theorems.                                                            *)

\* So it holds in every state.
LEMMA Always == Spec => []IInv
<1>1. Init => IInv
  BY InitIInv
<1>2. IInv /\ [Next]_vars => IInv'
  BY NextIInv
<1>3. QED
  BY <1>1, <1>2, PTL DEF Spec

\* The lines of the locks and the slots are what the requests' places say, each
\* request in them once; only what is missing is installed; and whoever has asked
\* for something further still has what it asked for before (locks.py:4-9).
THEOREM Invariance == Spec => []Consistent
<1>1. IInv => Consistent
  BY OneSlot DEF Consistent
<1>2. QED
  BY <1>1, Always, PTL

\* toolchains.py:26: nobody builds, or waits for a slot to build, with a toolchain
\* that is not completely installed.
THEOREM WholeToolchains == Spec => []BuildsWithWholeToolchain
<1>1. IInv => BuildsWithWholeToolchain
  BY DEF IInv, HasToolchain, BuildsWithWholeToolchain
<1>2. QED
  BY <1>1, Always, PTL

\* locks.py:84-86: a build writes the preview of a workspace under its lock.
THEOREM Undisturbed == Spec => []PreviewsUndisturbed
<1>1. IInv => PreviewsUndisturbed
  BY DEF IInv, HasBuildLock, PreviewsUndisturbed, BeyondBuildLock, Queued
<1>2. QED
  BY <1>1, Always, PTL

\* locks.py:88-90: one user's builds never take two slots.
THEOREM FairShare == Spec => []OneSlotPerUser
BY OneSlot, Always, PTL
=============================================================================
