---------------------------- MODULE ProcessProofs ---------------------------
(***************************************************************************)
(* Proofs about the process manager, alone and under the system calls and  *)
(* the shell, for every size of the pool, every number of processes and    *)
(* every client.                                                           *)
(*                                                                         *)
(* What the walks along the queues return follows from lemmas about paths; *)
(* with those, and the effects of the helpers in ProcessLemmas, each call  *)
(* is shown to keep one inductive invariant, ProcessInv.                   *)
(***************************************************************************)
EXTENDS ProcessLemmas, Syscall, FiniteSetTheorems

-----------------------------------------------------------------------------
(* Numbers: the least element of a set, which the search for a free PCB and *)
(* for a pid return, induction over a set, and the existence of what a      *)
(* recursive function defines.                                              *)

(* A set of natural numbers that is not empty has a least element, which   *)
(* Min returns.                                                            *)
LEMMA MinOfNats ==
  ASSUME NEW S \in SUBSET Nat, S # {}
  PROVE  Min(S) \in S /\ \A y \in S : Min(S) <= y
<1> DEFINE Less == {ss \in Nat \X Nat : ss[1] < ss[2]}
<1>1. IsWellFoundedOn(Less, Nat)
  BY NatLessThanWellFounded DEF OpToRel
<1>2. PICK x \in S : \A y \in S : ~(<<y, x>> \in Less)
  BY <1>1, WFMin, Zenon
<1>3. \A y \in S : <<y, x>> \in Less <=> y < x
  OBVIOUS
<1>4. ASSUME NEW y \in S PROVE x <= y
  <2>1. ~(y < x)
    BY <1>2, <1>3, Zenon
  <2>2. x \in Nat /\ y \in Nat
    OBVIOUS
  <2> HIDE DEF Less
  <2> QED
    BY <2>1, <2>2
<1> QED
  BY <1>4, Zenon DEF Min

(* A set of numbers with 0 that has n + 1 with every n has every number:   *)
(* induction for a property that is given as a set.                        *)
LEMMA InductionOnSet ==
  ASSUME NEW S \in SUBSET Nat, 0 \in S, \A n \in S : n + 1 \in S
  PROVE  S = Nat
<1> SUFFICES ASSUME Nat \ S # {} PROVE FALSE
  BY Zenon
<1> DEFINE x == Min(Nat \ S)
<1>1. x \in Nat /\ x \notin S /\ \A y \in Nat \ S : x <= y
  BY MinOfNats
<1> HIDE DEF x
<1>2. x - 1 \in Nat
  BY <1>1
<1>3. x - 1 \in S
  BY <1>1, <1>2
<1>4. (x - 1) + 1 \in S
  BY <1>3, Zenon
<1> QED
  BY <1>1, <1>4

(* A function of S into itself can be iterated n times from h. *)
Iterates(S, F, h, n) ==
  {f \in [0 .. n -> S] : f[0] = h /\ \A k \in 1 .. n : f[k] = F[f[k - 1]]}

LEMMA Iteration ==
  ASSUME NEW S, NEW F \in [S -> S], NEW h \in S, NEW n \in Nat
  PROVE  Iterates(S, F, h, n) # {}
<1> DEFINE Iterated(f, m) == f[0] = h /\ \A k \in 1 .. m : f[k] = F[f[k - 1]]
           I == {m \in Nat : \E f \in [0 .. m -> S] : Iterated(f, m)}
<1>1. 0 \in I
  <2> DEFINE f == [k \in 0 .. 0 |-> h]
  <2>1. f \in [0 .. 0 -> S] /\ Iterated(f, 0)
    OBVIOUS
  <2> QED
    BY <2>1, Zenon
<1>2. ASSUME NEW m \in I PROVE m + 1 \in I
  <2>1. PICK f \in [0 .. m -> S] : Iterated(f, m)
    OBVIOUS
  <2> DEFINE e == [k \in 0 .. m + 1 |-> IF k = m + 1 THEN F[f[m]] ELSE f[k]]
  <2>2. m \in Nat
    OBVIOUS
  <2>3. e \in [0 .. m + 1 -> S]
    BY <2>2
  <2>4. e[0] = h
    BY <2>1, <2>2
  <2>5. ASSUME NEW k \in 1 .. m + 1 PROVE e[k] = F[e[k - 1]]
    <3>1. CASE k = m + 1
      BY <2>2, <3>1
    <3>2. CASE k # m + 1
      <4>1. k \in 1 .. m /\ k - 1 \in 0 .. m /\ k - 1 # m + 1
        BY <2>2, <3>2
      <4> QED
        BY <2>1, <2>2, <4>1
    <3> QED
      BY <3>1, <3>2
  <2> HIDE DEF e
  <2> QED
    BY <2>2, <2>3, <2>4, <2>5
<1>3. I = Nat
  <2>1. I \in SUBSET Nat
    OBVIOUS
  <2> HIDE DEF I
  <2> QED
    BY <1>1, <1>2, <2>1, InductionOnSet
<1> QED
  BY <1>3 DEF Iterates

-----------------------------------------------------------------------------
(* Sequences *)

LEMMA ElementIn ==
  ASSUME NEW S, NEW s \in Seq(S), NEW i \in 1 .. Len(s)
  PROVE  s[i] \in S
OBVIOUS

LEMMA Appended ==
  ASSUME NEW S, NEW s \in Seq(S), NEW e \in S
  PROVE  /\ Append(s, e) \in Seq(S) /\ Len(Append(s, e)) = Len(s) + 1
         /\ Append(s, e)[Len(s) + 1] = e
         /\ \A i \in 1 .. Len(s) : Append(s, e)[i] = s[i]
OBVIOUS

LEMMA Concatenated ==
  ASSUME NEW S, NEW s \in Seq(S), NEW t \in Seq(S)
  PROVE  /\ s \o t \in Seq(S) /\ Len(s \o t) = Len(s) + Len(t)
         /\ \A i \in 1 .. Len(s) + Len(t) : (s \o t)[i] = IF i <= Len(s) THEN s[i] ELSE t[i - Len(s)]
OBVIOUS

LEMMA NothingBehind ==
  ASSUME NEW S, NEW s \in Seq(S)
  PROVE  s \o <<>> = s
OBVIOUS

LEMMA Cut ==
  ASSUME NEW S, NEW s \in Seq(S), NEW n \in 0 .. Len(s), NEW R, \A i \in 1 .. n : s[i] \in R
  PROVE  /\ SubSeq(s, 1, n) \in Seq(R) /\ Len(SubSeq(s, 1, n)) = n
         /\ \A i \in 1 .. n : SubSeq(s, 1, n)[i] = s[i]
OBVIOUS

LEMMA CutNothing ==
  ASSUME NEW S, NEW s \in Seq(S)
  PROVE  SubSeq(s, 1, 0) = <<>>
OBVIOUS

-----------------------------------------------------------------------------
(* Walks along a queue *)

(* A set of PCBs that next does not leave. *)
Closed(P, C) == C \subseteq Slots /\ \A s \in C : P[s].next \in C \cup {NULL}

(* w is the way along next from h. *)
Path(P, h, w) ==
  /\ Len(w) >= 1 /\ w[1] = h
  /\ \A i \in 1 .. Len(w) - 1 : w[i] # NULL /\ w[i + 1] = P[w[i]].next
Paths(P, C, h) == {w \in Seq(C \cup {NULL}) : Path(P, h, w)}

(* One more step of a walk. *)
LEMMA FurtherPath ==
  ASSUME NEW P, NEW C, Closed(P, C), NEW h \in C \cup {NULL}, NEW w \in Paths(P, C, h)
  PROVE  /\ Further(P, w) \in Paths(P, C, h)
         /\ w[Len(w)] = NULL => Further(P, w) = w
         /\ w[Len(w)] # NULL => Len(Further(P, w)) = Len(w) + 1
<1>1. /\ w \in Seq(C \cup {NULL}) /\ Len(w) \in Nat /\ Len(w) >= 1 /\ Path(P, h, w)
      /\ w[Len(w)] \in C \cup {NULL}
  BY ElementIn DEF Paths, Path
<1>2. CASE w[Len(w)] = NULL
  BY <1>2 DEF Further
<1>3. CASE w[Len(w)] # NULL
  <2> DEFINE x == P[w[Len(w)]].next
             v == Append(w, x)
  <2>1. x \in C \cup {NULL}
    BY <1>1, <1>3 DEF Closed
  <2>2. /\ v \in Seq(C \cup {NULL}) /\ Len(v) = Len(w) + 1 /\ v[Len(w) + 1] = x
        /\ \A i \in 1 .. Len(w) : v[i] = w[i]
    BY <1>1, <2>1, Appended
  <2>3. Further(P, w) = v
    BY <1>3 DEF Further
  <2> HIDE DEF v
  <2>4. ASSUME NEW i \in 1 .. Len(v) - 1 PROVE v[i] # NULL /\ v[i + 1] = P[v[i]].next
    <3>1. CASE i = Len(w)
      BY <1>1, <1>3, <2>2, <3>1
    <3>2. CASE i # Len(w)
      <4>1. i \in 1 .. Len(w) - 1 /\ i \in 1 .. Len(w) /\ i + 1 \in 1 .. Len(w)
        BY <1>1, <2>2, <3>2
      <4> QED
        BY <1>1, <2>2, <4>1 DEF Path
    <3> QED
      BY <3>1, <3>2
  <2>5. Path(P, h, v)
    <3>1. Len(v) >= 1 /\ v[1] = h
      BY <1>1, <2>2 DEF Path
    <3> QED
      BY <2>4, <3>1 DEF Path
  <2> QED
    BY <1>3, <2>2, <2>3, <2>5 DEF Paths
<1> QED
  BY <1>2, <1>3

(* What Walk returns. *)
LEMMA WalkFacts ==
  ASSUME NEW P, NEW C, Closed(P, C), NEW h \in C \cup {NULL}
  PROVE  LET w == Walk(P, h)
         IN  /\ w \in Seq(C \cup {NULL}) /\ Path(P, h, w)
             /\ Len(w) \in 1 .. MAX_PROCESSES + 1
             /\ w[Len(w)] = NULL \/ Len(w) = MAX_PROCESSES + 1
<1> DEFINE F == [w \in Paths(P, C, h) |-> Further(P, w)]
           Eq(f) == f = [k \in 0 .. MAX_PROCESSES |-> IF k = 0 THEN <<h>> ELSE Further(P, f[k - 1])]
           passed == CHOOSE f : Eq(f)
<1>0. MAX_PROCESSES \in Nat
  BY ProcessAssumption
<1>1. F \in [Paths(P, C, h) -> Paths(P, C, h)]
  BY FurtherPath
<1>2. <<h>> \in Paths(P, C, h)
  BY DEF Paths, Path
<1>3. PICK f \in [0 .. MAX_PROCESSES -> Paths(P, C, h)] :
        f[0] = <<h>> /\ \A k \in 1 .. MAX_PROCESSES : f[k] = F[f[k - 1]]
  <2> DEFINE start == <<h>>
  <2>1. start \in Paths(P, C, h)
    BY <1>2
  <2> HIDE DEF F, start
  <2>2. Iterates(Paths(P, C, h), F, start, MAX_PROCESSES) # {}
    BY <1>0, <1>1, <2>1, Iteration
  <2> QED
    BY <2>2 DEF Iterates, start
<1>4. \A k \in 1 .. MAX_PROCESSES : f[k] = Further(P, f[k - 1])
  <2> SUFFICES ASSUME NEW k \in 1 .. MAX_PROCESSES PROVE f[k] = Further(P, f[k - 1])
    OBVIOUS
  <2>1. k - 1 \in 0 .. MAX_PROCESSES
    BY <1>0
  <2>2. f[k - 1] \in Paths(P, C, h)
    BY <2>1
  <2> QED
    BY <1>3, <2>2, Zenon
<1>5. Eq(f)
  <2> DEFINE start == <<h>>
             r == [k \in 0 .. MAX_PROCESSES |-> IF k = 0 THEN start ELSE Further(P, f[k - 1])]
  <2>1. f[0] = start
    BY <1>3
  <2> HIDE DEF start
  <2>2. \A k \in 0 .. MAX_PROCESSES : f[k] = r[k]
    BY <1>0, <1>4, <2>1
  <2>3. f = r
    BY <2>2
  <2> QED
    BY <2>3, Zenon DEF start
<1>6. Eq(passed)
  <2> HIDE DEF Eq
  <2> QED
    BY <1>5
<1>7. Walk(P, h) = passed[MAX_PROCESSES]
  BY Zenon DEF Walk
<1> HIDE DEF passed
<1>8. /\ passed[0] = <<h>>
      /\ \A k \in 1 .. MAX_PROCESSES : passed[k] = Further(P, passed[k - 1])
  BY <1>0, <1>6
<1> DEFINE Good(k) == /\ passed[k] \in Paths(P, C, h) /\ Len(passed[k]) <= k + 1
                      /\ passed[k][Len(passed[k])] = NULL \/ Len(passed[k]) = k + 1
           K == {k \in Nat : k <= MAX_PROCESSES => Good(k)}
<1>9. 0 \in K
  <2>1. Len(passed[0]) = 1 /\ passed[0] \in Paths(P, C, h)
    BY <1>2, <1>8
  <2>2. Good(0)
    BY <2>1
  <2> QED
    BY <2>2
<1>10. ASSUME NEW k \in K PROVE k + 1 \in K
  <2> SUFFICES ASSUME k + 1 <= MAX_PROCESSES PROVE Good(k + 1)
    OBVIOUS
  <2>1. k \in Nat /\ k <= MAX_PROCESSES /\ k + 1 \in 1 .. MAX_PROCESSES /\ (k + 1) - 1 = k
    BY <1>0
  <2>2. Good(k) /\ passed[k + 1] = Further(P, passed[k])
    BY <1>8, <2>1
  <2>3. passed[k] \in Paths(P, C, h)
    BY <2>2
  <2>4. Len(passed[k]) \in Nat
    BY <2>3 DEF Paths
  <2>5. /\ passed[k + 1] \in Paths(P, C, h)
        /\ passed[k][Len(passed[k])] = NULL => passed[k + 1] = passed[k]
        /\ passed[k][Len(passed[k])] # NULL => Len(passed[k + 1]) = Len(passed[k]) + 1
    BY <2>2, <2>3, FurtherPath
  <2>6. CASE passed[k][Len(passed[k])] = NULL
    <3>1. Len(passed[k]) <= (k + 1) + 1
      BY <2>1, <2>2, <2>4
    <3> QED
      BY <2>5, <2>6, <3>1
  <2>7. CASE passed[k][Len(passed[k])] # NULL
    <3>1. Len(passed[k + 1]) = (k + 1) + 1
      BY <2>1, <2>2, <2>4, <2>5, <2>7
    <3> QED
      BY <2>1, <2>5, <2>7, <3>1
  <2> QED
    BY <2>6, <2>7
<1>11. K = Nat
  <2>1. K \in SUBSET Nat
    OBVIOUS
  <2> HIDE DEF K
  <2> QED
    BY <1>9, <1>10, <2>1, InductionOnSet
<1>12. Good(MAX_PROCESSES)
  BY <1>0, <1>11
<1> DEFINE v == Walk(P, h)
<1>13. v \in Paths(P, C, h) /\ Len(v) <= MAX_PROCESSES + 1
       /\ (v[Len(v)] = NULL \/ Len(v) = MAX_PROCESSES + 1)
  BY <1>7, <1>12
<1> HIDE DEF v
<1>14. v \in Seq(C \cup {NULL}) /\ Path(P, h, v) /\ Len(v) \in Nat /\ Len(v) >= 1
  BY <1>13 DEF Paths, Path
<1>15. Len(v) \in 1 .. MAX_PROCESSES + 1
  BY <1>0, <1>13, <1>14
<1> QED
  BY <1>13, <1>14, <1>15 DEF v

(* Where the links agree, a walk from a PCB without a prev meets nothing   *)
(* twice and comes to an end.                                              *)
LEMMA WalkEnds ==
  ASSUME NEW P, Linked(P), NEW C, Closed(P, C), NEW h \in C \cup {NULL},
         h # NULL => P[h].prev = NULL
  PROVE  LET w == Walk(P, h)
         IN  /\ \A i, j \in 1 .. Len(w) : w[i] = w[j] => i = j
             /\ w[Len(w)] = NULL
<1> DEFINE w == Walk(P, h)
<1>1. /\ w \in Seq(C \cup {NULL}) /\ Path(P, h, w)
      /\ Len(w) \in 1 .. MAX_PROCESSES + 1
      /\ w[Len(w)] = NULL \/ Len(w) = MAX_PROCESSES + 1
  BY WalkFacts, Zenon
<1> HIDE DEF w
<1>2. MAX_PROCESSES \in Nat /\ Len(w) \in Nat
  BY <1>1, ProcessAssumption
<1>3. \A i \in 1 .. Len(w) : w[i] \in C \cup {NULL}
  BY <1>1, ElementIn
<1>4. C \subseteq Slots /\ NULL \notin Slots
  BY DEF Closed, Slots, NULL
<1>5. \A i \in 1 .. Len(w) - 1 : i \in 1 .. Len(w) /\ w[i] \in Slots /\ w[i + 1] = P[w[i]].next
  BY <1>1, <1>2, <1>3, <1>4 DEF Path
<1>6. \A j \in 2 .. Len(w) : w[j] # NULL => P[w[j]].prev = w[j - 1] /\ w[j - 1] \in Slots
  <2> SUFFICES ASSUME NEW j \in 2 .. Len(w), w[j] # NULL
               PROVE  P[w[j]].prev = w[j - 1] /\ w[j - 1] \in Slots
    OBVIOUS
  <2>1. j - 1 \in 1 .. Len(w) - 1 /\ j \in 1 .. Len(w) /\ (j - 1) + 1 = j
    BY <1>2
  <2>2. w[j - 1] \in Slots /\ w[j] = P[w[j - 1]].next /\ w[j] \in Slots
    BY <1>3, <1>4, <1>5, <2>1
  <2> QED
    BY <2>2 DEF Linked
<1> DEFINE Twice(i) == \E j \in 1 .. Len(w) : i < j /\ w[i] = w[j]
           B == {i \in 1 .. Len(w) : Twice(i)}
<1>7. B = {}
  <2> SUFFICES ASSUME B # {} PROVE FALSE
    OBVIOUS
  <2> DEFINE i == Min(B)
  <2>1. i \in B /\ \A y \in B : i <= y
    <3>1. B \in SUBSET Nat
      BY <1>2
    <3> HIDE DEF B
    <3> QED
      BY <3>1, MinOfNats
  <2> HIDE DEF i
  <2>2. PICK j \in 1 .. Len(w) : i < j /\ w[i] = w[j]
    BY <2>1
  <2>3. i \in 1 .. Len(w) - 1 /\ j \in 2 .. Len(w) /\ j - 1 \in 1 .. Len(w)
    BY <1>2, <2>1, <2>2
  <2>4. w[i] \in Slots /\ w[j] # NULL
    BY <1>4, <1>5, <2>2, <2>3
  <2>5. P[w[i]].prev = w[j - 1] /\ w[j - 1] # NULL
    BY <1>4, <1>6, <2>2, <2>3, <2>4
  <2>6. CASE i = 1
    <3>1. w[i] = h
      BY <1>1, <2>6 DEF Path
    <3> QED
      BY <1>4, <2>4, <2>5, <3>1
  <2>7. CASE i # 1
    <3>1. i \in 2 .. Len(w) /\ i - 1 \in 1 .. Len(w) /\ i - 1 < j - 1 /\ ~(i <= i - 1)
      BY <1>2, <2>3, <2>7, <2>2
    <3>2. P[w[i]].prev = w[i - 1]
      BY <1>4, <1>6, <2>4, <3>1
    <3>3. i - 1 \in B
      BY <2>3, <2>5, <3>1, <3>2, Zenon
    <3> HIDE DEF B
    <3> QED
      BY <2>1, <3>1, <3>3
  <2> QED
    BY <2>6, <2>7
<1>8. \A i, j \in 1 .. Len(w) : w[i] = w[j] => i = j
  <2> SUFFICES ASSUME NEW i \in 1 .. Len(w), NEW j \in 1 .. Len(w), w[i] = w[j], i # j
               PROVE  FALSE
    OBVIOUS
  <2>1. i < j \/ j < i
    BY <1>2
  <2> QED
    BY <1>7, <2>1
<1>9. w[Len(w)] = NULL
  <2> SUFFICES ASSUME w[Len(w)] # NULL, Len(w) = MAX_PROCESSES + 1 PROVE FALSE
    BY <1>1
  <2> DEFINE D == 1 .. MAX_PROCESSES + 1
             f == [i \in D |-> w[i]]
  <2>1. \A i \in D : w[i] \in Slots
    BY <1>2, <1>3, <1>4, <1>5
  <2>2. f \in [D -> Slots]
    BY <2>1
  <2>3. IsFiniteSet(D) /\ Cardinality(D) = MAX_PROCESSES + 1
    BY <1>2, FS_Interval
  <2>4. IsFiniteSet(Slots) /\ Cardinality(Slots) = MAX_PROCESSES
    BY <1>2, FS_Interval DEF Slots
  <2>5. Cardinality(Slots) < Cardinality(D)
    BY <1>2, <2>3, <2>4
  <2> HIDE DEF D, f
  <2>6. PICK x, y \in D : x # y /\ f[x] = f[y]
    BY <2>2, <2>3, <2>4, <2>5, FS_PigeonHole
  <2> QED
    BY <1>8, <2>6 DEF D, f
<1> QED
  BY <1>8, <1>9 DEF w

(* What a lookup in a queue returns. *)
LEMMA FindFacts ==
  ASSUME NEW m, NEW C, Closed(m.pcb, C), NEW h \in C \cup {NULL}, NEW pid
  PROVE  LET r == find_process_in_queue(m, h, pid)
         IN  /\ r \in C \cup {NULL, LOOPS}
             /\ r \in Slots => m.pcb[r].pid = pid
             /\ Linked(m.pcb) /\ (h # NULL => m.pcb[h].prev = NULL) => r # LOOPS
<1> DEFINE w == Walk(m.pcb, h)
           stops == {k \in 1 .. Len(w) : w[k] = NULL \/ m.pcb[w[k]].pid = pid}
           r == find_process_in_queue(m, h, pid)
<1>1. /\ w \in Seq(C \cup {NULL}) /\ Len(w) \in 1 .. MAX_PROCESSES + 1
  BY WalkFacts
<1>2. Linked(m.pcb) /\ (h # NULL => m.pcb[h].prev = NULL) => w[Len(w)] = NULL
  BY WalkEnds
<1>3. r = IF stops = {} THEN LOOPS ELSE w[Min(stops)]
  BY DEF find_process_in_queue
<1> HIDE DEF w, r
<1>4. C \subseteq Slots /\ NULL \notin Slots /\ LOOPS \notin Slots /\ LOOPS # NULL
  BY DEF Closed, Slots, NULL, LOOPS
<1>5. CASE stops = {}
  <2>1. Len(w) \in 1 .. Len(w)
    BY <1>1
  <2> QED
    BY <1>2, <1>3, <1>4, <1>5, <2>1 DEF r
<1>6. CASE stops # {}
  <2>1. stops \in SUBSET Nat
    BY <1>1
  <2>2. Min(stops) \in stops
    <3> HIDE DEF stops
    <3> QED
      BY <1>6, <2>1, MinOfNats
  <2>3. PICK k \in 1 .. Len(w) : r = w[k] /\ (w[k] = NULL \/ m.pcb[w[k]].pid = pid)
    BY <1>3, <1>6, <2>2, Zenon
  <2>4. w[k] \in C \cup {NULL}
    BY <1>1, ElementIn
  <2> QED
    BY <1>4, <2>3, <2>4 DEF r
<1> QED
  BY <1>5, <1>6

(* A lookup by pid finds a PCB with that pid, nothing, or never returns. *)
LEMMA LookupFacts ==
  ASSUME NEW m, Typed(m), NEW pid
  PROVE  LET r == process_get_by_pid(m, pid)
         IN  /\ r \in Slots \cup {NULL, LOOPS}
             /\ r \in Slots => m.pcb[r].pid = pid
<1>1. Closed(m.pcb, Slots)
  BY TypeNames, FieldNames DEF Typed, Closed
<1>2. \A q \in QueueNames : m.g[q] \in Slots \cup {NULL}
  BY TypeNames, FieldNames DEF Typed
<1>3. m.g.running \in Slots \cup {NULL}
  BY TypeNames DEF Typed, ManagerFields
<1>4. ASSUME NEW q \in QueueNames
      PROVE  LET r == find_process_in_queue(m, m.g[q], pid)
             IN  r \in Slots \cup {NULL, LOOPS} /\ (r \in Slots => m.pcb[r].pid = pid)
  BY <1>1, <1>2, FindFacts
<1> QED
  BY <1>3, <1>4, NullNotSlot DEF process_get_by_pid, QueueNames

(* The PCB is the lowest free one. *)
LEMMA CreateStep ==
  ASSUME Typed(Now), used \in [Slots -> BOOLEAN],
         NEW entry_point, NEW priority, process_create(entry_point, priority),
         ~CreateRefused(entry_point)
  PROVE  \E s \in Slots, stack \in kmalloc_stack :
           /\ ~used[s]
           /\ Becomes(add_to_queue(
                Filled(s, NewPCB(g.next_pid, entry_point, priority, stack)), "ready_queue", s))
           /\ used' = [used EXCEPT ![s] = TRUE]
           /\ heap' = heap \cup ({stack} \ {NoStack})
<1> DEFINE s == Min({t \in Slots : ~used[t]})
<1>1. \E stack \in kmalloc_stack :
           /\ Becomes(add_to_queue(
                Filled(s, NewPCB(g.next_pid, entry_point, priority, stack)), "ready_queue", s))
           /\ used' = [used EXCEPT ![s] = TRUE]
           /\ heap' = heap \cup ({stack} \ {NoStack})
  BY Zenon DEF process_create, Filled
<1>2. s \in Slots /\ ~used[s]
  <2>1. {t \in Slots : ~used[t]} # {} /\ {t \in Slots : ~used[t]} \in SUBSET Nat
    BY ProcessAssumption DEF CreateRefused, Slots
  <2> QED
    BY <2>1, MinOfNats
<1> HIDE DEF s
<1> QED
  BY <1>1, <1>2, Zenon

(* process_create, allocate_pcb and setup_process_stack. *)
LEMMA CreateEffect ==
  ASSUME Typed(Now), used \in [Slots -> BOOLEAN], heap \subseteq Stacks,
         NEW entry_point \in {0, 1}, NEW priority \in Nat, process_create(entry_point, priority),
         ~CreateRefused(entry_point)
  PROVE  \E s \in Slots, stack \in kmalloc_stack :
           /\ ~used[s] /\ Typed(Now') /\ UNCHANGED client
           /\ Made(Now, Now', s, NewPCB(g.next_pid, entry_point, priority, stack))
           /\ used' = [used EXCEPT ![s] = TRUE]
           /\ heap' = heap \cup ({stack} \ {NoStack})
<1>1. PICK s \in Slots, stack \in kmalloc_stack :
           /\ ~used[s]
           /\ Becomes(add_to_queue(
                Filled(s, NewPCB(g.next_pid, entry_point, priority, stack)), "ready_queue", s))
           /\ used' = [used EXCEPT ![s] = TRUE]
           /\ heap' = heap \cup ({stack} \ {NoStack})
  BY CreateStep
<1> DEFINE new == NewPCB(g.next_pid, entry_point, priority, stack)
           P == [pcb EXCEPT ![s] = new]
           x == g.next_pid + 1
           y == (g.process_count + 1) % COUNT_MOD
           i == SetNumber(g, "next_pid", x)
           h == SetNumber(i, "process_count", y)
           fill == Filled(s, new)
           k == add_to_queue(fill, "ready_queue", s)
<1>2. stack \in Stacks \cup {NoStack}
  BY DEF kmalloc_stack
<1>3. new = [f \in Fields |-> new[f]] /\ \A f \in Fields : new[f] \in FieldType(f)
  BY <1>2, NewTyped
<1> HIDE DEF new
<1>4. fill = [pcb |-> P, g |-> h, hung |-> hung]
  BY <1>3, FilledParts
<1> HIDE DEF fill
<1>5. Pool(pcb) /\ Manager(g) /\ hung \in BOOLEAN
  BY DEF Typed, State, Now
<1>6. Pool(P) /\ \A t \in Slots : P[t] = IF t = s THEN new ELSE pcb[t]
  BY <1>3, <1>5 DEF Pool
<1> HIDE DEF P
<1>7. x \in ManagerType("next_pid") /\ y \in ManagerType("process_count")
  <2>1. ManagerType("process_count") = 0 .. COUNT_MOD - 1 /\ ManagerType("next_pid") = Nat
    BY DEF ManagerType
  <2>2. g.next_pid \in Nat /\ g.process_count \in 0 .. COUNT_MOD - 1
    BY <2>1, NumberNames, NowFields, Zenon DEF Typed
  <2> QED
    BY <2>1, <2>2, ProcessAssumption
<1> HIDE DEF x, y
<1>8. Manager(h) /\ \A e \in ManagerFields : h[e] = IF e = "process_count" THEN y
                                                    ELSE IF e = "next_pid" THEN x ELSE g[e]
  <2>1. Manager(i) /\ \A e \in ManagerFields : i[e] = IF e = "next_pid" THEN x ELSE g[e]
    BY <1>5, NumberNames, SetNumberKeeps
  <2> HIDE DEF i
  <2> QED
    BY <2>1, NumberNames, SetNumberKeeps
<1> HIDE DEF h
<1>9. Typed(fill) /\ fill.pcb = P /\ fill.g = h /\ fill.hung = hung
  <2>1. \A t \in Slots, f \in Fields : P[t][f] \in FieldType(f)
    BY <1>3, <1>6, NowFields DEF Typed
  <2>2. \A f \in ManagerFields : h[f] \in ManagerType(f)
    BY <1>7, <1>8, NowFields DEF Typed
  <2> QED
    BY <1>4, <1>5, <1>6, <1>8, <2>1, <2>2 DEF Typed, State
<1>10. Pushes(fill, k, "ready_queue", s) /\ Typed(k)
  BY <1>9, NumberNames, AddEffect, PushTyped, Zenon DEF Typed
<1> HIDE DEF k
<1>11. Now' = k /\ UNCHANGED client
  BY <1>1, <1>10, NowBecomes DEF k, fill, new
<1>12. Made(Now, k, s, new)
  <2>1. /\ k.g.running = g.running /\ k.g.ready_queue = s
        /\ k.g.blocked_queue = g.blocked_queue
        /\ k.g.terminated_queue = g.terminated_queue
        /\ k.g.next_pid = x /\ k.g.process_count = y /\ fill.g.ready_queue = g.ready_queue
    BY <1>8, <1>9, <1>10, NumberNames DEF Pushes
  <2>2. \A t \in Slots \ {s}, f \in Fields \ {"prev"} : k.pcb[t][f] = pcb[t][f]
    BY <1>6, <1>9, <1>10 DEF Pushes, SameBut, LinkFields
  <2>3. \A f \in Fields \ LinkFields : k.pcb[s][f] = new[f]
    BY <1>6, <1>9, <1>10 DEF Pushes, SameBut
  <2>4. /\ k.pcb[s].next = g.ready_queue
        /\ \A t \in Slots : k.pcb[t].prev = IF t = s THEN NULL ELSE IF t = g.ready_queue THEN s
                                            ELSE pcb[t].prev
    BY <1>6, <1>9, <1>10, <2>1 DEF Pushes
  <2>5. k.hung = hung
    BY <1>9, <1>10 DEF Pushes
  <2> QED
    BY <2>1, <2>2, <2>3, <2>4, <2>5, NowFields DEF Made, x, y
<1> QED
  BY <1>1, <1>10, <1>11, <1>12, Zenon DEF new

LEMMA LookupOnce ==
  ASSUME NEW m, Typed(m), NEW u, Once(m.pcb, m.g, u), NEW pid
  PROVE  LET r == process_get_by_pid(m, pid)
         IN  /\ r # LOOPS
             /\ r \in Slots => \/ r = m.g.running
                               \/ m.pcb[r].state \in {"READY", "TERMINATED"}
<1> DEFINE P == m.pcb
           h == m.g
           R == {s \in Slots : P[s].state = "READY"}
           T == {s \in Slots : P[s].state = "TERMINATED"}
<1>1. Plain(P, h) /\ Once(P, h, u)
  BY TypedPlain
<1> HIDE DEF P, h
<1>2. Closed(P, R) /\ Closed(P, T) /\ Closed(P, {})
  BY <1>1, NullNotSlot DEF Plain, Once, Closed, SameQueue
<1>3. /\ h.ready_queue \in R \cup {NULL} /\ (h.ready_queue # NULL => P[h.ready_queue].prev = NULL)
      /\ h.terminated_queue \in T \cup {NULL}
      /\ (h.terminated_queue # NULL => P[h.terminated_queue].prev = NULL)
      /\ h.blocked_queue = NULL /\ Linked(P)
  BY <1>1 DEF Plain, Once, ReadyHead, DeadHead
<1> DEFINE ready == find_process_in_queue(m, h.ready_queue, pid)
           blocked == find_process_in_queue(m, h.blocked_queue, pid)
           gone == find_process_in_queue(m, h.terminated_queue, pid)
           r == process_get_by_pid(m, pid)
<1>4. ready \in R \cup {NULL, LOOPS} /\ ready # LOOPS
  <2> HIDE DEF R
  <2> QED
    BY <1>2, <1>3, FindFacts DEF P
<1>5. gone \in T \cup {NULL, LOOPS} /\ gone # LOOPS
  <2> HIDE DEF T
  <2> QED
    BY <1>2, <1>3, FindFacts DEF P
<1>6. blocked \in {NULL, LOOPS} /\ blocked # LOOPS
  <2>1. h.blocked_queue \in {} \cup {NULL} /\ (h.blocked_queue # NULL => P[h.blocked_queue].prev = NULL)
    BY <1>3
  <2>2. blocked \in {} \cup {NULL, LOOPS} /\ blocked # LOOPS
    BY <1>2, <1>3, <2>1, FindFacts DEF P
  <2> QED
    BY <2>2
<1>7. (r = h.running /\ h.running # NULL) \/ r \in {ready, gone} \/ r = blocked
  BY DEF process_get_by_pid, h, P
<1> HIDE DEF ready, blocked, gone, r
<1>8. /\ r # LOOPS
      /\ r \in Slots => r = h.running \/ P[r].state \in {"READY", "TERMINATED"}
  BY <1>1, <1>4, <1>5, <1>6, <1>7, NullNotSlot DEF Plain
<1> QED
  BY <1>8 DEF r, P, h

LEMMA LiveFinite ==
  ASSUME NEW u
  PROVE  /\ IsFiniteSet(Live(u)) /\ Cardinality(Live(u)) \in Nat
         /\ Cardinality(Live(u)) <= MAX_PROCESSES
<1>1. IsFiniteSet(Slots) /\ Cardinality(Slots) = MAX_PROCESSES
  BY ProcessAssumption, FS_Interval DEF Slots
<1>2. Live(u) \subseteq Slots
  BY DEF Live
<1> QED
  BY <1>1, <1>2, FS_Subset, FS_CardinalityType

LEMMA OwnedCreate ==
  ASSUME NEW P, NEW Q, NEW u \in [Slots -> BOOLEAN], NEW c, NEW hp, Owned(P, u, c, hp),
         NEW s \in Slots, ~u[s], NEW stack \in (Stacks \ hp) \cup {NoStack}, c < MAX_PROCESSES,
         \A t \in Slots : Q[t].stack_base = IF t = s THEN stack ELSE P[t].stack_base
  PROVE  Owned(Q, [u EXCEPT ![s] = TRUE], (c + 1) % COUNT_MOD, hp \cup ({stack} \ {NoStack}))
<1> DEFINE w == [u EXCEPT ![s] = TRUE]
<1>1. Live(w) = Live(u) \cup {s} /\ s \notin Live(u)
  BY DEF Live
<1>2. \A t \in Slots : w[t] <=> u[t] \/ t = s
  OBVIOUS
<1> HIDE DEF w
<1>3. Cardinality(Live(w)) = c + 1 /\ c \in Nat
  BY <1>1, LiveFinite, FS_AddElement, Zenon DEF Owned
<1>4. (c + 1) % COUNT_MOD = c + 1
  BY <1>3, ProcessAssumption
<1>5. hp = {P[t].stack_base : t \in Live(u)} \ {NoStack}
  BY DEF Owned
<1>6. \A t \in Live(u) : t \in Slots /\ t # s /\ Q[t].stack_base = P[t].stack_base
  BY DEF Live
<1>7. hp \cup ({stack} \ {NoStack}) = {Q[t].stack_base : t \in Live(w)} \ {NoStack}
  <2>1. Q[s].stack_base = stack
    OBVIOUS
  <2>2. {Q[t].stack_base : t \in Live(w)} = {P[t].stack_base : t \in Live(u)} \cup {stack}
    BY <1>1, <1>6, <2>1
  <2> QED
    BY <1>5, <2>2
<1>8. \A a, b \in Slots : w[a] /\ w[b] /\ Q[a].stack_base = Q[b].stack_base
                            => a = b \/ Q[a].stack_base = NoStack
  <2>1. \A t \in Slots : u[t] /\ P[t].stack_base = stack => stack = NoStack
    BY <1>5 DEF Live
  <2> QED
    BY <1>2, <2>1 DEF Owned
<1> QED
  BY <1>3, <1>4, <1>7, <1>8, Zenon DEF Owned, w

LEMMA OwnedTerminate ==
  ASSUME NEW P, NEW Q, NEW u \in [Slots -> BOOLEAN], NEW c, NEW hp, Owned(P, u, c, hp),
         NEW p \in Slots, u[p], \A t \in Slots : Q[t].stack_base = P[t].stack_base
  PROVE  Owned(Q, [u EXCEPT ![p] = FALSE], (c - 1) % COUNT_MOD, hp \ {P[p].stack_base})
<1> DEFINE w == [u EXCEPT ![p] = FALSE]
<1>1. Live(w) = Live(u) \ {p} /\ p \in Live(u)
  BY DEF Live
<1>2. \A t \in Slots : w[t] <=> u[t] /\ t # p
  OBVIOUS
<1> HIDE DEF w
<1>3. Cardinality(Live(w)) = c - 1 /\ c \in Nat /\ c <= MAX_PROCESSES
  BY <1>1, LiveFinite, FS_RemoveElement, Zenon DEF Owned
<1>4. (c - 1) % COUNT_MOD = c - 1
  <2>1. c - 1 \in Nat
    BY <1>3, LiveFinite
  <2> QED
    BY <1>3, <2>1, ProcessAssumption
<1>5. hp = {P[t].stack_base : t \in Live(u)} \ {NoStack}
  BY DEF Owned
<1>6. hp \ {P[p].stack_base} = {Q[t].stack_base : t \in Live(w)} \ {NoStack}
  <2>1. \A t \in Live(u) : t \in Slots /\ u[t]
    BY DEF Live
  <2>2. \A t \in Live(w) : P[t].stack_base # P[p].stack_base \/ P[t].stack_base = NoStack
    BY <1>1, <2>1 DEF Owned
  <2>3. {Q[t].stack_base : t \in Live(w)} = {P[t].stack_base : t \in Live(w)}
    BY <1>1, <2>1
  <2> QED
    BY <1>1, <1>5, <2>2, <2>3
<1>7. \A a, b \in Slots : w[a] /\ w[b] /\ Q[a].stack_base = Q[b].stack_base
                            => a = b \/ Q[a].stack_base = NoStack
  BY <1>2 DEF Owned
<1> QED
  BY <1>3, <1>4, <1>6, <1>7, Zenon DEF Owned, w

LEMMA LookupKnown ==
  ASSUME NEW m, Typed(m), NEW u, Base(m.pcb, m.g, u),
         m.g.running # NULL => m.pcb[m.g.running].state # "NEW", NEW pid
  PROVE  LET r == process_get_by_pid(m, pid) IN r \in Slots => m.pcb[r].state # "NEW"
<1> DEFINE C == {s \in Slots : m.pcb[s].state # "NEW"}
<1>1. Plain(m.pcb, m.g) /\ Known(m.pcb, m.g)
  BY TypedPlain DEF Base
<1>2. Closed(m.pcb, C)
  BY <1>1 DEF Plain, Known, Closed
<1>3. \A q \in QueueNames : m.g[q] \in C \cup {NULL}
  <2>1. \A q \in QueueNames : m.g[q] \in Slots \cup {NULL}
    BY <1>1 DEF Plain, QueueNames
  <2> QED
    BY <1>1, <2>1 DEF Known
<1> HIDE DEF C
<1>4. \A q \in QueueNames : find_process_in_queue(m, m.g[q], pid) \in C \cup {NULL, LOOPS}
  BY <1>2, <1>3, FindFacts
<1>5. process_get_by_pid(m, pid) \in C \cup {NULL, LOOPS, m.g.running}
  BY <1>4 DEF process_get_by_pid, QueueNames
<1> QED
  BY <1>5, NullNotSlot DEF C

(* A process dies the same way if only exit codes were written before. *)
LEMMA DiesAfter ==
  ASSUME NEW n, NEW m, NEW k, NEW p \in Slots, m.g = n.g, m.hung = n.hung,
         SameBut(n.pcb, m.pcb, {"exit_code"}), Dies(m, k, p)
  PROVE  Dies(n, k, p)
<1> DEFINE D == {"state", "next", "prev", "exit_code"}
<1>1. \A s \in Slots : /\ m.pcb[s].state = n.pcb[s].state
                       /\ m.pcb[s].next = n.pcb[s].next /\ m.pcb[s].prev = n.pcb[s].prev
  BY DEF SameBut, Fields
<1>2. SameBut(n.pcb, k.pcb, D)
  <2>1. Fields \ D \subseteq Fields \ {"exit_code"}
    OBVIOUS
  <2>2. \A s \in Slots, f \in Fields \ D : k.pcb[s][f] = m.pcb[s][f]
    BY DEF Dies, SameBut
  <2>3. \A s \in Slots, f \in Fields \ {"exit_code"} : m.pcb[s][f] = n.pcb[s][f]
    BY DEF SameBut
  <2> HIDE DEF D
  <2>4. \A s \in Slots, f \in Fields \ D : k.pcb[s][f] = n.pcb[s][f]
    BY <2>1, <2>2, <2>3
  <2> QED
    BY <2>4 DEF SameBut
<1> QED
  BY <1>1, <1>2 DEF Dies

(* process_terminate, from a state in which an exit code was written. *)
LEMMA TerminateFromKeeps ==
  ASSUME ProcessInv, ~hung, NEW m, Typed(m), m.g = g, m.hung = hung,
         SameBut(pcb, m.pcb, {"exit_code"}),
         NEW pid, MayTerminate(pid), TerminateFrom(m, pid)
  PROVE  ProcessInv' /\ (g.running = NULL => g'.running = NULL)
<1> DEFINE p == process_get_by_pid(m, pid)
<1>0. /\ Typed(Now) /\ used \in [Slots -> BOOLEAN] /\ Plain(pcb, g) /\ Base(pcb, g, used)
  BY TypedPlain, NowFields DEF ProcessInv, Names
<1>1. \A s \in Slots : /\ m.pcb[s].pid = pcb[s].pid /\ m.pcb[s].state = pcb[s].state
                       /\ m.pcb[s].next = pcb[s].next /\ m.pcb[s].prev = pcb[s].prev
                       /\ m.pcb[s].stack_base = pcb[s].stack_base
  BY DEF SameBut, Fields
<1>2. p \in Slots \cup {NULL, LOOPS} /\ (p \in Slots => pcb[p].pid = pid)
  BY <1>1, LookupFacts
<1>3. client = "once" /\ Remembered(pcb, g) => p # LOOPS
  <2>1. SameBut(pcb, m.pcb, {"remaining_slice", "priority", "exit_code"})
    BY DEF SameBut
  <2>2. client = "once" /\ Remembered(pcb, g) => Once(m.pcb, m.g, used)
    BY <1>0, <2>1, OnceSame DEF ProcessInv
  <2> QED
    BY <2>2, LookupOnce
<1>4. CASE p \notin Slots
  <2> DEFINE k == [m EXCEPT !.hung = p = LOOPS]
  <2>1. Becomes(k) /\ UNCHANGED <<used, heap>>
    BY <1>4 DEF TerminateFrom
  <2>2. k = [pcb |-> m.pcb, g |-> m.g, hung |-> (p = LOOPS)]
    BY DEF Typed, State
  <2>3. Typed(k) /\ k.pcb = m.pcb /\ k.g = g /\ k.hung = (p = LOOPS)
    BY <2>2 DEF Typed, State
  <2> HIDE DEF k, p
  <2>4. Now' = k /\ UNCHANGED client
    BY <2>1, <2>3, NowBecomes
  <2>5. pcb' = m.pcb /\ g' = g /\ hung' = (p = LOOPS)
    BY <2>3, <2>4 DEF Now
  <2>6. /\ SameBut(pcb, pcb', {"next", "prev", "remaining_slice", "priority", "exit_code"})
        /\ SameBut(pcb, pcb', {"remaining_slice", "priority", "exit_code"})
    BY <2>5 DEF SameBut
  <2> QED
    BY <1>1, <1>3, <2>1, <2>3, <2>4, <2>5, <2>6, SameKeeps
<1>5. CASE p \in Slots
  <2>1. /\ Typed(Now') /\ Dies(m, Now', p) /\ UNCHANGED client
        /\ used' = [used EXCEPT ![p] = FALSE]
        /\ heap' = heap \ {m.pcb[p].stack_base}
    BY <1>5, TerminateEffect, Zenon
  <2>2. pcb[p].state # "NEW"
    <3>1. Base(m.pcb, m.g, used)
      BY <1>0, <1>1, BaseSame
    <3>2. m.g.running # NULL => m.pcb[m.g.running].state # "NEW"
      BY <1>1, NullNotSlot DEF ProcessInv, Names, OnlyIdleRuns
    <3> QED
      BY <1>1, <1>5, <3>1, <3>2, LookupKnown
  <2> HIDE DEF p
  <2>3. Now.pcb = pcb /\ Now.g = g /\ Now.hung = hung /\ Now'.pcb = pcb' /\ Now'.g = g' /\ Now'.hung = hung'
    BY DEF Now
  <2>4. Dies(Now, Now', p)
    BY <1>5, <2>1, <2>3, DiesAfter
  <2>5. \A s \in Slots : pcb'[s].eip = pcb[s].eip /\ pcb'[s].stack_base = pcb[s].stack_base
    BY <2>3, <2>4 DEF Dies, SameBut, Fields
  <2>6. g'.running # NULL => pcb'[0].eip = 0
    BY <2>3, <2>4, <2>5, NullNotSlot DEF Dies, ProcessInv
  <2>7. heap' = heap \ {pcb[p].stack_base} /\ heap' \subseteq Stacks
    BY <1>1, <1>5, <2>1 DEF ProcessInv
  <2>8. Base(pcb', g', used') /\ (Remembered(pcb', g') => Remembered(pcb, g))
    BY <1>0, <1>5, <2>1, <2>2, <2>3, <2>4, BaseTerminate, Zenon
  <2>9. g'.process_count = (g.process_count - 1) % COUNT_MOD /\ hung' = hung
    BY <2>3, <2>4 DEF Dies
  <2>10. ASSUME client = "once" PROVE pcb[p].state # "TERMINATED" /\ used[p]
    <3>1. pcb[p].state # "TERMINATED"
      BY <1>2, <1>5, <2>10 DEF MayTerminate
    <3> QED
      BY <1>0, <1>5, <2>2, <3>1 DEF Base, InUse
  <2>11. ASSUME client = "once" PROVE Owned(pcb', used', g'.process_count, heap')
    <3> DEFINE c == g.process_count
    <3>1. Owned(pcb, used, c, heap)
      BY <2>11 DEF ProcessInv
    <3> HIDE DEF c
    <3>2. Owned(pcb', [used EXCEPT ![p] = FALSE], (c - 1) % COUNT_MOD, heap \ {pcb[p].stack_base})
      BY <1>0, <1>5, <2>5, <2>10, <2>11, <3>1, OwnedTerminate, Zenon
    <3> QED
      BY <2>1, <2>7, <2>9, <3>2 DEF c
  <2>12. ASSUME client = "once", Remembered(pcb', g') PROVE ~hung' /\ Once(pcb', g', used')
    <3>1. Once(pcb, g, used) /\ ~hung
      BY <2>8, <2>12 DEF ProcessInv
    <3>2. pcb[p].state \in {"READY", "RUNNING"}
      BY <1>5, <2>10, <2>12, <3>1 DEF Once, UsedAlive
    <3>3. Once(pcb', g', used')
      BY <1>0, <1>5, <2>1, <2>3, <2>4, <3>1, <3>2, OnceTerminate, Zenon
    <3> QED
      BY <2>9, <3>1, <3>3
  <2>13. Names' /\ (g.running = NULL => g'.running = NULL)
    BY <1>5, <2>1, <2>4, NamesTerminate, Zenon DEF ProcessInv
  <2>14. Typed(Now)' /\ client' \in {"any", "once"} /\ client' = client
    BY <2>1 DEF ProcessInv
  <2>15. ProcessInv'
    BY <2>6, <2>7, <2>8, <2>11, <2>12, <2>13, <2>14, Zenon DEF ProcessInv
  <2> QED
    BY <2>13, <2>15
<1> QED
  BY <1>4, <1>5

(* process_terminate. *)
LEMMA TerminateKeeps ==
  ASSUME ProcessInv, NEW pid, Terminate(pid)
  PROVE  ProcessInv' /\ (g.running = NULL => g'.running = NULL)
<1>1. ~hung /\ MayTerminate(pid) /\ TerminateFrom(Now, pid)
  BY DEF Terminate, process_terminate
<1>2. Typed(Now) /\ SameBut(pcb, Now.pcb, {"exit_code"})
  BY NowFields DEF ProcessInv, SameBut
<1> QED
  BY <1>1, <1>2, NowFields, TerminateFromKeeps

(* process_create. *)
LEMMA CreateKeeps ==
  ASSUME ProcessInv, NEW entry_point \in {0, 1}, NEW priority \in Nat, Create(entry_point, priority)
  PROVE  ProcessInv' /\ (g.running = NULL => g'.running = NULL)
<1>0. /\ process_create(entry_point, priority) /\ MayCreate /\ ~hung /\ Typed(Now)
      /\ used \in [Slots -> BOOLEAN] /\ heap \subseteq Stacks
  BY DEF Create, ProcessInv, Names
<1>2. CASE CreateRefused(entry_point)
  BY <1>0, <1>2, NothingKeeps DEF process_create
<1>3. CASE ~CreateRefused(entry_point)
  <2>1. PICK s \in Slots, stack \in kmalloc_stack :
           /\ ~used[s] /\ Typed(Now') /\ UNCHANGED client
           /\ Made(Now, Now', s, NewPCB(g.next_pid, entry_point, priority, stack))
           /\ used' = [used EXCEPT ![s] = TRUE]
           /\ heap' = heap \cup ({stack} \ {NoStack})
    BY <1>0, <1>3, CreateEffect
  <2> DEFINE new == NewPCB(g.next_pid, entry_point, priority, stack)
  <2>2. Now.pcb = pcb /\ Now.g = g /\ Now.hung = hung /\ Now'.pcb = pcb' /\ Now'.g = g' /\ Now'.hung = hung'
    BY DEF Now
  <2>3. stack \in Stacks \cup {NoStack} /\ stack \in (Stacks \ heap) \cup {NoStack}
    BY DEF kmalloc_stack
  <2>4. new.pid = g.next_pid /\ new.state = "READY" /\ new.stack_base = stack
    BY <1>0, <2>3, NewTyped, Zenon
  <2>5. Made(Now, Now', s, new)
    BY <2>1
  <2> HIDE DEF new
  <2>6. \A t \in Slots : t # s => pcb'[t].eip = pcb[t].eip
    BY <2>2, <2>5 DEF Made, Fields
  <2>7. \A t \in Slots : pcb'[t].stack_base = IF t = s THEN stack ELSE pcb[t].stack_base
    BY <2>2, <2>4, <2>5 DEF Made, Fields, LinkFields
  <2>8. g'.running = g.running /\ g'.process_count = (g.process_count + 1) % COUNT_MOD /\ hung' = hung
    BY <2>2, <2>5 DEF Made
  <2>9. g'.running # NULL => pcb'[0].eip = 0
    <3>1. g.running # NULL => used[0] /\ pcb[0].eip = 0
      BY DEF ProcessInv, Names, OnlyIdleRuns
    <3> QED
      BY <2>1, <2>6, <2>8, <3>1, NullNotSlot, Zenon
  <2>10. heap' \subseteq Stacks
    BY <1>0, <2>1, <2>3
  <2>11. Plain(pcb, g) /\ Base(pcb, g, used)
    BY <1>0, <2>2, TypedPlain DEF ProcessInv
  <2>12. /\ Base(pcb', g', used')
         /\ Remembered(pcb', g') => Remembered(pcb, g) /\ pcb[s].state = "NEW"
    <3>1. Base(Now.pcb, Now.g, used) /\ Plain(Now.pcb, Now.g) /\ new.pid = Now.g.next_pid
      BY <2>2, <2>4, <2>11
    <3>2. /\ Base(Now'.pcb, Now'.g, used')
          /\ Remembered(Now'.pcb, Now'.g) => Remembered(Now.pcb, Now.g) /\ Now.pcb[s].state = "NEW"
      <4>1. ~used[s] /\ used \in [Slots -> BOOLEAN] /\ used' = [used EXCEPT ![s] = TRUE]
        BY <1>0, <2>1
      <4>2. new.state = "READY" /\ Made(Now, Now', s, new)
        BY <2>4, <2>5
      <4>3. Creates(Now, Now', used, used', s, new)
        BY <3>1, <4>1, <4>2, Zenon DEF Creates
      <4> QED
        BY <4>3, BaseCreate
    <3> QED
      BY <2>2, <3>2
  <2>13. ASSUME client = "once" PROVE Owned(pcb', used', g'.process_count, heap')
    <3> DEFINE c == g.process_count
    <3>1. Owned(pcb, used, c, heap)
      BY <2>13 DEF ProcessInv
    <3>2. c < MAX_PROCESSES
      <4>1. c \in Nat
        BY <3>1, LiveFinite DEF Owned
      <4> QED
        BY <1>3, <4>1, ProcessAssumption DEF CreateRefused
    <3> HIDE DEF c
    <3>3. Owned(pcb', [used EXCEPT ![s] = TRUE], (c + 1) % COUNT_MOD, heap \cup ({stack} \ {NoStack}))
      BY <1>0, <2>1, <2>3, <2>7, <3>1, <3>2, OwnedCreate, Zenon
    <3> QED
      BY <2>1, <2>8, <3>3 DEF c
  <2>14. ASSUME client = "once", Remembered(pcb', g') PROVE ~hung' /\ Once(pcb', g', used')
    <3>1. Once(pcb, g, used) /\ ~hung /\ pcb[s].state = "NEW"
      BY <2>12, <2>14 DEF ProcessInv
    <3>2. Once(pcb', g', used')
      BY <1>0, <2>1, <2>2, <2>4, <2>5, <2>11, <3>1, OnceCreate, Zenon
    <3> QED
      BY <2>8, <3>1, <3>2
  <2>15. Names' /\ g'.running = g.running
    BY <1>0, <2>1, <2>4, <2>5, NamesCreate, Zenon DEF ProcessInv
  <2>16. Typed(Now)' /\ client' \in {"any", "once"} /\ client' = client
    BY <2>1 DEF ProcessInv
  <2>17. ProcessInv'
    BY <2>9, <2>10, <2>12, <2>13, <2>14, <2>15, <2>16, Zenon DEF ProcessInv
  <2> QED
    BY <2>15, <2>17
<1> QED
  BY <1>2, <1>3

(* process_set_priority and process_get_info. *)
LEMMA LookupKeeps ==
  ASSUME ProcessInv, NEW pid, NEW priority \in Nat,
         process_set_priority(pid, priority) \/ process_get_info(pid)
  PROVE  ProcessInv' /\ g'.running = g.running
<1> DEFINE p == process_get_by_pid(Now, pid)
<1>0. Typed(Now) /\ hung' = (p = LOOPS) /\ UNCHANGED <<used, g, heap, client>>
  BY DEF ProcessInv, process_set_priority, process_get_info
<1>2. p \in Slots \cup {NULL, LOOPS}
  BY <1>0, LookupFacts
<1>3. client = "once" /\ Remembered(pcb, g) => p # LOOPS
  BY <1>0, LookupOnce, NowFields, Zenon DEF ProcessInv
<1>4. pcb' = pcb \/ (p \in Slots /\ pcb' = SetField(pcb, p, "priority", priority))
  BY <1>2 DEF process_set_priority, process_get_info, SetField
<1> HIDE DEF p
<1>5. \E m : Typed(m) /\ m.g = g /\ m.hung = hung /\ m.pcb = pcb' /\ SameBut(pcb, m.pcb, {"priority"})
  <2>1. CASE pcb' = pcb
    BY <1>0, <2>1, NowFields DEF SameBut
  <2>2. CASE p \in Slots /\ pcb' = SetField(pcb, p, "priority", priority)
    <3> DEFINE m == WithField(Now, p, "priority", priority)
    <3>1. "priority" \in Fields /\ priority \in FieldType("priority")
      BY DEF Fields, FieldType, LinkFields
    <3>2. /\ Typed(m) /\ m.g = g /\ m.hung = hung
          /\ \A s \in Slots, e \in Fields :
               m.pcb[s][e] = IF s = p /\ e = "priority" THEN priority ELSE pcb[s][e]
      BY <1>0, <3>1, NowFields, FieldTyped
    <3>3. m.pcb = pcb'
      BY <2>2 DEF WithField, Now
    <3> HIDE DEF m
    <3>4. SameBut(pcb, m.pcb, {"priority"})
      BY <3>2 DEF SameBut
    <3> QED
      BY <3>2, <3>3, <3>4
  <2> QED
    BY <1>4, <2>1, <2>2
<1>6. Typed(Now)'
  <2>1. Now' = [pcb |-> pcb', g |-> g, hung |-> hung'] /\ hung' \in BOOLEAN
    BY <1>0 DEF Now
  <2> QED
    BY <1>5, <2>1 DEF Typed, State
<1>7. /\ SameBut(pcb, pcb', {"next", "prev", "remaining_slice", "priority", "exit_code"})
      /\ SameBut(pcb, pcb', {"remaining_slice", "priority", "exit_code"})
  BY <1>5 DEF SameBut
<1>8. \A s \in Slots : pcb'[s].next \in {pcb[s].next, NULL}
  BY <1>7 DEF SameBut, Fields
<1> QED
  BY <1>0, <1>3, <1>6, <1>7, <1>8, SameKeeps, Zenon

LEMMA InitProcess == Init => ProcessInv
<1> SUFFICES ASSUME Init PROVE ProcessInv
  OBVIOUS
<1>2. 0 \in Slots
  BY NullNotSlot
<1> DEFINE idle == [ZeroPCB EXCEPT !.state = "RUNNING", !.priority = 1]
<1>3. /\ idle.pid = 0 /\ idle.state = "RUNNING" /\ idle.next = NULL /\ idle.prev = NULL
      /\ idle.eip = 0 /\ idle.exit_code = 0 /\ idle.stack_base = NoStack /\ idle.priority = 1
      /\ idle.time_slice = 0 /\ idle.remaining_slice = 0
  BY DEF ZeroPCB
<1>4. /\ ZeroPCB.pid = 0 /\ ZeroPCB.state = "NEW" /\ ZeroPCB.next = NULL /\ ZeroPCB.prev = NULL
      /\ ZeroPCB.eip = 0 /\ ZeroPCB.exit_code = 0 /\ ZeroPCB.stack_base = NoStack /\ ZeroPCB.priority = 0
      /\ ZeroPCB.time_slice = 0 /\ ZeroPCB.remaining_slice = 0
  BY DEF ZeroPCB
<1>5. \A s \in Slots : pcb[s] = IF s = 0 THEN idle ELSE ZeroPCB
  BY DEF Init
<1> HIDE DEF idle
<1>6. \A s \in Slots : /\ pcb[s].pid = 0 /\ pcb[s].state = (IF s = 0 THEN "RUNNING" ELSE "NEW")
                       /\ pcb[s].next = NULL /\ pcb[s].prev = NULL /\ pcb[s].eip = 0
                       /\ pcb[s].exit_code = 0
                       /\ pcb[s].stack_base = NoStack /\ pcb[s].priority \in Nat
                       /\ pcb[s].time_slice = 0 /\ pcb[s].remaining_slice = 0
  BY <1>3, <1>4, <1>5
<1>7. /\ g.running = 0 /\ g.ready_queue = NULL /\ g.blocked_queue = NULL
      /\ g.terminated_queue = NULL /\ g.next_pid = 1 /\ g.process_count = 1
      /\ g.scheduler_ticks = 0
  BY DEF Init
<1>8. /\ used = [s \in Slots |-> s = 0] /\ heap = {} /\ hung = FALSE /\ client \in {"any", "once"}
  BY DEF Init
<1>9. Typed(Now)
  <2>1. State(Now) /\ Now.hung \in BOOLEAN
    <3>1. idle = [f \in Fields |-> idle[f]] /\ ZeroPCB = [f \in Fields |-> ZeroPCB[f]]
      BY Zenon DEF ZeroPCB, Fields, idle
    <3>2. Pool(pcb)
      <4>1. pcb = [s \in Slots |-> IF s = 0 THEN idle ELSE ZeroPCB]
        BY DEF Init, idle
      <4> QED
        BY <3>1, <4>1 DEF Pool
    <3>3. Manager(g)
      BY DEF Init, Manager, ManagerFields
    <3>4. Now = [pcb |-> Now.pcb, g |-> Now.g, hung |-> Now.hung] /\ Now.hung \in BOOLEAN
      BY <1>8, NowFields, Zenon DEF Now
    <3> QED
      BY <3>2, <3>3, <3>4, NowFields, Zenon DEF State
  <2>2. ASSUME NEW s \in Slots, NEW f \in Fields PROVE pcb[s][f] \in FieldType(f)
    <3>1. /\ FieldType("pid") = Nat /\ FieldType("priority") = Nat /\ FieldType("time_slice") = Nat
          /\ FieldType("remaining_slice") = Nat
          /\ FieldType("stack_base") = Stacks \cup {NoStack} /\ FieldType("eip") = {0, 1}
          /\ FieldType("exit_code") = ExitCodes
          /\ FieldType("next") = Slots \cup {NULL} /\ FieldType("prev") = Slots \cup {NULL}
          /\ "RUNNING" \in FieldType("state") /\ "NEW" \in FieldType("state")
      BY DEF FieldType, LinkFields
    <3> QED
      BY <1>6, <3>1, ProcessAssumption DEF Fields
  <2>3. ASSUME NEW f \in ManagerFields PROVE g[f] \in ManagerType(f)
    <3>1. /\ ManagerType("running") = Slots \cup {NULL} /\ ManagerType("ready_queue") = Slots \cup {NULL}
          /\ ManagerType("blocked_queue") = Slots \cup {NULL}
          /\ ManagerType("terminated_queue") = Slots \cup {NULL}
          /\ ManagerType("next_pid") = Nat /\ ManagerType("process_count") = 0 .. COUNT_MOD - 1
          /\ ManagerType("scheduler_ticks") = 0 .. TICK_MOD - 1
      BY DEF ManagerType
    <3>2. 1 \in 0 .. COUNT_MOD - 1 /\ 0 \in 0 .. TICK_MOD - 1
      BY ProcessAssumption
    <3> QED
      BY <1>2, <1>7, <3>1, <3>2, Zenon DEF ManagerFields
  <2> QED
    BY <2>1, <2>2, <2>3, NowFields DEF Typed
<1>10. Once(pcb, g, used)
  <2>1. \A s \in Slots : used[s] <=> s = 0
    BY <1>8, Zenon
  <2>2. Linked(pcb)
    BY <1>6, NullNotSlot DEF Linked
  <2>3. SameQueue(pcb) /\ ReadyHead(pcb, g) /\ DeadHead(pcb, g) /\ DeadQueued(pcb, g)
    BY <1>6, <1>7, NullNotSlot DEF SameQueue, ReadyHead, DeadHead, DeadQueued
  <2>4. OneRuns(pcb, g) /\ Unqueued(pcb) /\ UsedAlive(pcb, used)
    BY <1>6, <1>7, <2>1 DEF OneRuns, Unqueued, UsedAlive
  <2>5. PidsOnce(pcb) /\ NewestFirst(pcb) /\ PidsBelow(pcb, g)
    BY <1>6, <1>7 DEF PidsOnce, NewestFirst, PidsBelow
  <2> QED
    BY <1>6, <1>7, <2>1, <2>2, <2>3, <2>4, <2>5
       DEF Once
<1>11. Owned(pcb, used, g.process_count, heap)
  <2>1. Live(used) = {0}
    BY <1>2, <1>8, Zenon DEF Live
  <2>2. Cardinality({0}) = 1
    BY FS_Singleton
  <2>3. {pcb[s].stack_base : s \in {0}} = {NoStack}
    BY <1>2, <1>6
  <2> QED
    BY <1>6, <1>7, <1>8, <2>1, <2>2, <2>3, Zenon DEF Owned
<1>12. Names
  <2>1. used \in [Slots -> BOOLEAN] /\ \A s \in Slots : used[s] <=> s = 0
    BY <1>8, Zenon
  <2>2. OnlyIdleRuns
    BY <1>2, <1>6, <1>7, <2>1 DEF OnlyIdleRuns
  <2>3. PidsUnique
    BY <1>6, <1>7, <2>1 DEF PidsUnique
  <2> QED
    BY <2>1, <2>2, <2>3 DEF Names
<1>13. Base(pcb, g, used)
  <2>1. \A s \in Slots : used[s] <=> s = 0
    BY <1>8, Zenon
  <2>2. Known(pcb, g) /\ InUse(pcb, used)
    BY <1>6, <1>7, <2>1 DEF Known, InUse, QueueNames
  <2> QED
    BY <1>10, <2>2 DEF Base, Once
<1> QED
  BY <1>2, <1>6, <1>8, <1>9, <1>10, <1>11, <1>12, <1>13 DEF ProcessInv

LEMMA NextKeeps ==
  ASSUME ProcessInv, [Next]_vars
  PROVE  ProcessInv' /\ (g.running = NULL => g'.running = NULL)
<1> DEFINE Goal == ProcessInv' /\ (g.running = NULL => g'.running = NULL)
<1>1. ASSUME NEW entry_point \in {0, 1}, NEW priority \in Priorities, Create(entry_point, priority)
      PROVE  Goal
  BY <1>1, ProcessAssumption, CreateKeeps
<1>2. ASSUME NEW pid, Terminate(pid) PROVE Goal
  BY <1>2, TerminateKeeps
<1>3. ASSUME NEW pid, NEW priority \in Priorities, process_set_priority(pid, priority) PROVE Goal
  BY <1>3, ProcessAssumption, LookupKeeps
<1>4. ASSUME NEW pid, process_get_info(pid) PROVE Goal
  <2>1. 0 \in Nat
    OBVIOUS
  <2> QED
    BY <1>4, <2>1, LookupKeeps
<1> QED
  BY <1>1, <1>2, <1>3, <1>4, DispatchKeeps, NothingKeeps DEF Next

(* sys_exit, of a process that runs. *)
LEMMA ExitKeeps ==
  ASSUME ProcessInv, ~hung, NEW code \in ExitCodes, sys_exit(code), g.running # NULL
  PROVE  ProcessInv' /\ (g.running = NULL => g'.running = NULL)
<1> DEFINE m == WithField(Now, g.running, "exit_code", code)
<1>1. TerminateFrom(m, pcb[g.running].pid)
  BY DEF sys_exit, WithField, SetField
<1>2. "exit_code" \in Fields /\ code \in FieldType("exit_code") /\ Typed(Now)
  BY DEF Fields, FieldType, LinkFields, ProcessInv
<1>3. /\ Typed(m) /\ m.g = g /\ m.hung = hung
      /\ \A s \in Slots, e \in Fields :
           m.pcb[s][e] = IF s = g.running /\ e = "exit_code" THEN code ELSE pcb[s][e]
  BY <1>2, NowFields, FieldTyped
<1> HIDE DEF m
<1>4. SameBut(pcb, m.pcb, {"exit_code"})
  BY <1>3 DEF SameBut
<1> QED
  BY <1>1, <1>3, <1>4, RunningPid, TerminateFromKeeps

(* Every other system call and every shell command is one call of the      *)
(* manager, or none: fork, whose parent is the idle process, always fails. *)
LEMMA CallIsCall ==
  ASSUME ProcessInv, [SyscallNext]_sysvars
  PROVE  \/ [Next]_vars
         \/ ~hung /\ g.running # NULL /\ \E code \in ExitCodes : sys_exit(code)
<1> DEFINE Goal == \/ [Next]_vars
                   \/ ~hung /\ g.running # NULL /\ \E code \in ExitCodes : sys_exit(code)
<1>1. ASSUME UNCHANGED vars PROVE Goal
  BY <1>1
<1>2. ASSUME NEW h, ~hung, ProcessHandler(h) PROVE Goal
  <2>1. ASSUME NEW code \in ExitCodes, sys_exit(code) PROVE Goal
    <3>1. CASE g.running = NULL
      BY <1>1, <2>1, <3>1 DEF sys_exit
    <3>2. CASE g.running # NULL
      BY <1>2, <2>1, <3>2
    <3> QED
      BY <3>1, <3>2
  <2>2. CASE sys_fork
    <3>1. g.running # NULL => pcb[g.running].eip = 0
      BY DEF ProcessInv, Names, OnlyIdleRuns
    <3>2. UNCHANGED vars
      BY <2>2, <3>1, Zenon DEF sys_fork, JustReturns, process_create, CreateRefused
    <3> QED
      BY <1>1, <3>2
  <2>3. CASE sys_exec \/ sys_wait \/ sys_getpid \/ sys_getppid
    BY <1>1, <2>3 DEF sys_exec, sys_wait, sys_getpid, sys_getppid, JustReturns
  <2>4. ASSUME NEW pid \in Pids, sys_kill(pid) PROVE Goal
    BY <1>2, <2>4 DEF sys_kill, Next, Terminate
  <2>5. CASE sys_yield
    BY <1>1, <2>5 DEF sys_yield, Next
  <2>6. ASSUME NEW ptr, NEW max, sys_ps(ptr, max) PROVE Goal
    BY <1>1, <2>6 DEF sys_ps, JustReturns
  <2>7. ASSUME NEW pid \in Pids, NEW p \in Priorities \cup {0}, sys_setpriority(pid, p) PROVE Goal
    BY <1>1, <2>7 DEF sys_setpriority, JustReturns, Next
  <2>8. ASSUME NEW ptr, sys_getinfo(ptr) PROVE Goal
    BY <1>1, <2>8 DEF sys_getinfo, JustReturns
  <2> HIDE DEF Goal
  <2> QED
    BY <1>2, <2>1, <2>2, <2>3, <2>4, <2>5, <2>6, <2>7, <2>8 DEF ProcessHandler
<1>3. ASSUME NEW h, OtherHandler(h) PROVE Goal
  BY <1>1, <1>3 DEF OtherHandler, JustReturns
<1>4. ASSUME NEW num, syscall_execute(num) PROVE Goal
  BY <1>1, <1>2, <1>3, <1>4 DEF syscall_execute, JustReturns
<1>5. ASSUME OtherCall PROVE Goal
  <2>1. ASSUME NEW entry_point \in {0, 1}, NEW priority \in Priorities, Create(entry_point, priority)
        PROVE  Goal
    BY <2>1 DEF Next
  <2>2. CASE process_scheduler
    BY <2>2 DEF Next
  <2>3. ASSUME NEW pid \in Pids, shell_kill(pid) PROVE Goal
    BY <1>1, <2>3 DEF shell_kill, Next
  <2>4. ASSUME NEW pid \in Pids, NEW level \in Priorities \cup {0}, shell_priority(pid, level) PROVE Goal
    BY <1>1, <2>4 DEF shell_priority, Next
  <2>5. CASE shell_ps
    BY <1>1, <2>5 DEF shell_ps
  <2>6. ASSUME NEW pid \in Pids, process_get_info(pid) PROVE Goal
    BY <2>6 DEF Next
  <2> HIDE DEF Goal
  <2> QED
    BY <1>5, <2>1, <2>2, <2>3, <2>4, <2>5, <2>6 DEF OtherCall
<1>6. CASE UNCHANGED sysvars
  BY <1>1, <1>6 DEF sysvars, vars
<1> QED
  BY <1>4, <1>5, <1>6 DEF SyscallNext

LEMMA SyscallKeeps ==
  ASSUME ProcessInv, [SyscallNext]_sysvars
  PROVE  ProcessInv' /\ (g.running = NULL => g'.running = NULL)
BY CallIsCall, NextKeeps, ExitKeeps

LEMMA ProcessQueues ==
  ASSUME ProcessInv
  PROVE  QueuesSound
<1>1. TypeOK
  BY ProcessTypes
<1>2. ASSUME client = "once", NoneReused
      PROVE  /\ ~hung
             /\ \A s, t \in Slots : pcb[s].next = t <=> pcb[t].prev = s
             /\ \A i \in 1 .. 3 : LET h == g[Queues[i]] IN h # NULL => pcb[h].prev = NULL
  <2>1. ~hung /\ Once(pcb, g, used)
    BY <1>2 DEF ProcessInv, NoneReused, Remembered
  <2>2. Plain(pcb, g)
    BY TypedPlain, NowFields DEF ProcessInv
  <2>3. \A q \in QueueNames : g[q] # NULL => pcb[g[q]].prev = NULL
    BY <2>1, <2>2 DEF QueueNames, Once, ReadyHead, DeadHead, Plain
  <2>4. \A i \in 1 .. 3 : Queues[i] \in QueueNames
    BY DEF Queues, QueueNames
  <2> QED
    BY <2>1, <2>3, <2>4, Zenon DEF Once, Linked
<1> QED
  BY <1>1, <1>2 DEF QueuesSound

-----------------------------------------------------------------------------
(* What process_get_list returns *)

ReadySlots(P) == {s \in Slots : P[s].state = "READY"}

(* w has every member of R, each once, and then NULL. *)
Shows(w, R) ==
  /\ w \in Seq(R \cup {NULL}) /\ Len(w) \in Nat \ {0} /\ w[Len(w)] = NULL
  /\ \A i \in 1 .. Len(w) - 1 : w[i] \in R
  /\ \A i, j \in 1 .. Len(w) : w[i] = w[j] => i = j
  /\ \A a \in R : \E i \in 1 .. Len(w) - 1 : w[i] = a

LEMMA ReadyWalk ==
  ASSUME NEW P, NEW h, NEW u, Once(P, h, u), Plain(P, h)
  PROVE  Shows(Walk(P, h.ready_queue), ReadySlots(P))
<1> DEFINE w == Walk(P, h.ready_queue)
           R == ReadySlots(P)
           I == {w[i] : i \in 1 .. Len(w) - 1}
<1>1. Closed(P, R) /\ h.ready_queue \in R \cup {NULL} /\ Linked(P)
      /\ (h.ready_queue # NULL => P[h.ready_queue].prev = NULL)
  BY NullNotSlot DEF Plain, Once, SameQueue, ReadyHead, Closed, ReadySlots
<1> HIDE DEF R
<1>2. /\ w \in Seq(R \cup {NULL}) /\ Path(P, h.ready_queue, w) /\ Len(w) \in 1 .. MAX_PROCESSES + 1
  BY <1>1, WalkFacts, Zenon
<1>3. /\ \A i, j \in 1 .. Len(w) : w[i] = w[j] => i = j
      /\ w[Len(w)] = NULL
  BY <1>1, WalkEnds
<1> HIDE DEF w
<1>4. Len(w) \in Nat \ {0}
  BY <1>2, ProcessAssumption
<1>5. \A i \in 1 .. Len(w) : w[i] \in R \cup {NULL}
  BY <1>2, ElementIn
<1>6. \A i \in 1 .. Len(w) - 1 : w[i] \in R /\ w[i + 1] = P[w[i]].next
  BY <1>2, <1>4, <1>5 DEF Path
<1>7. w[1] = h.ready_queue
  BY <1>2 DEF Path
<1> HIDE DEF I
<1>8. ASSUME NEW a \in R, a \notin I PROVE FALSE
  <2> DEFINE M == {h.next_pid - P[x].pid : x \in R \ I}
  <2>1. \A x \in R : x \in Slots /\ P[x].state = "READY" /\ P[x].pid \in Nat /\ P[x].pid < h.next_pid
    BY DEF R, ReadySlots, Plain, Once, PidsBelow
  <2>2. h.next_pid \in Nat
    BY DEF Plain
  <2>3. M \in SUBSET Nat /\ M # {}
    BY <1>8, <2>1, <2>2
  <2>4. PICK b \in R \ I : \A x \in R \ I : h.next_pid - P[b].pid <= h.next_pid - P[x].pid
    <3>1. Min(M) \in M /\ \A y \in M : Min(M) <= y
      BY <2>3, MinOfNats, Zenon
    <3> QED
      BY <3>1, Zenon
  <2>5. \A x \in R \ I : P[x].pid <= P[b].pid
    BY <2>1, <2>2, <2>4
  <2>6. P[b].prev \in Slots
    <3>1. P[b].prev \in Slots \cup {NULL}
      BY <2>1 DEF Plain
    <3>2. ASSUME P[b].prev = NULL PROVE FALSE
      <4>1. b = h.ready_queue
        BY <2>1, <3>2 DEF Once, ReadyHead
      <4>2. b # NULL /\ b \in Slots
        BY <2>1, NullNotSlot
      <4>3. 1 \in 1 .. Len(w) - 1
        BY <1>3, <1>4, <1>7, <4>1, <4>2
      <4> QED
        BY <1>7, <4>1, <4>3 DEF I
    <3> QED
      BY <3>1, <3>2
  <2> DEFINE c == P[b].prev
  <2>7. P[c].next = b
    BY <1>1, <2>1, <2>6 DEF Linked
  <2>8. c \in R /\ P[b].pid < P[c].pid
    <3>1. b # NULL
      BY <2>1, NullNotSlot
    <3>2. P[c].state = "READY"
      BY <2>1, <2>6, <2>7, <3>1 DEF Once, SameQueue
    <3>3. P[b].pid < P[c].pid
      BY <2>6, <2>7, <3>1, <3>2, Zenon DEF Once, NewestFirst
    <3> QED
      BY <2>6, <3>2, <3>3 DEF R, ReadySlots
  <2> HIDE DEF c
  <2>9. c \in I
    <3>1. P[b].pid \in Nat /\ P[c].pid \in Nat
      BY <2>1, <2>8
    <3> QED
      BY <2>5, <2>8, <3>1
  <2>10. PICK i \in 1 .. Len(w) - 1 : w[i] = c
    BY <2>9, Zenon DEF I
  <2>11. w[i + 1] = b
    BY <1>6, <2>7, <2>10
  <2>12. i + 1 \in 1 .. Len(w) - 1
    BY <1>3, <1>4, <2>1, <2>11, NullNotSlot
  <2> QED
    BY <2>11, <2>12 DEF I
<1>9. \A a \in R : \E i \in 1 .. Len(w) - 1 : w[i] = a
  BY <1>8 DEF I
<1> QED
  BY <1>2, <1>3, <1>4, <1>6, <1>9 DEF Shows, w, R

LEMMA ReadyCount ==
  ASSUME NEW P, NEW h, NEW u, Once(P, h, u), Plain(P, h)
  PROVE  Cardinality(ReadySlots(P)) = Len(Walk(P, h.ready_queue)) - 1
<1> DEFINE w == Walk(P, h.ready_queue)
           R == ReadySlots(P)
           n == Len(w) - 1
           f == [i \in 1 .. n |-> w[i]]
<1>1. /\ Len(w) \in Nat \ {0}
      /\ \A i \in 1 .. Len(w) - 1 : w[i] \in R
      /\ \A i, j \in 1 .. Len(w) : w[i] = w[j] => i = j
      /\ \A a \in R : \E i \in 1 .. Len(w) - 1 : w[i] = a
  <2>1. Shows(w, R)
    BY ReadyWalk
  <2> HIDE DEF w, R
  <2> QED
    BY <2>1 DEF Shows
<1> HIDE DEF w, R
<1>2. n \in Nat /\ 1 .. n \subseteq 1 .. Len(w)
  BY <1>1
<1>3. f \in Bijection(1 .. n, R)
  <2>1. f \in [1 .. n -> R]
    BY <1>1
  <2>2. \A i, j \in 1 .. n : f[i] = f[j] => i = j
    BY <1>1, <1>2
  <2>3. \A a \in R : \E i \in 1 .. n : f[i] = a
    BY <1>1
  <2> QED
    BY <2>1, <2>2, <2>3 DEF Bijection, Injection, Surjection, IsInjective
<1>4. ExistsBijection(1 .. n, R)
  BY <1>3 DEF ExistsBijection
<1>5. IsFiniteSet(1 .. n) /\ Cardinality(1 .. n) = n
  BY <1>2, FS_Interval
<1>6. Cardinality(R) = n
  BY <1>4, <1>5, FS_Bijection
<1> QED
  BY <1>6 DEF R, w

LEMMA LiveCount ==
  ASSUME NEW P, NEW h, NEW u, Once(P, h, u), Plain(P, h)
  PROVE  /\ Cardinality(Live(u)) = Cardinality(ReadySlots(P)) + (IF h.running = NULL THEN 0 ELSE 1)
         /\ Cardinality(ReadySlots(P)) \in Nat
         /\ \A s \in Live(u) : s \in ReadySlots(P) \/ s = h.running
         /\ ReadySlots(P) \subseteq Live(u) /\ (h.running # NULL => h.running \in Live(u))
         /\ h.running \notin ReadySlots(P)
<1>1. \A s \in Slots : (u[s] <=> P[s].state \in {"READY", "RUNNING"})
                       /\ (P[s].state = "RUNNING" <=> s = h.running)
  BY DEF Once, UsedAlive, OneRuns
<1>2. h.running \in Slots \cup {NULL}
  BY DEF Plain
<1>3. /\ \A s \in Live(u) : s \in ReadySlots(P) \/ s = h.running
      /\ ReadySlots(P) \subseteq Live(u) /\ (h.running # NULL => h.running \in Live(u))
      /\ h.running \notin ReadySlots(P)
  BY <1>1, <1>2 DEF Live, ReadySlots
<1>4. IsFiniteSet(ReadySlots(P)) /\ Cardinality(ReadySlots(P)) \in Nat
  BY <1>3, LiveFinite, FS_Subset, FS_CardinalityType
<1>5. CASE h.running = NULL
  <2>1. Live(u) = ReadySlots(P)
    BY <1>3, <1>5, NullNotSlot DEF Live
  <2> QED
    BY <1>3, <1>4, <1>5, <2>1
<1>6. CASE h.running # NULL
  <2>1. Live(u) = ReadySlots(P) \cup {h.running}
    BY <1>3, <1>6
  <2>2. h.running \notin ReadySlots(P)
    BY <1>3
  <2>3. Cardinality(Live(u)) = Cardinality(ReadySlots(P)) + 1
    BY <1>4, <2>1, <2>2, FS_AddElement
  <2> QED
    BY <1>3, <1>4, <1>6, <2>3
<1> QED
  BY <1>5, <1>6

(* l is w without its NULL, or its first n. *)
Fits(l, w, R, n) ==
  LET j == IF n <= Len(w) - 1 THEN n ELSE Len(w) - 1
  IN  l \in Seq(R) /\ Len(l) = j /\ \A i \in 1 .. j : l[i] = w[i]

(* A queue that ends is listed up to its end, or as far as there is room. *)
LEMMA ListedFacts ==
  ASSUME NEW R, NEW h, NEW w, w = Walk(pcb, h), Shows(w, R), NEW n \in Nat
  PROVE  Fits(Listed(h, n), w, R, n)
<1> DEFINE j == IF n <= Len(w) - 1 THEN n ELSE Len(w) - 1
           K == {k \in 1 .. Len(w) : k <= n /\ w[k] # NULL}
           l == Listed(h, n)
<1>1. /\ Len(w) \in Nat \ {0} /\ w[Len(w)] = NULL
      /\ \A i \in 1 .. Len(w) - 1 : w[i] \in R
      /\ \A i, k \in 1 .. Len(w) : w[i] = w[k] => i = k
  BY DEF Shows
<1>2. l = SubSeq(w, 1, Cardinality(K))
  BY DEF Listed
<1> HIDE DEF l
<1>3. j \in Nat /\ j <= Len(w) - 1 /\ j <= n
  BY <1>1
<1>4. K = 1 .. j
  <2>1. \A k \in 1 .. Len(w) - 1 : w[k] # NULL
    BY <1>1
  <2> QED
    BY <1>1, <2>1
<1> HIDE DEF K, j
<1>5. Cardinality(1 .. j) = j
  <2>1. 1 \in Int /\ j \in Int
    BY <1>3
  <2>2. Cardinality(1 .. j) = IF 1 > j THEN 0 ELSE j - 1 + 1
    BY <2>1, FS_Interval
  <2> QED
    BY <1>3, <2>2
<1>6. l = SubSeq(w, 1, j)
  BY <1>2, <1>4, <1>5, Zenon
<1>7. \A i \in 1 .. j : w[i] \in R
  BY <1>1, <1>3
<1>8. w \in Seq(R \cup {NULL}) /\ j \in 0 .. Len(w)
  BY <1>1, <1>3 DEF Shows
<1>9. l \in Seq(R) /\ Len(l) = j /\ \A i \in 1 .. j : l[i] = w[i]
  BY <1>6, <1>7, <1>8, Cut, Zenon
<1> QED
  BY <1>9, Zenon DEF Fits, l, j

LEMMA EmptyListed ==
  ASSUME NEW n \in Nat
  PROVE  Listed(NULL, n) = <<>>
<1> DEFINE w == Walk(pcb, NULL)
<1>1. Closed(pcb, {}) /\ NULL \in {} \cup {NULL}
  BY DEF Closed
<1>2. /\ w \in Seq({} \cup {NULL}) /\ Path(pcb, NULL, w) /\ Len(w) \in 1 .. MAX_PROCESSES + 1
  BY <1>1, WalkFacts, Zenon
<1>3. Len(w) \in Nat \ {0} /\ w[1] = NULL /\ \A i \in 1 .. Len(w) - 1 : w[i] # NULL
  BY <1>2, ProcessAssumption DEF Path
<1> HIDE DEF w
<1>4. Len(w) = 1
  <2> DEFINE k == Len(w)
  <2>1. k \in Nat \ {0}
    BY <1>3
  <2>2. 1 \in 1 .. k - 1 => FALSE
    BY <1>3
  <2> HIDE DEF k
  <2>3. k = 1
    BY <2>1, <2>2
  <2> QED
    BY <2>3 DEF k
<1> DEFINE K == {k \in 1 .. Len(w) : k <= n /\ w[k] # NULL}
<1>5. K = {}
  BY <1>3, <1>4
<1>6. Cardinality(K) = 0
  BY <1>5, FS_EmptySet
<1>7. Listed(NULL, n) = SubSeq(w, 1, Cardinality(K))
  BY DEF Listed, w
<1> HIDE DEF K
<1> QED
  BY <1>2, <1>6, <1>7, CutNothing

LEMMA PsList ==
  ASSUME Once(pcb, g, used), Plain(pcb, g), NEW max \in Nat
  PROVE  LET l == process_get_list(max)
             live == {s \in Slots : used[s]}
         IN  /\ Len(l) = Min({max, Cardinality(live)})
             /\ \A i, j \in 1 .. Len(l) : l[i] = l[j] => i = j
             /\ \A i \in 1 .. Len(l) : l[i] \in live
<1> DEFINE w == Walk(pcb, g.ready_queue)
           R == ReadySlots(pcb)
           L == Live(used)
           run == IF g.running = NULL \/ max = 0 THEN <<>> ELSE <<g.running>>
           r == IF g.running = NULL \/ max = 0 THEN 0 ELSE 1
           ready == Listed(g.ready_queue, max - Len(run))
           blocked == Listed(g.blocked_queue, max - Len(run) - Len(ready))
           n == max - r
           j == IF n <= Len(w) - 1 THEN n ELSE Len(w) - 1
           l == process_get_list(max)
           both == run \o ready
<1>1. l = (run \o ready) \o blocked
  BY DEF process_get_list
<1>2. /\ Cardinality(L) = Cardinality(R) + (IF g.running = NULL THEN 0 ELSE 1)
      /\ Cardinality(R) \in Nat /\ R \subseteq L /\ (g.running # NULL => g.running \in L)
      /\ g.running \notin R
  BY LiveCount
<1>3. Shows(w, R) /\ Cardinality(R) = Len(w) - 1
  BY ReadyWalk, ReadyCount
<1> HIDE DEF l, w, R, L
<1>4. /\ run \in Seq(L) /\ Len(run) = r /\ r \in {0, 1} /\ n \in Nat
      /\ \A i \in 1 .. r : run[i] = g.running
  BY <1>2
<1> HIDE DEF run, r
<1>5. ready \in Seq(R) /\ Len(ready) = j /\ \A i \in 1 .. j : ready[i] = w[i]
  <2>1. ready = Listed(g.ready_queue, n)
    BY <1>4
  <2> HIDE DEF ready, n
  <2>2. w = Walk(pcb, g.ready_queue) /\ n \in Nat
    BY <1>4 DEF w
  <2> QED
    <3>1. Fits(ready, w, R, n)
      BY <1>3, <2>1, <2>2, ListedFacts
    <3> QED
      BY <3>1 DEF Fits
<1> HIDE DEF ready
<1>6. Len(w) \in Nat \ {0} /\ \A i, k \in 1 .. Len(w) : w[i] = w[k] => i = k
  BY <1>3 DEF Shows
<1>7. j \in Nat /\ j <= n /\ j <= Len(w) - 1
  BY <1>4, <1>6
<1>8. blocked = <<>>
  <2>1. g.blocked_queue = NULL
    BY Zenon DEF Once
  <2>2. max - Len(run) - Len(ready) \in Nat
    BY <1>4, <1>5, <1>7
  <2> QED
    BY <2>1, <2>2, EmptyListed
<1> HIDE DEF blocked, n
<1>9. ready \in Seq(L) /\ \A i \in 1 .. j : ready[i] \in R
  <2>1. \A i \in 1 .. j : ready[i] \in R
    BY <1>5, <1>7, ElementIn
  <2> QED
    BY <1>2, <1>5, <2>1
<1> HIDE DEF j
<1>10. /\ both \in Seq(L) /\ Len(both) = r + j
       /\ \A i \in 1 .. r + j : both[i] = IF i <= r THEN run[i] ELSE ready[i - r]
  <2>1. /\ both \in Seq(L) /\ Len(both) = Len(run) + Len(ready)
        /\ \A i \in 1 .. Len(run) + Len(ready) :
             both[i] = IF i <= Len(run) THEN run[i] ELSE ready[i - Len(run)]
    BY <1>4, <1>9, Concatenated
  <2> HIDE DEF both
  <2> QED
    BY <1>4, <1>5, <2>1, Zenon
<1> HIDE DEF both
<1>11. l = both
  <2>1. l = both \o <<>>
    BY <1>1, <1>8 DEF both
  <2> QED
    BY <1>10, <2>1, NothingBehind
<1>12. \A i \in 1 .. r + j : l[i] = IF i <= r THEN g.running ELSE w[i - r]
  <2> SUFFICES ASSUME NEW i \in 1 .. r + j PROVE l[i] = IF i <= r THEN g.running ELSE w[i - r]
    OBVIOUS
  <2>1. r \in Nat /\ j \in Nat
    BY <1>4, <1>7
  <2>2. i <= r => i \in 1 .. r
    BY <2>1
  <2>3. ~(i <= r) => i - r \in 1 .. j
    BY <2>1
  <2> QED
    BY <1>4, <1>5, <1>10, <1>11, <2>2, <2>3
<1>13. \A i \in 1 .. r + j : l[i] \in L
  <2>1. \A i \in 1 .. Len(both) : both[i] \in L
    BY <1>10, ElementIn
  <2> QED
    BY <1>10, <1>11, <2>1
<1>14. \A i, k \in 1 .. r + j : l[i] = l[k] => i = k
  <2> SUFFICES ASSUME NEW i \in 1 .. r + j, NEW k \in 1 .. r + j, l[i] = l[k] PROVE i = k
    OBVIOUS
  <2>0. r \in Nat /\ r \in {0, 1} /\ j \in Nat
    BY <1>4, <1>7
  <2>1. \A e \in 1 .. r + j : e > r => e - r \in 1 .. j /\ e - r \in 1 .. Len(w) /\ w[e - r] \in R
    <3> SUFFICES ASSUME NEW e \in 1 .. r + j, e > r
                 PROVE  e - r \in 1 .. j /\ e - r \in 1 .. Len(w) /\ w[e - r] \in R
      OBVIOUS
    <3>1. e - r \in 1 .. j
      BY <2>0
    <3>2. e - r \in 1 .. Len(w)
      BY <1>6, <1>7, <2>0, <3>1
    <3> QED
      BY <1>5, <1>9, <3>1, <3>2
  <2>2. CASE i <= r /\ k <= r
    BY <2>0, <2>2
  <2>3. CASE i > r /\ k > r
    <3>1. w[i - r] = w[k - r]
      BY <1>12, <2>0, <2>3
    <3>2. i - r = k - r
      BY <1>6, <2>1, <2>3, <3>1
    <3> QED
      BY <2>0, <3>2
  <2>4. CASE (i <= r /\ k > r) \/ (i > r /\ k <= r)
    <3>1. \A e \in 1 .. r + j : e <= r => l[e] = g.running
      BY <1>12
    <3>2. \A e \in 1 .. r + j : e > r => l[e] \in R
      <4> SUFFICES ASSUME NEW e \in 1 .. r + j, e > r PROVE l[e] \in R
        OBVIOUS
      <4>1. ~(e <= r)
        BY <2>0
      <4> QED
        BY <1>12, <2>1, <4>1
    <3> QED
      BY <1>2, <2>4, <3>1, <3>2
  <2> QED
    BY <2>0, <2>2, <2>3, <2>4
<1>15. r + j = Min({max, Cardinality(L)})
  <2> DEFINE c == Cardinality(R)
             d == Cardinality(L)
  <2>1. c \in Nat /\ d = c + (IF g.running = NULL THEN 0 ELSE 1) /\ Len(w) - 1 = c
    BY <1>2, <1>3
  <2> HIDE DEF c, d
  <2>2. {max, d} \in SUBSET Nat /\ {max, d} # {}
    BY <2>1
  <2>3. Min({max, d}) \in {max, d} /\ \A y \in {max, d} : Min({max, d}) <= y
    BY <2>2, MinOfNats
  <2>4. Min({max, d}) = IF max <= d THEN max ELSE d
    BY <2>1, <2>3
  <2>5. r + j = IF max <= d THEN max ELSE d
    <3>1. j = IF n <= c THEN n ELSE c
      BY <2>1 DEF j
    <3>2. CASE g.running = NULL
      <4>1. r = 0 /\ n = max /\ d = c
        BY <2>1, <3>2 DEF r, n
      <4> QED
        BY <2>1, <3>1, <4>1
    <3>3. CASE max = 0
      <4>1. r = 0 /\ n = 0 /\ d \in Nat
        BY <2>1, <3>3 DEF r, n
      <4> QED
        BY <2>1, <3>1, <3>3, <4>1
    <3>4. CASE g.running # NULL /\ max # 0
      <4>1. r = 1 /\ n = max - 1 /\ d = c + 1
        BY <2>1, <3>4 DEF r, n
      <4> QED
        BY <2>1, <3>1, <3>4, <4>1
    <3> QED
      BY <3>2, <3>3, <3>4
  <2> QED
    BY <2>4, <2>5 DEF d
<1> QED
  BY <1>10, <1>11, <1>13, <1>14, <1>15 DEF l, L, Live

-----------------------------------------------------------------------------
(* The table of system calls *)

(* The numbers of syscall.h are registered in increasing order. *)
LEMMA DeclaredCalls ==
  /\ Len(Declared) = 29 /\ DOMAIN Declared = 1 .. 29
  /\ \A j \in 1 .. 29 : Declared[j][1] \in 1 .. 42 /\ Declared[j][2] # NoHandler
  /\ \A i, j \in 1 .. 29 : i < j => Declared[i][1] < Declared[j][1]
<1>1. Len(Declared) = 29
  BY DEF Declared, ProcessCalls, FilesystemCalls, MemoryCalls, ManagerCalls
<1>2. DOMAIN Declared = 1 .. 29
  BY DEF Declared, ProcessCalls, FilesystemCalls, MemoryCalls, ManagerCalls
<1>3. \A j \in 1 .. 29 : Declared[j][1] \in 1 .. 42 /\ Declared[j][2] # NoHandler
  BY DEF Declared, ProcessCalls, FilesystemCalls, MemoryCalls, ManagerCalls, NoHandler
<1>4. \A i, j \in 1 .. 29 : i < j => Declared[i][1] < Declared[j][1]
  BY DEF Declared, ProcessCalls, FilesystemCalls, MemoryCalls, ManagerCalls
<1> QED
  BY <1>1, <1>2, <1>3, <1>4, Zenon

Num(j) == Declared[j][1]
Handler(j) == Declared[j][2]

LEMMA DeclaredNums ==
  /\ \A j \in 1 .. 29 : Num(j) \in 1 .. 42 /\ Num(j) \in 0 .. MAX_SYSCALLS - 1 /\ Handler(j) # NoHandler
  /\ \A i, j \in 1 .. 29 : i < j => Num(i) < Num(j)
  /\ \A i, j \in 1 .. 29 : Num(i) = Num(j) => i = j
<1>0. \A i, j \in 1 .. 29 : i < j => Num(i) < Num(j)
  BY DeclaredCalls, Zenon DEF Num
<1>1. ASSUME NEW j \in 1 .. 29
      PROVE Num(j) \in 1 .. 42 /\ Num(j) \in 0 .. MAX_SYSCALLS - 1 /\ Handler(j) # NoHandler
  <2>1. Num(j) \in 1 .. 42 /\ Handler(j) # NoHandler
    BY DeclaredCalls, Zenon DEF Num, Handler
  <2> QED
    BY <2>1, SyscallAssumption
<1>2. ASSUME NEW i \in 1 .. 29, NEW j \in 1 .. 29, Num(i) = Num(j) PROVE i = j
  <2>1. Num(i) \in Int
    BY <1>1
  <2>2. (i < j => Num(i) < Num(j)) /\ (j < i => Num(j) < Num(i))
    BY <1>0
  <2> QED
    BY <1>2, <2>1, <2>2
<1> QED
  BY <1>0, <1>1, <1>2

(* The table after k registrations, in closed form. *)
Taken(n, k) == \E j \in 1 .. k : Num(j) = n
Of(n) == CHOOSE j \in 1 .. 29 : Num(j) = n
Table(k) ==
  [n \in 0 .. MAX_SYSCALLS - 1 |-> IF Taken(n, k) THEN Handler(Of(n)) ELSE NoHandler]
After(k) == [table |-> Table(k), count |-> IF k = 0 THEN 0 ELSE Num(k) + 1]

LEMMA TableStep ==
  ASSUME NEW k \in 1 .. 29
  PROVE  After(k) = syscall_register(After(k - 1), Num(k), Handler(k))
<1> DEFINE num == Num(k)
           handler == Handler(k)
<1>0. /\ k - 1 \in 0 .. 28 /\ 1 .. k - 1 \subseteq 1 .. 29 /\ k \notin 1 .. k - 1
      /\ 1 .. k = (1 .. k - 1) \cup {k}
  OBVIOUS
<1>1. /\ num \in 1 .. 42 /\ num \in 0 .. MAX_SYSCALLS - 1 /\ handler # NoHandler
      /\ \A j \in 1 .. 29 : Num(j) = num => j = k
  BY DeclaredNums
<1>2. Table(k - 1)[num] = NoHandler
  <2>1. ~Taken(num, k - 1)
    BY <1>0, <1>1 DEF Taken
  <2> QED
    BY <1>1, <2>1 DEF Table
<1>3. Table(k) = [Table(k - 1) EXCEPT ![num] = handler]
  <2>1. \A n \in 0 .. MAX_SYSCALLS - 1 : Table(k)[n] = IF n = num THEN handler ELSE Table(k - 1)[n]
    <3> SUFFICES ASSUME NEW n \in 0 .. MAX_SYSCALLS - 1
                 PROVE  Table(k)[n] = IF n = num THEN handler ELSE Table(k - 1)[n]
      OBVIOUS
    <3>1. CASE n = num
      <4>1. Of(n) = k
        BY <1>1, <3>1 DEF Of
      <4> QED
        <5>1. Taken(n, k)
          BY <1>0, <3>1 DEF Taken
        <5>2. Table(k)[n] = Handler(Of(n))
          BY <5>1 DEF Table
        <5> QED
          BY <3>1, <4>1, <5>2
    <3>2. CASE n # num
      <4>1. Taken(n, k) <=> Taken(n, k - 1)
        BY <1>0, <3>2 DEF Taken
      <4> QED
        BY <3>2, <4>1 DEF Table
    <3> QED
      BY <3>1, <3>2
  <2>2. Table(k) = [n \in 0 .. MAX_SYSCALLS - 1 |-> Table(k)[n]]
    BY DEF Table
  <2>3. Table(k - 1) = [n \in 0 .. MAX_SYSCALLS - 1 |-> Table(k - 1)[n]]
    BY DEF Table
  <2> HIDE DEF num, handler
  <2> QED
    BY <2>1, <2>2, <2>3, Zenon
<1>4. num >= After(k - 1).count
  <2>1. CASE k = 1
    BY <1>1, <2>1 DEF After
  <2>2. CASE k # 1
    <3>1. k - 1 \in 1 .. 29 /\ k - 1 < k /\ k - 1 # 0
      BY <2>2
    <3>2. Num(k - 1) < num /\ Num(k - 1) \in 1 .. 42
      BY <3>1, DeclaredNums, Zenon
    <3> QED
      BY <1>1, <3>1, <3>2 DEF After
  <2> QED
    BY <2>1, <2>2
<1> HIDE DEF num, handler
<1>5. After(k) = [table |-> Table(k), count |-> num + 1]
  BY DEF After, num
<1>6. After(k - 1).table = Table(k - 1)
  BY DEF After
<1>7. ~(num >= MAX_SYSCALLS)
  BY <1>1, SyscallAssumption
<1> QED
  BY <1>2, <1>3, <1>4, <1>5, <1>6, <1>7 DEF syscall_register, num, handler

LEMMA TableFilled == syscall_init = After(29)
<1> DEFINE Eq(f) == f = [k \in 0 .. Len(Declared) |->
             IF k = 0 THEN [table |-> [n \in 0 .. MAX_SYSCALLS - 1 |-> NoHandler], count |-> 0]
             ELSE syscall_register(f[k - 1], Declared[k][1], Declared[k][2])]
           h == [k \in 0 .. 29 |-> After(k)]
<1>1. After(0) = [table |-> [n \in 0 .. MAX_SYSCALLS - 1 |-> NoHandler], count |-> 0]
  BY DEF After, Table, Taken
<1>2. Eq(h)
  <2> DEFINE r == [k \in 0 .. 29 |->
             IF k = 0 THEN [table |-> [n \in 0 .. MAX_SYSCALLS - 1 |-> NoHandler], count |-> 0]
             ELSE syscall_register(h[k - 1], Num(k), Handler(k))]
  <2>1. ASSUME NEW k \in 0 .. 29 PROVE h[k] = r[k]
    <3>1. CASE k = 0
      BY <1>1, <3>1
    <3>2. CASE k # 0
      <4>1. k \in 1 .. 29 /\ k - 1 \in 0 .. 29
        BY <3>2
      <4>2. h[k - 1] = After(k - 1) /\ h[k] = After(k)
        BY <4>1
      <4> HIDE DEF h
      <4> QED
        BY <3>2, <4>1, <4>2, TableStep, Zenon
    <3> QED
      BY <3>1, <3>2
  <2>2. h = r
    BY <2>1
  <2> HIDE DEF h
  <2> QED
    BY <2>2, DeclaredCalls, Zenon DEF Num, Handler
<1>3. Eq(Registered)
  <2>1. Registered = CHOOSE f : Eq(f)
    BY Zenon DEF Registered
  <2> HIDE DEF Eq, h
  <2> QED
    BY <1>2, <2>1
<1> HIDE DEF h
<1> HIDE DEF Eq
<1>4. /\ Registered[0] = After(0)
      /\ \A k \in 1 .. 29 : Registered[k] = syscall_register(Registered[k - 1], Num(k), Handler(k))
  <2> DEFINE D == 0 .. Len(Declared)
             e(k) == IF k = 0 THEN [table |-> [n \in 0 .. MAX_SYSCALLS - 1 |-> NoHandler], count |-> 0]
                     ELSE syscall_register(Registered[k - 1], Num(k), Handler(k))
  <2>1. Registered = [k \in D |-> e(k)]
    BY <1>3, Zenon DEF Eq, Num, Handler
  <2>2. D = 0 .. 29
    BY DeclaredCalls, Zenon
  <2> HIDE DEF D, e
  <2>3. \A k \in 0 .. 29 : Registered[k] = e(k)
    BY <2>1, <2>2
  <2>4. Registered[0] = After(0)
    <3>1. e(0) = After(0)
      BY <1>1 DEF e
    <3> QED
      BY <2>3, <3>1
  <2>5. \A k \in 1 .. 29 : k \in 0 .. 29 /\ k # 0
    OBVIOUS
  <2> QED
    BY <2>3, <2>4, <2>5 DEF e
<1> DEFINE K == {k \in Nat : k <= 29 => Registered[k] = After(k)}
<1>5. 0 \in K
  BY <1>4
<1>6. ASSUME NEW k \in K PROVE k + 1 \in K
  <2>1. k \in Nat
    OBVIOUS
  <2> SUFFICES ASSUME k + 1 <= 29 PROVE Registered[k + 1] = After(k + 1)
    BY <2>1
  <2>2. k + 1 \in 1 .. 29 /\ (k + 1) - 1 = k /\ Registered[k] = After(k)
    BY <2>1
  <2> QED
    BY <1>4, <2>2, TableStep
<1>7. K = Nat
  <2>1. K \in SUBSET Nat
    OBVIOUS
  <2> HIDE DEF K
  <2> QED
    BY <1>5, <1>6, <2>1, InductionOnSet
<1>8. Registered[29] = After(29)
  BY <1>7
<1> QED
  BY <1>8, DeclaredCalls, Zenon DEF syscall_init

LEMMA TableIsExact ==
  ASSUME syscall_table = syscall_init.table, syscall_count = syscall_init.count
  PROVE  TableExact
<1>1. syscall_table = Table(29) /\ syscall_count = Num(29) + 1
  BY TableFilled DEF After
<1>2. Num(29) = 42
  BY DEF Num, Declared, ProcessCalls, FilesystemCalls, MemoryCalls, ManagerCalls
<1>3. ASSUME NEW j \in 1 .. 29
      PROVE  syscall_table[Num(j)] = Handler(j)
  <2> DEFINE n == Num(j)
  <2>1. n \in 0 .. MAX_SYSCALLS - 1 /\ \A i \in 1 .. 29 : Num(i) = n => i = j
    BY DeclaredNums
  <2>2. Of(n) = j
    BY <2>1 DEF Of
  <2>3. Taken(n, 29)
    BY DEF Taken
  <2> HIDE DEF n
  <2>4. Table(29)[n] = Handler(Of(n))
    BY <2>1, <2>3 DEF Table
  <2> QED
    BY <1>1, <2>2, <2>4 DEF n
<1>4. ASSUME NEW d \in Range(Declared)
      PROVE  \E j \in 1 .. 29 : d[1] = Num(j) /\ d[2] = Handler(j)
  BY DeclaredCalls, Zenon DEF Range, Num, Handler
<1>5. ASSUME NEW j \in 1 .. 29
      PROVE  \E d \in Range(Declared) : d[1] = Num(j) /\ d[2] = Handler(j)
  BY DeclaredCalls, Zenon DEF Range, Num, Handler
<1>6. \A d \in Range(Declared) : syscall_find(d[1]) = d[2]
  <2> SUFFICES ASSUME NEW j \in 1 .. 29 PROVE syscall_find(Num(j)) = Handler(j)
    BY <1>4
  <2>0. Num(j) \in 0 .. MAX_SYSCALLS - 1
    BY DeclaredNums, Zenon
  <2>1. ~(Num(j) >= MAX_SYSCALLS)
    BY <2>0, SyscallAssumption
  <2> QED
    BY <1>3, <2>1 DEF syscall_find
<1>7. ASSUME NEW n \in 0 .. 42
      PROVE  syscall_table[n] # NoHandler <=> \E j \in 1 .. 29 : Num(j) = n
  <2>1. n \in 0 .. MAX_SYSCALLS - 1
    BY SyscallAssumption
  <2>2. CASE \E j \in 1 .. 29 : Num(j) = n
    BY <1>3, <2>2, DeclaredNums
  <2>3. CASE ~\E j \in 1 .. 29 : Num(j) = n
    BY <1>1, <2>1, <2>3 DEF Table, Taken
  <2> QED
    BY <2>2, <2>3
<1>8. \A j \in 1 .. 29 : Num(j) \in 0 .. 42
  <2> SUFFICES ASSUME NEW j \in 1 .. 29 PROVE Num(j) \in 0 .. 42
    OBVIOUS
  <2>1. Num(j) \in 1 .. 42
    BY DeclaredNums, Zenon
  <2> QED
    BY <2>1
<1>9. syscall_count - 1 = 42
  BY <1>1, <1>2
<1>10. syscall_list = {d[1] : d \in Range(Declared)}
  <2>1. syscall_list = {n \in 0 .. 42 : syscall_table[n] # NoHandler}
    BY <1>9 DEF syscall_list
  <2>2. \A n \in 0 .. 42 : syscall_table[n] # NoHandler <=> \E d \in Range(Declared) : d[1] = n
    BY <1>4, <1>5, <1>7, Zenon
  <2>3. \A d \in Range(Declared) : d[1] \in 0 .. 42
    BY <1>4, <1>8
  <2> QED
    BY <2>1, <2>2, <2>3
<1> QED
  BY <1>6, <1>10 DEF TableExact

TableInv == syscall_table = syscall_init.table /\ syscall_count = syscall_init.count

-----------------------------------------------------------------------------
(* The calls that return an error *)

(* A call that looks a pid up returns an error only if there is none.     *)
LEMMA FoundNothing ==
  ASSUME NEW pid, Found(pid) \in {SYSCALL_ERROR, SYSCALL_INVALID}
  PROVE  process_get_by_pid(Now, pid) = NULL /\ NULL # LOOPS
<1> DEFINE p == process_get_by_pid(Now, pid)
<1>1. Found(pid) = IF p = LOOPS THEN NoResult ELSE IF p = NULL THEN SYSCALL_ERROR ELSE SYSCALL_SUCCESS
  BY DEF Found
<1> HIDE DEF p
<1>2. p = NULL /\ p # LOOPS
  BY <1>1 DEF NoResult, SYSCALL_ERROR, SYSCALL_SUCCESS, SYSCALL_INVALID
<1> QED
  BY <1>2 DEF p

LEMMA ErrorsKeep ==
  ASSUME OnlyIdleRuns, g.running # NULL => pcb[0].eip = 0,
         [SyscallNext]_sysvars, eax' \in {SYSCALL_ERROR, SYSCALL_INVALID}
  PROVE  UNCHANGED <<pcb, used, g, heap>> \/ UNCHANGED sysvars
<1> DEFINE Goal == UNCHANGED <<pcb, used, g, heap>>
           Error == eax' \in {SYSCALL_ERROR, SYSCALL_INVALID}
<1>0. /\ SYSCALL_SUCCESS \notin {SYSCALL_ERROR, SYSCALL_INVALID}
      /\ NoResult \notin {SYSCALL_ERROR, SYSCALL_INVALID}
  BY DEF NoResult, SYSCALL_ERROR, SYSCALL_SUCCESS, SYSCALL_INVALID
<1>1. ASSUME UNCHANGED vars PROVE Goal
  BY <1>1 DEF vars
<1>2. ASSUME NEW h, ProcessHandler(h) PROVE Goal
  <2>1. \A code : ~sys_exit(code)
    BY <1>0 DEF sys_exit, Returns
  <2>2. CASE sys_fork
    <3>1. g.running # NULL => pcb[g.running].eip = 0
      BY DEF OnlyIdleRuns
    <3>2. UNCHANGED vars
      BY <2>2, <3>1, Zenon DEF sys_fork, JustReturns, process_create, CreateRefused
    <3> QED
      BY <1>1, <3>2
  <2>3. CASE sys_exec \/ sys_wait \/ sys_getpid \/ sys_getppid
    BY <1>1, <2>3 DEF sys_exec, sys_wait, sys_getpid, sys_getppid, JustReturns
  <2>4. ASSUME NEW pid, sys_kill(pid) PROVE Goal
    <3>1. TerminateFrom(Now, pid) /\ Found(pid) \in {SYSCALL_ERROR, SYSCALL_INVALID}
      BY <2>4 DEF sys_kill, Returns, process_terminate
    <3>2. process_get_by_pid(Now, pid) = NULL /\ NULL # LOOPS
      BY <3>1, FoundNothing
    <3>3. Becomes([Now EXCEPT !.hung = FALSE]) /\ UNCHANGED <<used, heap>>
      BY <3>1, <3>2, NullNotSlot DEF TerminateFrom
    <3> QED
      BY <3>3 DEF Becomes, Now
  <2>5. ~sys_yield
    BY <1>0 DEF sys_yield, Returns
  <2>6. ASSUME NEW ptr, NEW max, sys_ps(ptr, max) PROVE Goal
    BY <1>1, <2>6 DEF sys_ps, JustReturns
  <2>7. ASSUME NEW pid, NEW p, sys_setpriority(pid, p) PROVE Goal
    <3>1. CASE p \notin 1 .. 4
      BY <1>1, <2>7, <3>1 DEF sys_setpriority, JustReturns
    <3>2. CASE p \in 1 .. 4
      <4>1. process_set_priority(pid, p) /\ Found(pid) \in {SYSCALL_ERROR, SYSCALL_INVALID}
        BY <2>7, <3>2 DEF sys_setpriority, Returns
      <4>2. process_get_by_pid(Now, pid) = NULL
        BY <4>1, FoundNothing
      <4> QED
        BY <4>1, <4>2, NullNotSlot DEF process_set_priority
    <3> QED
      BY <3>1, <3>2
  <2>8. ASSUME NEW ptr, sys_getinfo(ptr) PROVE Goal
    BY <1>1, <2>8 DEF sys_getinfo, JustReturns
  <2> HIDE DEF Goal
  <2> QED
    BY <1>2, <2>1, <2>2, <2>3, <2>4, <2>5, <2>6, <2>7, <2>8 DEF ProcessHandler
<1>3. ASSUME NEW h, OtherHandler(h) PROVE Goal
  BY <1>1, <1>3 DEF OtherHandler, JustReturns
<1>4. ASSUME NEW num, syscall_execute(num) PROVE Goal
  BY <1>1, <1>2, <1>3, <1>4 DEF syscall_execute, JustReturns
<1>5. ~OtherCall
  BY <1>0 DEF OtherCall, Returns
<1> HIDE DEF Goal
<1>6. Goal \/ UNCHANGED sysvars
  BY <1>4, <1>5 DEF SyscallNext
<1> QED
  BY <1>6 DEF Goal

-----------------------------------------------------------------------------
(* The theorems *)

(* The invariant holds in every state of the manager under its own callers *)
THEOREM ManagerInvariant == Spec => []ProcessInv
<1>1. ProcessInv /\ [Next]_vars => ProcessInv'
  BY NextKeeps
<1> QED
  BY <1>1, InitProcess, PTL DEF Spec

(* and under the system calls and the shell.                               *)
THEOREM SyscallInvariant == SyscallSpec => []ProcessInv
<1>1. ProcessInv /\ [SyscallNext]_sysvars => ProcessInv'
  BY SyscallKeeps
<1>2. SyscallInit => ProcessInv
  BY InitProcess DEF SyscallInit
<1> QED
  BY <1>1, <1>2, PTL DEF SyscallSpec

(* For every size of the pool and every client, however damaged the        *)
(* queues: the only process that ever runs is the idle process, since the  *)
(* process that yields is pushed at the head of the queue the next one is  *)
(* taken from.  This is what the code does where RoundRobin fails.         *)
THEOREM SyscallOnlyIdleRuns == SyscallSpec => []OnlyIdleRuns
<1>1. ProcessInv => OnlyIdleRuns
  BY DEF ProcessInv, Names
<1> QED
  BY <1>1, SyscallInvariant, PTL

(* PCBs in use never share a pid, for every size of the pool and every     *)
(* client, as long as next_pid does not wrap.                              *)
THEOREM SyscallPidsUnique == SyscallSpec => []PidsUnique
<1>1. ProcessInv => PidsUnique
  BY DEF ProcessInv, Names
<1> QED
  BY <1>1, SyscallInvariant, PTL

(* Once nobody runs, nobody is dispatched ever again: this is what the     *)
(* code does after the step at which NextAfterExit fails.                  *)
THEOREM SyscallNobodyAfterExit ==
  SyscallSpec => [][g.running = NULL => g'.running = NULL]_sysvars
<1>1. ProcessInv /\ [SyscallNext]_sysvars => [g.running = NULL => g'.running = NULL]_sysvars
  BY SyscallKeeps
<1> QED
  BY <1>1, SyscallInvariant, PTL DEF SyscallSpec

(* For a client that terminates no terminated process, the queues are      *)
(* lists until a PCB is reused: next and prev are inverse to each other,   *)
(* the head of a queue has nothing before it, and no call loops along      *)
(* them; every field has its type whatever the client does.                *)
THEOREM SyscallQueuesSound == SyscallSpec => []QueuesSound
<1>1. ProcessInv => QueuesSound
  BY ProcessQueues
<1> QED
  BY <1>1, SyscallInvariant, PTL

(* For such a client, and also when PCBs are reused, process_count is the  *)
(* number of PCBs in use, and the stacks kmalloc gave out are those of the *)
(* PCBs in use, one each: none is leaked, freed twice or shared.           *)
THEOREM SyscallStacksOwned == SyscallSpec => []StacksOwned
<1>1. ProcessInv => StacksOwned
  <2> SUFFICES ASSUME ProcessInv, client = "once"
               PROVE  StacksOwned
    BY DEF StacksOwned
  <2>1. Owned(pcb, used, g.process_count, heap)
    BY DEF ProcessInv
  <2> QED
    BY <2>1 DEF Owned, Live, StacksOwned
<1> QED
  BY <1>1, SyscallInvariant, PTL

(* For such a client, until a PCB is reused, process_get_list fills its    *)
(* buffer with processes in use, each at most once, and leaves one out     *)
(* only when the buffer is too short.                                      *)
THEOREM SyscallPsExact == SyscallSpec => []PsExact
<1>1. ProcessInv => PsExact
  <2> SUFFICES ASSUME ProcessInv, client = "once", NoneReused, NEW max \in 0 .. MAX_PROCESSES
               PROVE  LET l == process_get_list(max)
                          live == {s \in Slots : used[s]}
                      IN  /\ Len(l) = Min({max, Cardinality(live)})
                          /\ \A i, j \in 1 .. Len(l) : l[i] = l[j] => i = j
                          /\ \A i \in 1 .. Len(l) : l[i] \in live
    BY Zenon DEF PsExact
  <2>1. Once(pcb, g, used) /\ Plain(pcb, g)
    BY TypedPlain, NowFields DEF ProcessInv, NoneReused, Remembered
  <2>2. max \in Nat
    BY ProcessAssumption
  <2> QED
    BY <2>1, <2>2, PsList, Zenon
<1> QED
  BY <1>1, SyscallInvariant, PTL

(* A call that returns an error changes no PCB, no queue, no mark of the    *)
(* pool and no stack, and the table syscall_init fills has every handler of *)
(* syscall.c at its number, and no other, in every state.                   *)
THEOREM SyscallErrorsChangeNothing == SyscallSpec => ErrorsChangeNothing
<1>1. SyscallInit => TableInv
  BY DEF SyscallInit, TableInv
<1>2. TableInv /\ [SyscallNext]_sysvars => TableInv'
  BY DEF TableInv, SyscallNext, syscall_execute, OtherCall, sysvars
<1>3. TableInv => TableExact
  BY TableIsExact DEF TableInv
<1>4. ProcessInv /\ [SyscallNext]_sysvars
        => [eax' \in {SYSCALL_ERROR, SYSCALL_INVALID} => UNCHANGED <<pcb, used, g, heap>>]_sysvars
  BY ErrorsKeep DEF ProcessInv, Names
<1> QED
  BY <1>1, <1>2, <1>3, <1>4, SyscallInvariant, PTL DEF SyscallSpec, ErrorsChangeNothing
=============================================================================
