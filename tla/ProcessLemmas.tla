---------------------------- MODULE ProcessLemmas ---------------------------
(***************************************************************************)
(* What the helpers of process.c write, field by field (Pushes, Unlinks,   *)
(* Dies, Made), and what their writes keep of the inductive invariant of   *)
(* the process manager: the lemmas the proofs in ProcessProofs rest on.    *)
(***************************************************************************)
EXTENDS Process, TLAPS


-----------------------------------------------------------------------------
(* Pools and managers of the right shape *)

Fields == {"pid", "state", "priority", "time_slice", "remaining_slice", "stack_base", "eip",
           "exit_code", "next", "prev"}
ManagerFields == {"running", "ready_queue", "blocked_queue", "terminated_queue", "next_pid",
                  "process_count", "scheduler_ticks"}

Pool(P) == /\ P = [s \in Slots |-> P[s]]
           /\ \A s \in Slots : P[s] = [f \in Fields |-> P[s][f]]
Manager(h) == h = [f \in ManagerFields |-> h[f]]

(* A state within a call. *)
State(m) ==
  /\ m = [pcb |-> m.pcb, g |-> m.g, hung |-> m.hung]
  /\ Pool(m.pcb) /\ Manager(m.g)

(* Writing a field of a PCB, whichever, or of the manager. *)
SetField(P, a, f, x) == [P EXCEPT ![a][f] = x]
SetNumber(h, f, x) == [h EXCEPT ![f] = x]

(* What a write to a field leaves in every field. *)
LEMMA SetFieldKeeps ==
  ASSUME NEW P, Pool(P), NEW a, NEW f \in Fields, NEW x
  PROVE  /\ Pool(SetField(P, a, f, x))
         /\ \A s \in Slots, k \in Fields :
              SetField(P, a, f, x)[s][k] = IF s = a /\ k = f THEN x ELSE P[s][k]
<1> DEFINE Q == [P EXCEPT ![a][f] = x]
<1>1. DOMAIN P = Slots /\ \A s \in Slots : DOMAIN P[s] = Fields
  BY DEF Pool
<1>2. \A s \in Slots : Q[s] = IF s = a THEN [P[s] EXCEPT ![f] = x] ELSE P[s]
  BY <1>1
<1>3. \A s \in Slots, k \in Fields : Q[s][k] = IF s = a /\ k = f THEN x ELSE P[s][k]
  BY <1>1, <1>2
<1>4. ASSUME NEW s \in Slots PROVE Q[s] = [k \in Fields |-> Q[s][k]]
  <2> DEFINE r == P[s]
  <2>1. r = [k \in Fields |-> r[k]] /\ DOMAIN r = Fields
    BY DEF Pool
  <2>2. Q[s] = IF s = a THEN [r EXCEPT ![f] = x] ELSE r
    BY <1>2
  <2> HIDE DEF Q, r
  <2>3. [r EXCEPT ![f] = x] = [k \in Fields |-> [r EXCEPT ![f] = x][k]]
    BY <2>1
  <2> QED
    BY <2>1, <2>2, <2>3
<1>5. Q = [s \in Slots |-> Q[s]]
  BY <1>1, Zenon
<1>6. Q = SetField(P, a, f, x)
  BY DEF SetField
<1> HIDE DEF Q
<1> QED
  BY <1>3, <1>4, <1>5, <1>6 DEF Pool

LEMMA SetNumberKeeps ==
  ASSUME NEW h, Manager(h), NEW f \in ManagerFields, NEW x
  PROVE  /\ Manager(SetNumber(h, f, x))
         /\ \A e \in ManagerFields : SetNumber(h, f, x)[e] = IF e = f THEN x ELSE h[e]
BY DEF Manager, SetNumber

(* The state within a call with a field of a PCB or of the manager set. *)
WithField(m, a, f, x) == [m EXCEPT !.pcb = SetField(m.pcb, a, f, x)]
WithNumber(m, f, x) == [m EXCEPT !.g = SetNumber(m.g, f, x)]

(* Nobody runs, or the idle process does. *)
IdleRuns(m) == m.g.running # NULL => m.g.running = 0 /\ m.pcb[0].state = "RUNNING"

(* next and prev agree. *)
Linked(P) == \A s, t \in Slots : P[s].next = t <=> P[t].prev = s

-----------------------------------------------------------------------------
(* What the list operations write *)

(* Q is P in all fields but those of F. *)
SameBut(P, Q, F) == \A s \in Slots, f \in Fields \ F : Q[s][f] = P[s][f]
LinkFields == {"next", "prev"}
QueueNames == {"ready_queue", "blocked_queue", "terminated_queue"}

(* k is m with p pushed at the head of queue q. *)
Pushes(m, k, q, p) ==
  /\ State(k) /\ k.hung = m.hung /\ SameBut(m.pcb, k.pcb, LinkFields)
  /\ \A s \in Slots :
       /\ k.pcb[s].next = IF s = p THEN m.g[q] ELSE m.pcb[s].next
       /\ k.pcb[s].prev = IF s = p THEN NULL ELSE IF s = m.g[q] THEN p ELSE m.pcb[s].prev
  /\ \A f \in ManagerFields : k.g[f] = IF f = q THEN p ELSE m.g[f]

(* k is m with p unlinked, and the head of q moved if p has no prev. *)
Unlinks(m, k, q, p) ==
  /\ State(k) /\ k.hung = m.hung /\ SameBut(m.pcb, k.pcb, LinkFields)
  /\ \A s \in Slots :
       /\ k.pcb[s].next = IF s = p THEN NULL
                          ELSE IF s = m.pcb[p].prev THEN m.pcb[p].next ELSE m.pcb[s].next
       /\ k.pcb[s].prev = IF s = p THEN NULL
                          ELSE IF s = m.pcb[p].next THEN m.pcb[p].prev ELSE m.pcb[s].prev
  /\ \A f \in ManagerFields :
       k.g[f] = IF f = q /\ m.pcb[p].prev = NULL THEN m.pcb[p].next ELSE m.g[f]

(* A pool with one link set, read field by field. *)
LEMMA LinkSet ==
  ASSUME NEW P, Pool(P), NEW a, NEW x
  PROVE  /\ Pool(SetNext(P, a, x)) /\ SameBut(P, SetNext(P, a, x), {"next"})
         /\ \A s \in Slots : SetNext(P, a, x)[s].next = IF s = a THEN x ELSE P[s].next
         /\ Pool(SetPrev(P, a, x)) /\ SameBut(P, SetPrev(P, a, x), {"prev"})
         /\ \A s \in Slots : SetPrev(P, a, x)[s].prev = IF s = a THEN x ELSE P[s].prev
<1>1. /\ SetNext(P, a, x) = SetField(P, a, "next", x)
      /\ SetPrev(P, a, x) = SetField(P, a, "prev", x)
  BY Zenon DEF SetNext, SetPrev, SetField
<1>2. "next" \in Fields /\ "prev" \in Fields
  BY DEF Fields
<1> QED
  BY <1>1, <1>2, SetFieldKeeps DEF SameBut

LEMMA NullNotSlot == NULL \notin Slots /\ LOOPS \notin Slots /\ LOOPS # NULL /\ 0 \in Slots
BY ProcessAssumption DEF NULL, LOOPS, Slots

LEMMA FieldNames ==
  /\ LinkFields \subseteq Fields /\ QueueNames \subseteq ManagerFields
  /\ "next" \in LinkFields /\ "prev" \in LinkFields /\ "next" # "prev"
BY DEF LinkFields, QueueNames, Fields, ManagerFields

(* add_to_queue. *)
LEMMA AddEffect ==
  ASSUME NEW m, State(m), NEW p \in Slots, NEW q \in QueueNames
  PROVE  Pushes(m, add_to_queue(m, q, p), q, p)
<1> DEFINE head == m.g[q]
           linked == SetNext(m.pcb, p, head)
           back == IF head = NULL THEN linked ELSE SetPrev(linked, head, p)
           last == SetPrev(back, p, NULL)
           h == SetNumber(m.g, q, p)
           n == add_to_queue(m, q, p)
<1>1. n = [pcb |-> last, g |-> h, hung |-> m.hung]
  <2>1. n = [m EXCEPT !.pcb = last, !.g[q] = p]
    BY DEF add_to_queue
  <2> HIDE DEF last
  <2> QED
    BY <2>1, Zenon DEF State, SetNumber
<1>2. q \in ManagerFields /\ Pool(m.pcb) /\ Manager(m.g)
  BY FieldNames DEF State
<1>3. Manager(h) /\ \A f \in ManagerFields : h[f] = IF f = q THEN p ELSE m.g[f]
  BY <1>2, SetNumberKeeps
<1>4. /\ Pool(linked) /\ SameBut(m.pcb, linked, {"next"})
      /\ \A s \in Slots : linked[s].next = IF s = p THEN head ELSE m.pcb[s].next
  BY <1>2, LinkSet
<1> HIDE DEF linked, h, n
<1>5. /\ Pool(back) /\ SameBut(linked, back, {"prev"})
      /\ \A s \in Slots : back[s].prev = IF s = head THEN p ELSE linked[s].prev
  <2>1. CASE head = NULL
    BY <1>4, <2>1, NullNotSlot DEF SameBut
  <2>2. CASE head # NULL
    <3> HIDE DEF head
    <3> QED
      BY <1>4, <2>2, LinkSet
  <2> QED
    BY <2>1, <2>2
<1> HIDE DEF back, head
<1>6. /\ Pool(last) /\ SameBut(back, last, {"prev"})
      /\ \A s \in Slots : last[s].prev = IF s = p THEN NULL ELSE back[s].prev
  BY <1>5, LinkSet
<1> HIDE DEF last
<1>7. /\ SameBut(m.pcb, last, LinkFields)
      /\ \A s \in Slots :
           /\ last[s].next = IF s = p THEN head ELSE m.pcb[s].next
           /\ last[s].prev = IF s = p THEN NULL ELSE IF s = head THEN p ELSE m.pcb[s].prev
  BY <1>4, <1>5, <1>6 DEF SameBut, LinkFields, Fields
<1>8. State(n) /\ n.pcb = last /\ n.g = h /\ n.hung = m.hung
  BY <1>1, <1>3, <1>6 DEF State
<1> QED
  BY <1>3, <1>7, <1>8 DEF Pushes, head, n

(* remove_from_queue. *)
LEMMA RemoveEffect ==
  ASSUME NEW m, State(m), NEW p \in Slots, NEW q \in QueueNames
  PROVE  Unlinks(m, remove_from_queue(m, q, p), q, p)
<1> DEFINE n == m.pcb[p].next
           v == m.pcb[p].prev
           fwd == IF v = NULL THEN m.pcb ELSE SetNext(m.pcb, v, n)
           back == IF n = NULL THEN fwd ELSE SetPrev(fwd, n, v)
           cut == SetNext(back, p, NULL)
           last == SetPrev(cut, p, NULL)
           h == SetNumber(m.g, q, IF v = NULL THEN n ELSE m.g[q])
           r == remove_from_queue(m, q, p)
<1>1. r = [pcb |-> last, g |-> h, hung |-> m.hung]
  <2>1. r = [m EXCEPT !.pcb = last, !.g[q] = IF v = NULL THEN n ELSE @]
    BY DEF remove_from_queue
  <2> HIDE DEF last, n, v
  <2> QED
    BY <2>1, Zenon DEF State, SetNumber
<1>2. q \in ManagerFields /\ Pool(m.pcb) /\ Manager(m.g)
  BY FieldNames DEF State
<1> HIDE DEF n, v
<1>3. Manager(h) /\ \A f \in ManagerFields : h[f] = IF f = q /\ v = NULL THEN n ELSE m.g[f]
  BY <1>2, SetNumberKeeps
<1> HIDE DEF h, r
<1>4. /\ Pool(fwd) /\ SameBut(m.pcb, fwd, {"next"})
      /\ \A s \in Slots : fwd[s].next = IF s = v THEN n ELSE m.pcb[s].next
  <2>1. CASE v = NULL
    BY <1>2, <2>1, NullNotSlot DEF SameBut
  <2>2. CASE v # NULL
    BY <1>2, <2>2, LinkSet
  <2> QED
    BY <2>1, <2>2
<1> HIDE DEF fwd
<1>5. /\ Pool(back) /\ SameBut(fwd, back, {"prev"})
      /\ \A s \in Slots : back[s].prev = IF s = n THEN v ELSE fwd[s].prev
  <2>1. CASE n = NULL
    BY <1>4, <2>1, NullNotSlot DEF SameBut
  <2>2. CASE n # NULL
    BY <1>4, <2>2, LinkSet
  <2> QED
    BY <2>1, <2>2
<1> HIDE DEF back
<1>6. /\ Pool(cut) /\ SameBut(back, cut, {"next"})
      /\ \A s \in Slots : cut[s].next = IF s = p THEN NULL ELSE back[s].next
  BY <1>5, LinkSet
<1> HIDE DEF cut
<1>7. /\ Pool(last) /\ SameBut(cut, last, {"prev"})
      /\ \A s \in Slots : last[s].prev = IF s = p THEN NULL ELSE cut[s].prev
  BY <1>6, LinkSet
<1> HIDE DEF last
<1>8. /\ SameBut(m.pcb, last, LinkFields)
      /\ \A s \in Slots :
           /\ last[s].next = IF s = p THEN NULL ELSE IF s = v THEN n ELSE m.pcb[s].next
           /\ last[s].prev = IF s = p THEN NULL ELSE IF s = n THEN v ELSE m.pcb[s].prev
  BY <1>4, <1>5, <1>6, <1>7 DEF SameBut, LinkFields, Fields
<1>9. State(r) /\ r.pcb = last /\ r.g = h /\ r.hung = m.hung
  BY <1>1, <1>3, <1>7 DEF State
<1> QED
  BY <1>3, <1>8, <1>9 DEF Unlinks, n, v, r

-----------------------------------------------------------------------------
(* Types, whatever callers do *)

FieldType(f) ==
  CASE f = "state" -> {"NEW", "READY", "RUNNING", "BLOCKED", "TERMINATED"}
    [] f = "stack_base" -> Stacks \cup {NoStack}
    [] f = "eip" -> {0, 1}
    [] f = "exit_code" -> ExitCodes
    [] f \in LinkFields -> Slots \cup {NULL}
    [] OTHER -> Nat
ManagerType(f) ==
  CASE f = "next_pid" -> Nat
    [] f = "process_count" -> 0 .. COUNT_MOD - 1
    [] f = "scheduler_ticks" -> 0 .. TICK_MOD - 1
    [] OTHER -> Slots \cup {NULL}

(* A state within a call, with its types. *)
Typed(m) ==
  /\ State(m) /\ m.hung \in BOOLEAN
  /\ \A s \in Slots, f \in Fields : m.pcb[s][f] \in FieldType(f)
  /\ \A f \in ManagerFields : m.g[f] \in ManagerType(f)

LEMMA TypeNames ==
  /\ FieldType("next") = Slots \cup {NULL} /\ FieldType("prev") = Slots \cup {NULL}
  /\ \A q \in QueueNames : ManagerType(q) = Slots \cup {NULL}
  /\ ManagerType("running") = Slots \cup {NULL}
BY DEF FieldType, ManagerType, LinkFields, QueueNames

LEMMA PushTyped ==
  ASSUME NEW m, Typed(m), NEW k, NEW p \in Slots, NEW q \in QueueNames, Pushes(m, k, q, p)
  PROVE  Typed(k)
<1>1. \A s \in Slots : /\ m.pcb[s].next \in Slots \cup {NULL}
                       /\ m.pcb[s].prev \in Slots \cup {NULL}
  BY TypeNames, FieldNames DEF Typed
<1>2. m.g[q] \in Slots \cup {NULL}
  BY TypeNames, FieldNames DEF Typed
<1>3. \A s \in Slots : /\ k.pcb[s].next \in Slots \cup {NULL}
                       /\ k.pcb[s].prev \in Slots \cup {NULL}
  BY <1>1, <1>2 DEF Pushes
<1>4. ASSUME NEW s \in Slots, NEW f \in Fields PROVE k.pcb[s][f] \in FieldType(f)
  <2>1. CASE f \in LinkFields
    BY <1>3, <2>1, TypeNames DEF LinkFields
  <2>2. CASE f \notin LinkFields
    BY <2>2 DEF Pushes, SameBut, Typed
  <2> QED
    BY <2>1, <2>2
<1>5. \A f \in ManagerFields : k.g[f] \in ManagerType(f)
  BY TypeNames DEF Pushes, Typed
<1> QED
  BY <1>4, <1>5 DEF Pushes, Typed

LEMMA UnlinkTyped ==
  ASSUME NEW m, Typed(m), NEW k, NEW p \in Slots, NEW q \in QueueNames, Unlinks(m, k, q, p)
  PROVE  Typed(k)
<1>1. \A s \in Slots : /\ m.pcb[s].next \in Slots \cup {NULL}
                       /\ m.pcb[s].prev \in Slots \cup {NULL}
  BY TypeNames, FieldNames DEF Typed
<1>3. \A s \in Slots : /\ k.pcb[s].next \in Slots \cup {NULL}
                       /\ k.pcb[s].prev \in Slots \cup {NULL}
  BY <1>1 DEF Unlinks
<1>4. ASSUME NEW s \in Slots, NEW f \in Fields PROVE k.pcb[s][f] \in FieldType(f)
  <2>1. CASE f \in LinkFields
    BY <1>3, <2>1, TypeNames DEF LinkFields
  <2>2. CASE f \notin LinkFields
    BY <2>2 DEF Unlinks, SameBut, Typed
  <2> QED
    BY <2>1, <2>2
<1>5. \A f \in ManagerFields : k.g[f] \in ManagerType(f)
  BY <1>1, TypeNames DEF Unlinks, Typed
<1> QED
  BY <1>4, <1>5 DEF Unlinks, Typed

LEMMA FieldTyped ==
  ASSUME NEW m, Typed(m), NEW a, NEW f \in Fields, NEW x \in FieldType(f)
  PROVE  LET k == WithField(m, a, f, x)
         IN  /\ Typed(k) /\ k.g = m.g /\ k.hung = m.hung
             /\ \A s \in Slots, e \in Fields :
                  k.pcb[s][e] = IF s = a /\ e = f THEN x ELSE m.pcb[s][e]
<1> DEFINE k == WithField(m, a, f, x)
           Q == SetField(m.pcb, a, f, x)
<1>1. k = [pcb |-> Q, g |-> m.g, hung |-> m.hung]
  BY DEF Typed, State, WithField
<1>2. Pool(Q) /\ \A s \in Slots, e \in Fields : Q[s][e] = IF s = a /\ e = f THEN x ELSE m.pcb[s][e]
  BY SetFieldKeeps DEF Typed, State
<1> HIDE DEF k, Q
<1> QED
  BY <1>1, <1>2 DEF Typed, State, k

LEMMA NumberTyped ==
  ASSUME NEW m, Typed(m), NEW f \in ManagerFields, NEW x \in ManagerType(f)
  PROVE  LET k == WithNumber(m, f, x)
         IN  /\ Typed(k) /\ k.pcb = m.pcb /\ k.hung = m.hung
             /\ \A e \in ManagerFields : k.g[e] = IF e = f THEN x ELSE m.g[e]
<1> DEFINE k == WithNumber(m, f, x)
           h == SetNumber(m.g, f, x)
<1>1. k = [pcb |-> m.pcb, g |-> h, hung |-> m.hung]
  BY DEF Typed, State, WithNumber
<1>2. Manager(h) /\ \A e \in ManagerFields : h[e] = IF e = f THEN x ELSE m.g[e]
  BY SetNumberKeeps DEF Typed, State
<1> HIDE DEF k, h
<1> QED
  BY <1>1, <1>2 DEF Typed, State, k

-----------------------------------------------------------------------------
(* What each call writes *)

LEMMA NowFields == Now.pcb = pcb /\ Now.g = g /\ Now.hung = hung
BY DEF Now

LEMMA NowBecomes ==
  ASSUME NEW m, Typed(m), Becomes(m)
  PROVE  Now' = m /\ UNCHANGED client
<1>1. m = [pcb |-> m.pcb, g |-> m.g, hung |-> m.hung]
  BY DEF Typed, State
<1>2. pcb' = m.pcb /\ g' = m.g /\ hung' = m.hung /\ client' = client
  BY DEF Becomes
<1> QED
  BY <1>1, <1>2 DEF Now

LEMMA NumberNames ==
  /\ "running" \in ManagerFields /\ "next_pid" \in ManagerFields
  /\ "process_count" \in ManagerFields /\ "ready_queue" \in ManagerFields
  /\ "blocked_queue" \in ManagerFields /\ "terminated_queue" \in ManagerFields
  /\ "ready_queue" \in QueueNames /\ "blocked_queue" \in QueueNames
  /\ "terminated_queue" \in QueueNames
  /\ "state" \in Fields /\ "next" \in Fields /\ "prev" \in Fields
BY DEF ManagerFields, QueueNames, Fields

(* process_switch. *)
LEMMA SwitchEffect ==
  ASSUME NEW m, Typed(m), NEW p \in Slots
  PROVE  LET k == process_switch(m, p)
         IN  /\ Typed(k) /\ k.hung = m.hung
             /\ SameBut(m.pcb, k.pcb, {"state", "remaining_slice"})
             /\ \A s \in Slots : k.pcb[s].state = IF s = p THEN "RUNNING" ELSE m.pcb[s].state
             /\ \A f \in ManagerFields : k.g[f] = IF f = "running" THEN p ELSE m.g[f]
<1> DEFINE x == m.pcb[p].time_slice
           chosen == WithNumber(m, "running", p)
           runs == WithField(chosen, p, "state", "RUNNING")
           k == WithField(runs, p, "remaining_slice", x)
<1>1. process_switch(m, p) = k
  <2>1. process_switch(m, p) =
          [[[m EXCEPT !.g.running = p] EXCEPT !.pcb[p].state = "RUNNING"]
             EXCEPT !.pcb[p].remaining_slice = x]
    BY DEF process_switch
  <2>2. chosen = [m EXCEPT !.g.running = p]
    BY DEF WithNumber, SetNumber
  <2> HIDE DEF chosen
  <2>3. runs = [chosen EXCEPT !.pcb[p].state = "RUNNING"]
    BY DEF WithField, SetField
  <2> HIDE DEF runs, x
  <2>4. k = [runs EXCEPT !.pcb[p].remaining_slice = x]
    BY DEF WithField, SetField
  <2> QED
    BY <2>1, <2>2, <2>3, <2>4
<1>2. /\ "state" \in Fields /\ "remaining_slice" \in Fields /\ "time_slice" \in Fields
      /\ "running" \in ManagerFields
      /\ FieldType("remaining_slice") = Nat /\ FieldType("time_slice") = Nat
      /\ "RUNNING" \in FieldType("state") /\ ManagerType("running") = Slots \cup {NULL}
  BY DEF Fields, ManagerFields, FieldType, ManagerType, LinkFields
<1>3. x \in FieldType("remaining_slice")
  BY <1>2 DEF Typed
<1> HIDE DEF x
<1>4. /\ Typed(chosen) /\ chosen.pcb = m.pcb /\ chosen.hung = m.hung
      /\ \A f \in ManagerFields : chosen.g[f] = IF f = "running" THEN p ELSE m.g[f]
  BY <1>2, NumberTyped
<1> HIDE DEF chosen
<1>5. /\ Typed(runs) /\ runs.g = chosen.g /\ runs.hung = m.hung
      /\ \A s \in Slots, e \in Fields :
           runs.pcb[s][e] = IF s = p /\ e = "state" THEN "RUNNING" ELSE m.pcb[s][e]
  BY <1>2, <1>4, FieldTyped
<1> HIDE DEF runs
<1>6. /\ Typed(k) /\ k.g = runs.g /\ k.hung = m.hung
      /\ \A s \in Slots, e \in Fields :
           k.pcb[s][e] = IF s = p /\ e = "remaining_slice" THEN x ELSE runs.pcb[s][e]
  BY <1>2, <1>3, <1>5, FieldTyped
<1> HIDE DEF k
<1>7. SameBut(m.pcb, k.pcb, {"state", "remaining_slice"})
  BY <1>5, <1>6 DEF SameBut
<1>8. \A s \in Slots : k.pcb[s].state = IF s = p THEN "RUNNING" ELSE m.pcb[s].state
  BY <1>2, <1>5, <1>6
<1> QED
  BY <1>1, <1>4, <1>5, <1>6, <1>7, <1>8

(* The running process is in no queue and the head of the ready queue has  *)
(* no prev.                                                                *)
Tidy(m) ==
  /\ m.g.running # NULL => /\ m.pcb[m.g.running].next = NULL /\ m.pcb[m.g.running].prev = NULL
                           /\ m.g.ready_queue # m.g.running
  /\ m.g.ready_queue # NULL => m.pcb[m.g.ready_queue].prev = NULL

(* The scheduler queues the idle process and takes it again: where the     *)
(* ready queue is in order that changes no link, and elsewhere it clears   *)
(* some.                                                                   *)
LEMMA SchedulerEffect ==
  ASSUME NEW m, Typed(m), IdleRuns(m)
  PROVE  LET k == scheduler(m)
         IN  /\ Typed(k) /\ k.hung = m.hung
             /\ SameBut(m.pcb, k.pcb, {"next", "prev", "remaining_slice"})
             /\ \A f \in ManagerFields \ {"scheduler_ticks"} : k.g[f] = m.g[f]
             /\ \A s \in Slots : k.pcb[s].next \in {m.pcb[s].next, NULL}
             /\ Tidy(m) => SameBut(m.pcb, k.pcb, {"remaining_slice"})
<1> DEFINE x == (m.g.scheduler_ticks + 1) % TICK_MOD
           t == [m EXCEPT !.g.scheduler_ticks = (@ + 1) % TICK_MOD]
           r == t.g.running
           k == scheduler(m)
<1>0. /\ "scheduler_ticks" \in ManagerFields /\ "running" \in ManagerFields
      /\ "ready_queue" \in ManagerFields /\ "next_pid" \in ManagerFields
      /\ "state" \in Fields /\ "READY" \in FieldType("state") /\ "ready_queue" \in QueueNames
      /\ "next" \in Fields /\ "prev" \in Fields
  <2>1. "READY" \in FieldType("state")
    BY DEF FieldType, LinkFields
  <2> QED
    BY <2>1 DEF Fields, ManagerFields, QueueNames
<1>1. t = WithNumber(m, "scheduler_ticks", x)
  BY DEF WithNumber, SetNumber
<1>2. x \in ManagerType("scheduler_ticks")
  <2>1. ManagerType("scheduler_ticks") = 0 .. TICK_MOD - 1
    BY DEF ManagerType
  <2>2. m.g.scheduler_ticks \in 0 .. TICK_MOD - 1
    BY <1>0, <2>1, Zenon DEF Typed
  <2> QED
    BY <2>1, <2>2, ProcessAssumption
<1> HIDE DEF x
<1>3. /\ Typed(t) /\ t.pcb = m.pcb /\ t.hung = m.hung
      /\ \A e \in ManagerFields : t.g[e] = IF e = "scheduler_ticks" THEN x ELSE m.g[e]
  <2> HIDE DEF t
  <2> QED
    BY <1>0, <1>1, <1>2, NumberTyped
<1>4. CASE r = NULL \/ t.pcb[r].remaining_slice > 0
  <2>1. k = t
    BY <1>4 DEF scheduler
  <2> HIDE DEF k, t
  <2> QED
    BY <1>0, <1>3, <2>1 DEF SameBut, IdleRuns, k
<1>5. CASE ~(r = NULL \/ t.pcb[r].remaining_slice > 0)
  <2> DEFINE ready == WithField(t, r, "state", "READY")
             queued == add_to_queue(ready, "ready_queue", r)
             taken == remove_from_queue(queued, "ready_queue", r)
  <2>1. k = schedule_next_process(
              IF t.pcb[r].state # "RUNNING" THEN t ELSE queued)
    BY <1>5, Zenon DEF scheduler, WithField, SetField
  <2> HIDE DEF k, t
  <2>2. r = 0 /\ r # NULL /\ t.pcb[r].state = "RUNNING" /\ r \in Slots /\ r = m.g.running
    BY <1>0, <1>3, <1>5, NullNotSlot DEF IdleRuns
  <2>3. /\ Typed(ready) /\ ready.g = t.g /\ ready.hung = m.hung
        /\ \A s \in Slots, e \in Fields :
             ready.pcb[s][e] = IF s = r /\ e = "state" THEN "READY" ELSE m.pcb[s][e]
    BY <1>0, <1>3, FieldTyped
  <2> HIDE DEF ready
  <2>4. Pushes(ready, queued, "ready_queue", r)
    BY <1>0, <2>2, <2>3, AddEffect DEF Typed
  <2> HIDE DEF queued
  <2>5. Typed(queued)
    BY <1>0, <2>2, <2>3, <2>4, PushTyped
  <2>6. Unlinks(queued, taken, "ready_queue", r)
    BY <1>0, <2>2, <2>5, RemoveEffect DEF Typed
  <2> HIDE DEF taken
  <2>7. Typed(taken)
    BY <1>0, <2>2, <2>5, <2>6, UnlinkTyped
  <2>8. k = process_switch(taken, r)
    <3>1. queued.g.ready_queue = r
      BY <1>0, <2>4 DEF Pushes
    <3>2. k = schedule_next_process(queued)
      BY <2>1, <2>2
    <3> QED
      BY <2>2, <3>1, <3>2 DEF schedule_next_process, taken
  <2>9. /\ Typed(k) /\ k.hung = taken.hung
        /\ SameBut(taken.pcb, k.pcb, {"state", "remaining_slice"})
        /\ \A s \in Slots : k.pcb[s].state = IF s = r THEN "RUNNING" ELSE taken.pcb[s].state
        /\ \A f \in ManagerFields : k.g[f] = IF f = "running" THEN r ELSE taken.g[f]
    BY <2>2, <2>7, <2>8, SwitchEffect
  <2>10. k.hung = m.hung
    BY <2>3, <2>4, <2>6, <2>9 DEF Pushes, Unlinks
  <2> DEFINE head == m.g.ready_queue
  <2>11. ready.g.ready_queue = head
    BY <1>0, <1>3, <2>3
  <2> HIDE DEF head
  <2>12. \A s \in Slots : ready.pcb[s].next = m.pcb[s].next /\ ready.pcb[s].prev = m.pcb[s].prev
    BY <1>0, <2>3
  <2>13. /\ queued.pcb[r].next = head /\ queued.pcb[r].prev = NULL
         /\ \A s \in Slots : s # r =>
              /\ queued.pcb[s].next = m.pcb[s].next
              /\ queued.pcb[s].prev = IF s = head THEN r ELSE m.pcb[s].prev
    BY <2>2, <2>4, <2>11, <2>12 DEF Pushes
  <2>14. \A s \in Slots :
           /\ taken.pcb[s].next = IF s = r THEN NULL ELSE m.pcb[s].next
           /\ taken.pcb[s].prev = IF s = r \/ s = head THEN NULL ELSE m.pcb[s].prev
    <3> SUFFICES ASSUME NEW s \in Slots
                 PROVE  /\ taken.pcb[s].next = IF s = r THEN NULL ELSE m.pcb[s].next
                        /\ taken.pcb[s].prev = IF s = r \/ s = head THEN NULL ELSE m.pcb[s].prev
      OBVIOUS
    <3>1. /\ taken.pcb[s].next = IF s = r THEN NULL ELSE IF s = NULL THEN head ELSE queued.pcb[s].next
          /\ taken.pcb[s].prev = IF s = r THEN NULL ELSE IF s = head THEN NULL ELSE queued.pcb[s].prev
      BY <2>6, <2>13 DEF Unlinks
    <3> QED
      BY <2>13, <3>1, NullNotSlot
  <2>15. \A s \in Slots : k.pcb[s].next = taken.pcb[s].next /\ k.pcb[s].prev = taken.pcb[s].prev
    BY <1>0, <2>9 DEF SameBut
  <2>16. \A s \in Slots : k.pcb[s].state = m.pcb[s].state
    BY <1>0, <1>3, <2>2, <2>3, <2>4, <2>6, <2>9 DEF Pushes, Unlinks, SameBut, LinkFields
  <2>17. SameBut(m.pcb, k.pcb, {"next", "prev", "remaining_slice"})
    <3>1. SameBut(m.pcb, k.pcb, {"next", "prev", "state", "remaining_slice"})
      BY <2>3, <2>4, <2>6, <2>9 DEF Pushes, Unlinks, SameBut, LinkFields
    <3> QED
      BY <2>16, <3>1 DEF SameBut
  <2>18. \A f \in ManagerFields \ {"scheduler_ticks"} : k.g[f] = m.g[f]
    <3>1. \A f \in ManagerFields : taken.g[f] = t.g[f]
      BY <2>3, <2>4, <2>6, <2>11, <2>13 DEF Pushes, Unlinks
    <3> QED
      BY <1>3, <2>2, <2>9, <3>1
  <2>19. ASSUME Tidy(m) PROVE SameBut(m.pcb, k.pcb, {"remaining_slice"})
    <3>1. /\ m.pcb[r].next = NULL /\ m.pcb[r].prev = NULL
          /\ head # NULL => m.pcb[head].prev = NULL
      BY <2>2, <2>19 DEF Tidy, head
    <3>2. \A s \in Slots : k.pcb[s].next = m.pcb[s].next /\ k.pcb[s].prev = m.pcb[s].prev
      BY <2>14, <2>15, <3>1, NullNotSlot
    <3> QED
      BY <2>17, <3>2 DEF SameBut
  <2>20. \A s \in Slots : k.pcb[s].next \in {m.pcb[s].next, NULL}
    BY <2>14, <2>15
  <2> QED
    BY <2>9, <2>10, <2>17, <2>18, <2>19, <2>20 DEF k
<1> QED
  BY <1>4, <1>5

(* k is m with p taken out, marked and pushed on the terminated queue. *)
Dies(m, k, p) ==
  LET runs == p = m.g.running
      n == m.pcb[p].next
      v == m.pcb[p].prev
      dead == m.g.terminated_queue
  IN  /\ SameBut(m.pcb, k.pcb, {"state", "next", "prev", "exit_code"}) /\ k.hung = m.hung
      /\ \A s \in Slots :
           /\ k.pcb[s].state = IF s = p THEN "TERMINATED" ELSE m.pcb[s].state
           /\ k.pcb[s].next = IF s = p THEN dead
                              ELSE IF ~runs /\ s = v THEN n ELSE m.pcb[s].next
           /\ k.pcb[s].prev = IF s = p THEN NULL ELSE IF s = dead THEN p
                              ELSE IF ~runs /\ s = n THEN v ELSE m.pcb[s].prev
      /\ k.g.running = IF runs THEN NULL ELSE m.g.running
      /\ k.g.ready_queue = IF ~runs /\ v = NULL THEN n ELSE m.g.ready_queue
      /\ k.g.blocked_queue = IF runs THEN m.g.blocked_queue ELSE NULL
      /\ k.g.terminated_queue = p
      /\ k.g.next_pid = m.g.next_pid
      /\ k.g.process_count = (m.g.process_count - 1) % COUNT_MOD

(* The state process_terminate reaches from m once it has found p. *)
Unlinked(m, p) ==
  IF p = m.g.running THEN [m EXCEPT !.g.running = NULL]
  ELSE remove_from_queue(remove_from_queue(m, "ready_queue", p), "blocked_queue", p)
Dead(m, p) ==
  add_to_queue(WithField(Unlinked(m, p), p, "state", "TERMINATED"), "terminated_queue", p)
Counted(m, p) == [Dead(m, p) EXCEPT !.g.process_count = (@ - 1) % COUNT_MOD]

LEMMA TerminateStep ==
  ASSUME NEW m, NEW pid, TerminateFrom(m, pid), process_get_by_pid(m, pid) \in Slots
  PROVE  LET p == process_get_by_pid(m, pid)
             c == Counted(m, p)
         IN  /\ Becomes(IF p = c.g.running THEN schedule_next_process(c) ELSE c)
             /\ used' = [used EXCEPT ![p] = FALSE]
             /\ heap' = heap \ {m.pcb[p].stack_base}
BY Zenon DEF TerminateFrom, WithField, SetField, Unlinked, Dead, Counted

(* process_terminate: the branch that schedules is never taken, since the  *)
(* process that runs is cleared first.                                      *)
LEMMA TerminateEffect ==
  ASSUME NEW m, Typed(m), NEW pid, TerminateFrom(m, pid),
         NEW p \in Slots, p = process_get_by_pid(m, pid)
  PROVE  /\ Typed(Now') /\ Dies(m, Now', p) /\ UNCHANGED client
         /\ used' = [used EXCEPT ![p] = FALSE]
         /\ heap' = heap \ {m.pcb[p].stack_base}
<1> DEFINE unlinked == Unlinked(m, p)
           marked == WithField(unlinked, p, "state", "TERMINATED")
           dead == Dead(m, p)
           x == (dead.g.process_count - 1) % COUNT_MOD
           counted == Counted(m, p)
<1>1. /\ Becomes(IF p = counted.g.running THEN schedule_next_process(counted) ELSE counted)
      /\ used' = [used EXCEPT ![p] = FALSE]
      /\ heap' = heap \ {m.pcb[p].stack_base}
  BY TerminateStep, NullNotSlot
<1>2. counted = WithNumber(dead, "process_count", x)
  BY DEF WithNumber, SetNumber, Counted
<1> DEFINE n == m.pcb[p].next
           v == m.pcb[p].prev
           runs == p = m.g.running
<1>3. /\ Typed(unlinked) /\ unlinked.hung = m.hung
      /\ SameBut(m.pcb, unlinked.pcb, LinkFields)
      /\ \A s \in Slots : s # p =>
           /\ unlinked.pcb[s].next = IF ~runs /\ s = v THEN n ELSE m.pcb[s].next
           /\ unlinked.pcb[s].prev = IF ~runs /\ s = n THEN v ELSE m.pcb[s].prev
      /\ unlinked.g.running = IF runs THEN NULL ELSE m.g.running
      /\ unlinked.g.ready_queue = IF ~runs /\ v = NULL THEN n ELSE m.g.ready_queue
      /\ unlinked.g.blocked_queue = IF runs THEN m.g.blocked_queue ELSE NULL
      /\ unlinked.g.terminated_queue = m.g.terminated_queue
      /\ unlinked.g.next_pid = m.g.next_pid /\ unlinked.g.process_count = m.g.process_count
  <2>1. CASE p = m.g.running
    <3> DEFINE k == WithNumber(m, "running", NULL)
    <3>1. unlinked = k
      BY <2>1 DEF WithNumber, SetNumber, Unlinked
    <3>2. NULL \in ManagerType("running")
      BY TypeNames
    <3>3. /\ Typed(k) /\ k.pcb = m.pcb /\ k.hung = m.hung
          /\ \A e \in ManagerFields : k.g[e] = IF e = "running" THEN NULL ELSE m.g[e]
      BY <3>2, NumberNames, NumberTyped
    <3> HIDE DEF k, unlinked
    <3> QED
      BY <2>1, <3>1, <3>3, NumberNames DEF SameBut
  <2>2. CASE p # m.g.running
    <3> DEFINE first == remove_from_queue(m, "ready_queue", p)
               both == remove_from_queue(first, "blocked_queue", p)
    <3>1. unlinked = both
      BY <2>2 DEF Unlinked
    <3> HIDE DEF unlinked
    <3>2. Unlinks(m, first, "ready_queue", p) /\ Typed(first)
      BY NumberNames, RemoveEffect, UnlinkTyped, Zenon DEF Typed
    <3> HIDE DEF first
    <3>3. Unlinks(first, both, "blocked_queue", p) /\ Typed(both)
      BY <3>2, NumberNames, RemoveEffect, UnlinkTyped DEF Typed
    <3> HIDE DEF both
    <3>4. first.pcb[p].next = NULL /\ first.pcb[p].prev = NULL
      BY <3>2 DEF Unlinks
    <3>5. /\ SameBut(first.pcb, both.pcb, LinkFields)
          /\ \A s \in Slots : s # p => /\ both.pcb[s].next = first.pcb[s].next
                                       /\ both.pcb[s].prev = first.pcb[s].prev
          /\ \A f \in ManagerFields : both.g[f] = IF f = "blocked_queue" THEN NULL ELSE first.g[f]
          /\ both.hung = first.hung
      BY <3>3, <3>4, NullNotSlot DEF Unlinks
    <3>6. /\ SameBut(m.pcb, first.pcb, LinkFields)
          /\ \A s \in Slots : s # p =>
               /\ first.pcb[s].next = IF s = v THEN n ELSE m.pcb[s].next
               /\ first.pcb[s].prev = IF s = n THEN v ELSE m.pcb[s].prev
          /\ \A f \in ManagerFields : first.g[f] = IF f = "ready_queue" /\ v = NULL THEN n ELSE m.g[f]
          /\ first.hung = m.hung
      BY <3>2 DEF Unlinks
    <3> HIDE DEF n, v
    <3>7. SameBut(m.pcb, both.pcb, LinkFields)
      BY <3>5, <3>6 DEF SameBut
    <3>8. \A s \in Slots : s # p =>
             /\ both.pcb[s].next = IF s = v THEN n ELSE m.pcb[s].next
             /\ both.pcb[s].prev = IF s = n THEN v ELSE m.pcb[s].prev
      BY <3>5, <3>6
    <3> QED
      BY <2>2, <3>1, <3>3, <3>5, <3>6, <3>7, <3>8, NumberNames
  <2> QED
    BY <2>1, <2>2
<1> HIDE DEF unlinked, n, v, runs
<1>4. /\ Typed(marked) /\ marked.g = unlinked.g /\ marked.hung = unlinked.hung
      /\ \A s \in Slots, e \in Fields :
           marked.pcb[s][e] = IF s = p /\ e = "state" THEN "TERMINATED" ELSE unlinked.pcb[s][e]
  <2>1. "TERMINATED" \in FieldType("state")
    BY DEF FieldType, LinkFields
  <2>2. Typed(unlinked)
    BY <1>3
  <2> QED
    BY <2>1, <2>2, NumberNames, FieldTyped
<1> HIDE DEF marked
<1>5. Pushes(marked, dead, "terminated_queue", p) /\ Typed(dead)
  <2>1. dead = add_to_queue(marked, "terminated_queue", p)
    BY DEF Dead, marked, unlinked
  <2> HIDE DEF dead
  <2> QED
    BY <1>4, <2>1, NumberNames, AddEffect, PushTyped, Zenon DEF Typed
<1> HIDE DEF dead
<1>6. x \in ManagerType("process_count")
  <2>1. ManagerType("process_count") = 0 .. COUNT_MOD - 1
    BY DEF ManagerType
  <2>2. dead.g.process_count \in 0 .. COUNT_MOD - 1
    BY <1>5, <2>1, NumberNames, Zenon DEF Typed
  <2> QED
    BY <2>1, <2>2, ProcessAssumption
<1> HIDE DEF x
<1>7. /\ Typed(counted) /\ counted.pcb = dead.pcb /\ counted.hung = dead.hung
      /\ \A e \in ManagerFields : counted.g[e] = IF e = "process_count" THEN x ELSE dead.g[e]
  <2> HIDE DEF counted
  <2> QED
    BY <1>2, <1>5, <1>6, NumberNames, NumberTyped
<1> HIDE DEF counted
<1>8. /\ dead.hung = m.hung
      /\ SameBut(m.pcb, dead.pcb, {"state", "next", "prev"})
      /\ \A s \in Slots :
           /\ dead.pcb[s].state = IF s = p THEN "TERMINATED" ELSE m.pcb[s].state
           /\ dead.pcb[s].next = IF s = p THEN m.g.terminated_queue
                                 ELSE IF ~runs /\ s = v THEN n ELSE m.pcb[s].next
           /\ dead.pcb[s].prev = IF s = p THEN NULL ELSE IF s = m.g.terminated_queue THEN p
                                 ELSE IF ~runs /\ s = n THEN v ELSE m.pcb[s].prev
  <2>1. \A s \in Slots : /\ marked.pcb[s].next = unlinked.pcb[s].next
                         /\ marked.pcb[s].prev = unlinked.pcb[s].prev
                         /\ marked.pcb[s].state = IF s = p THEN "TERMINATED" ELSE unlinked.pcb[s].state
    BY <1>4, NumberNames
  <2>2. \A s \in Slots : unlinked.pcb[s].state = m.pcb[s].state /\ dead.pcb[s].state = marked.pcb[s].state
    BY <1>3, <1>5, NumberNames DEF SameBut, LinkFields, Pushes
  <2>3. SameBut(m.pcb, dead.pcb, {"state", "next", "prev"})
    BY <1>3, <1>4, <1>5 DEF SameBut, LinkFields, Pushes
  <2>4. marked.g.terminated_queue = m.g.terminated_queue
    BY <1>3, <1>4
  <2>5. \A s \in Slots :
          /\ dead.pcb[s].next = IF s = p THEN m.g.terminated_queue ELSE unlinked.pcb[s].next
          /\ dead.pcb[s].prev = IF s = p THEN NULL ELSE IF s = m.g.terminated_queue THEN p
                                ELSE unlinked.pcb[s].prev
    BY <1>5, <2>1, <2>4 DEF Pushes
  <2>6. dead.hung = m.hung
    BY <1>3, <1>4, <1>5 DEF Pushes
  <2> QED
    BY <1>3, <2>1, <2>2, <2>3, <2>5, <2>6
<1>9. /\ counted.g.running = IF runs THEN NULL ELSE m.g.running
      /\ counted.g.ready_queue = IF ~runs /\ v = NULL THEN n ELSE m.g.ready_queue
      /\ counted.g.blocked_queue = IF runs THEN m.g.blocked_queue ELSE NULL
      /\ counted.g.terminated_queue = p
      /\ counted.g.next_pid = m.g.next_pid
      /\ counted.g.process_count = (m.g.process_count - 1) % COUNT_MOD
  BY <1>3, <1>4, <1>5, <1>7, NumberNames DEF Pushes, x
<1>10. Becomes(counted)
  BY <1>1, <1>9, NullNotSlot DEF runs
<1>11. Now' = counted /\ UNCHANGED client
  BY <1>7, <1>10, NowBecomes
<1>12. Dies(m, counted, p)
  <2>1. SameBut(m.pcb, counted.pcb, {"state", "next", "prev", "exit_code"})
    BY <1>7, <1>8 DEF SameBut
  <2> QED
    BY <1>7, <1>8, <1>9, <2>1 DEF Dies, n, v, runs
<1> QED
  BY <1>1, <1>7, <1>11, <1>12

(* k is m with `new' put in PCB s and pushed on the ready queue. *)
Made(m, k, s, new) ==
  /\ \A t \in Slots \ {s}, f \in Fields \ {"prev"} : k.pcb[t][f] = m.pcb[t][f]
  /\ \A f \in Fields \ LinkFields : k.pcb[s][f] = new[f]
  /\ k.pcb[s].next = m.g.ready_queue
  /\ \A t \in Slots : k.pcb[t].prev = IF t = s THEN NULL ELSE IF t = m.g.ready_queue THEN s
                                      ELSE m.pcb[t].prev
  /\ k.hung = m.hung
  /\ k.g.running = m.g.running /\ k.g.ready_queue = s
  /\ k.g.blocked_queue = m.g.blocked_queue
  /\ k.g.terminated_queue = m.g.terminated_queue
  /\ k.g.next_pid = m.g.next_pid + 1
  /\ k.g.process_count = (m.g.process_count + 1) % COUNT_MOD

(* The state process_create queues the new PCB in. *)
Filled(s, new) ==
  [Now EXCEPT !.pcb[s] = new, !.g.next_pid = @ + 1, !.g.process_count = (@ + 1) % COUNT_MOD]

LEMMA FilledParts ==
  ASSUME Typed(Now), NEW s \in Slots, NEW new, new = [f \in Fields |-> new[f]]
  PROVE  LET P == [pcb EXCEPT ![s] = new]
             h == SetNumber(SetNumber(g, "next_pid", g.next_pid + 1),
                            "process_count", (g.process_count + 1) % COUNT_MOD)
         IN  Filled(s, new) = [pcb |-> P, g |-> h, hung |-> hung]
<1> DEFINE m1 == [Now EXCEPT !.pcb[s] = new]
           m2 == [m1 EXCEPT !.g.next_pid = @ + 1]
           m3 == [m2 EXCEPT !.g.process_count = (@ + 1) % COUNT_MOD]
           i == SetNumber(g, "next_pid", g.next_pid + 1)
           P == [pcb EXCEPT ![s] = new]
<1>1. Filled(s, new) = m3
  BY Zenon DEF Filled
<1>2. m1 = [pcb |-> P, g |-> g, hung |-> hung]
  BY DEF Now
<1> HIDE DEF m1, P
<1>3. m2 = [pcb |-> P, g |-> i, hung |-> hung]
  BY <1>2 DEF SetNumber
<1>4. i.process_count = g.process_count
  BY DEF SetNumber, Typed, State, Manager, ManagerFields, Now
<1> HIDE DEF m2, i
<1>5. m3 = [pcb |-> P, g |-> SetNumber(i, "process_count", (g.process_count + 1) % COUNT_MOD),
            hung |-> hung]
  BY <1>3, <1>4 DEF SetNumber
<1> HIDE DEF m3
<1> QED
  BY <1>1, <1>5 DEF i, P

LEMMA NewTyped ==
  ASSUME Typed(Now), NEW entry_point \in {0, 1}, NEW priority \in Nat, NEW stack \in Stacks \cup {NoStack}
  PROVE  LET new == NewPCB(g.next_pid, entry_point, priority, stack)
         IN  /\ new = [f \in Fields |-> new[f]]
             /\ \A f \in Fields : new[f] \in FieldType(f)
             /\ new.pid = g.next_pid /\ new.state = "READY" /\ new.stack_base = stack
             /\ new.eip \in {0, 1}
<1> DEFINE new == NewPCB(g.next_pid, entry_point, priority, stack)
<1>1. g.next_pid \in Nat
  BY NumberNames, NowFields DEF Typed, ManagerType
<1>2. /\ new = [f \in Fields |-> new[f]]
      /\ new.pid = g.next_pid /\ new.state = "READY" /\ new.stack_base = stack
      /\ new.eip = (IF stack = NoStack THEN 0 ELSE entry_point)
      /\ new.priority = priority /\ new.time_slice = DEFAULT_TIME_SLICE
      /\ new.remaining_slice = DEFAULT_TIME_SLICE /\ new.exit_code = 0 /\ new.next = NULL /\ new.prev = NULL
  BY Zenon DEF NewPCB, ZeroPCB, Fields
<1>3. new.eip \in {0, 1} /\ DEFAULT_TIME_SLICE \in Nat
  BY <1>2 DEF DEFAULT_TIME_SLICE
<1> HIDE DEF new
<1>4. /\ FieldType("pid") = Nat /\ FieldType("priority") = Nat /\ FieldType("time_slice") = Nat
      /\ FieldType("remaining_slice") = Nat /\ "READY" \in FieldType("state")
      /\ FieldType("stack_base") = Stacks \cup {NoStack} /\ FieldType("eip") = {0, 1}
      /\ FieldType("exit_code") = ExitCodes
      /\ FieldType("next") = Slots \cup {NULL} /\ FieldType("prev") = Slots \cup {NULL}
  BY DEF FieldType, LinkFields
<1>5. \A f \in Fields : new[f] \in FieldType(f)
  BY <1>1, <1>2, <1>3, <1>4, ProcessAssumption DEF Fields
<1> QED
  BY <1>2, <1>3, <1>5 DEF new

-----------------------------------------------------------------------------
(* The queues of clients that terminate no terminated process, as long as  *)
(* no PCB is reused *)

SameQueue(P) == \A s \in Slots : P[s].next # NULL => P[P[s].next].state = P[s].state
ReadyHead(P, h) == \A s \in Slots : P[s].state = "READY" /\ P[s].prev = NULL <=> s = h.ready_queue
DeadHead(P, h) ==
  \A s \in Slots : P[s].state = "TERMINATED" /\ P[s].prev = NULL <=> s = h.terminated_queue
DeadQueued(P, h) == \A s \in Slots : P[s].state = "TERMINATED" => h.terminated_queue # NULL
OneRuns(P, h) == \A s \in Slots : P[s].state = "RUNNING" <=> s = h.running
Unqueued(P) ==
  \A s \in Slots : P[s].state \notin {"READY", "TERMINATED"} => P[s].next = NULL /\ P[s].prev = NULL
UsedAlive(P, u) == \A s \in Slots : u[s] <=> P[s].state \in {"READY", "RUNNING"}
PidsOnce(P) ==
  \A s, t \in Slots : P[s].state # "NEW" /\ P[t].state # "NEW" /\ P[s].pid = P[t].pid => s = t
NewestFirst(P) ==
  \A s \in Slots : P[s].state = "READY" /\ P[s].next # NULL => P[P[s].next].pid < P[s].pid
PidsBelow(P, h) == \A s \in Slots : P[s].state # "NEW" => P[s].pid < h.next_pid

Once(P, h, u) ==
  /\ Linked(P) /\ h.blocked_queue = NULL
  /\ SameQueue(P) /\ ReadyHead(P, h) /\ DeadHead(P, h) /\ DeadQueued(P, h) /\ OneRuns(P, h)
  /\ Unqueued(P) /\ UsedAlive(P, u) /\ PidsOnce(P) /\ NewestFirst(P) /\ PidsBelow(P, h)

(* The types these facts are about. *)
Plain(P, h) ==
  /\ \A s \in Slots : /\ P[s].next \in Slots \cup {NULL} /\ P[s].prev \in Slots \cup {NULL}
                      /\ P[s].pid \in Nat
  /\ h.ready_queue \in Slots \cup {NULL} /\ h.blocked_queue \in Slots \cup {NULL}
  /\ h.terminated_queue \in Slots \cup {NULL} /\ h.running \in Slots \cup {NULL}
  /\ h.next_pid \in Nat

LEMMA TypedPlain ==
  ASSUME NEW m, Typed(m)
  PROVE  Plain(m.pcb, m.g)
<1>1. /\ FieldType("pid") = Nat /\ ManagerType("next_pid") = Nat /\ "pid" \in Fields
  BY DEF FieldType, ManagerType, LinkFields, Fields
<1> QED
  BY <1>1, TypeNames, NumberNames DEF Typed, Plain

LEMMA OnceTidy ==
  ASSUME NEW m, Typed(m), NEW u, Once(m.pcb, m.g, u)
  PROVE  Tidy(m)
BY TypedPlain, NullNotSlot DEF Plain, Once, Tidy, SameQueue, ReadyHead, DeadHead, DeadQueued, OneRuns, Unqueued

LEMMA OnceSame ==
  ASSUME NEW P, NEW h, NEW u, Once(P, h, u), Plain(P, h), NEW Q, NEW k,
         SameBut(P, Q, {"remaining_slice", "priority", "exit_code"}),
         \A f \in ManagerFields \ {"scheduler_ticks"} : k[f] = h[f]
  PROVE  Once(Q, k, u)
<1>1. \A s \in Slots : /\ Q[s].next = P[s].next /\ Q[s].prev = P[s].prev
                       /\ Q[s].state = P[s].state /\ Q[s].pid = P[s].pid
  BY DEF SameBut, Fields
<1>2. /\ k.running = h.running /\ k.ready_queue = h.ready_queue
      /\ k.blocked_queue = h.blocked_queue /\ k.terminated_queue = h.terminated_queue
      /\ k.next_pid = h.next_pid
  BY DEF ManagerFields
<1>3. Linked(Q)
  BY <1>1 DEF Once, Linked
<1>4. SameQueue(Q)
  BY <1>1, NullNotSlot DEF Once, Plain, SameQueue
<1>5. ReadyHead(Q, k) /\ DeadHead(Q, k) /\ DeadQueued(Q, k) /\ OneRuns(Q, k)
  BY <1>1, <1>2 DEF Once, ReadyHead, DeadHead, DeadQueued, OneRuns
<1>6. Unqueued(Q) /\ UsedAlive(Q, u) /\ PidsOnce(Q) /\ PidsBelow(Q, k)
  BY <1>1, <1>2 DEF Once, Unqueued, UsedAlive, PidsOnce, PidsBelow
<1>7. NewestFirst(Q)
  BY <1>1, NullNotSlot DEF Once, Plain, NewestFirst
<1> QED
  BY <1>2, <1>3, <1>4, <1>5, <1>6, <1>7 DEF Once

LEMMA OnceCreate ==
  ASSUME NEW m, NEW k, NEW u, Once(m.pcb, m.g, u), Plain(m.pcb, m.g),
         NEW s \in Slots, ~u[s], u \in [Slots -> BOOLEAN], m.pcb[s].state = "NEW",
         NEW new, new.pid = m.g.next_pid, new.state = "READY", Made(m, k, s, new),
         NEW w, w = [u EXCEPT ![s] = TRUE]
  PROVE  Once(k.pcb, k.g, w)
<1> DEFINE P == m.pcb
           h == m.g
           Q == k.pcb
           i == k.g
           head == h.ready_queue
<1>1. /\ \A t \in Slots : /\ Q[t].state = IF t = s THEN "READY" ELSE P[t].state
                          /\ Q[t].pid = IF t = s THEN h.next_pid ELSE P[t].pid
                          /\ Q[t].next = IF t = s THEN head ELSE P[t].next
                          /\ Q[t].prev = IF t = s THEN NULL ELSE IF t = head THEN s ELSE P[t].prev
      /\ i.running = h.running /\ i.ready_queue = s /\ i.blocked_queue = h.blocked_queue
      /\ i.terminated_queue = h.terminated_queue /\ i.next_pid = h.next_pid + 1
  BY DEF Made, Fields, LinkFields
<1>2. Plain(P, h) /\ Once(P, h, u) /\ P[s].state = "NEW"
  OBVIOUS
<1>3. \A t \in Slots : w[t] <=> u[t] \/ t = s
  OBVIOUS
<1> HIDE DEF P, h, Q, i, head
<1>20. \A t \in Slots : t # s =>
        Q[t].state = P[t].state /\ Q[t].pid = P[t].pid /\ Q[t].next = P[t].next
  BY <1>1, Zenon
<1>21. Q[s].state = "READY" /\ Q[s].pid = h.next_pid /\ Q[s].next = head /\ Q[s].prev = NULL
  BY <1>1, Zenon
<1>22. /\ SameQueue(P) /\ ReadyHead(P, h) /\ DeadHead(P, h) /\ DeadQueued(P, h) /\ OneRuns(P, h) /\ Unqueued(P)
       /\ PidsOnce(P) /\ NewestFirst(P) /\ PidsBelow(P, h)
  BY <1>2, Zenon DEF Once
<1>23. /\ \A t \in Slots : P[t].next \in Slots \cup {NULL} /\ P[t].pid \in Nat
       /\ h.next_pid \in Nat
  BY <1>2, Zenon DEF Plain
<1>4. /\ P[s].state \notin {"READY", "RUNNING", "TERMINATED"}
      /\ P[s].next = NULL /\ P[s].prev = NULL /\ s # h.running
  BY <1>2 DEF Once, Unqueued, OneRuns
<1>5. head \in Slots => /\ P[head].state = "READY" /\ P[head].prev = NULL /\ head # s
  BY <1>2, <1>4 DEF Once, ReadyHead, head
<1>6. \A t \in Slots : P[t].next # s /\ P[t].prev # s
  <2>1. \A a, b \in Slots : P[a].next = b <=> P[b].prev = a
    BY <1>2, Zenon DEF Once, Linked
  <2> QED
    BY <1>4, <2>1, NullNotSlot
<1>7. Linked(Q)
  <2> SUFFICES ASSUME NEW a \in Slots, NEW b \in Slots PROVE Q[a].next = b <=> Q[b].prev = a
    BY DEF Linked
  <2>1. P[a].next = b <=> P[b].prev = a
    BY <1>2 DEF Once, Linked
  <2>2. a # s => (Q[a].next = b <=> P[a].next = b)
    BY <1>1, Zenon
  <2>3. CASE a = s
    <3>1. Q[a].next = head
      BY <1>1, <2>3
    <3>2. CASE b = s
      BY <1>1, <1>5, <2>3, <3>1, <3>2, NullNotSlot
    <3>3. CASE b # s
      <4>1. P[b].prev # s
        BY <1>6
      <4>2. Q[b].prev = IF b = head THEN s ELSE P[b].prev
        BY <1>1, <3>3
      <4> QED
        BY <2>3, <3>1, <4>1, <4>2
    <3> QED
      BY <3>2, <3>3
  <2>4. CASE a # s /\ b = s
    BY <1>1, <1>6, <2>4, NullNotSlot
  <2>5. CASE a # s /\ b # s /\ b = head
    BY <1>1, <1>5, <2>1, <2>5, NullNotSlot
  <2>6. CASE a # s /\ b # s /\ b # head
    BY <1>1, <2>1, <2>6
  <2> QED
    BY <2>3, <2>4, <2>5, <2>6
<1>8. head \in Slots \cup {NULL}
  BY <1>2 DEF Plain, head
<1>9. \A t \in Slots : Q[t].next # NULL => Q[Q[t].next].state = Q[t].state
  <2> SUFFICES ASSUME NEW t \in Slots, Q[t].next # NULL PROVE Q[Q[t].next].state = Q[t].state
    OBVIOUS
  <2>1. CASE t = s
    BY <1>1, <1>5, <1>8, <2>1
  <2>2. CASE t # s
    <3>1. Q[t].next = P[t].next /\ P[t].next \in Slots /\ P[t].next # s
      BY <1>6, <1>20, <1>23, <2>2, Zenon
    <3>2. P[P[t].next].state = P[t].state
      BY <1>22, <2>2, <3>1, NullNotSlot DEF SameQueue
    <3> QED
      BY <1>20, <2>2, <3>1, <3>2
  <2> QED
    BY <2>1, <2>2
<1>10. \A t \in Slots : Q[t].state = "READY" /\ Q[t].prev = NULL <=> t = i.ready_queue
  <2> SUFFICES ASSUME NEW t \in Slots
               PROVE  Q[t].state = "READY" /\ Q[t].prev = NULL <=> t = s
    BY <1>1, Zenon
  <2>1. CASE t = s
    BY <1>21, <2>1
  <2>2. CASE t # s /\ t = head
    <3>1. Q[t].prev = s
      BY <1>1, <2>2, Zenon
    <3> QED
      BY <2>2, <3>1, NullNotSlot
  <2>3. CASE t # s /\ t # head
    <3>1. Q[t].state = P[t].state /\ Q[t].prev = P[t].prev
      BY <1>1, <2>3, Zenon
    <3>2. P[t].state = "READY" /\ P[t].prev = NULL <=> t = head
      BY <1>22 DEF ReadyHead, head
    <3> QED
      BY <2>3, <3>1, <3>2
  <2> QED
    BY <2>1, <2>2, <2>3
<1>11. DeadHead(Q, i) /\ DeadQueued(Q, i)
  <2>1. i.terminated_queue = h.terminated_queue
    BY <1>1, Zenon
  <2>2. ASSUME NEW t \in Slots
        PROVE  /\ Q[t].state = "TERMINATED" /\ Q[t].prev = NULL <=> t = h.terminated_queue
               /\ Q[t].state = "TERMINATED" => h.terminated_queue # NULL
    <3>1. /\ P[t].state = "TERMINATED" /\ P[t].prev = NULL <=> t = h.terminated_queue
          /\ P[t].state = "TERMINATED" => h.terminated_queue # NULL
      BY <1>22 DEF DeadHead, DeadQueued
    <3>2. CASE t = s
      BY <1>2, <1>21, <3>1, <3>2
    <3>3. CASE t # s /\ t = head
      BY <1>5, <1>20, <3>1, <3>3
    <3>4. CASE t # s /\ t # head
      <4>1. Q[t].state = P[t].state /\ Q[t].prev = P[t].prev
        BY <1>1, <3>4, Zenon
      <4> QED
        BY <3>1, <4>1
    <3> QED
      BY <3>2, <3>3, <3>4
  <2> QED
    BY <2>1, <2>2 DEF DeadHead, DeadQueued
<1>12. \A t \in Slots : Q[t].state = "RUNNING" <=> t = i.running
  <2>1. i.running = h.running
    BY <1>1, Zenon
  <2>2. \A t \in Slots : P[t].state = "RUNNING" <=> t = h.running
    BY <1>22, Zenon DEF OneRuns
  <2> QED
    BY <1>4, <1>20, <1>21, <2>1, <2>2
<1>13. \A t \in Slots : Q[t].state \notin {"READY", "TERMINATED"} => Q[t].next = NULL /\ Q[t].prev = NULL
  <2> SUFFICES ASSUME NEW t \in Slots, Q[t].state \notin {"READY", "TERMINATED"}
               PROVE  Q[t].next = NULL /\ Q[t].prev = NULL
    OBVIOUS
  <2>1. t # s
    BY <1>21
  <2>2. Q[t].state = P[t].state /\ Q[t].next = P[t].next
    BY <1>20, <2>1, Zenon
  <2>3. t # head
    BY <1>5, <2>2
  <2>4. Q[t].prev = P[t].prev
    BY <1>1, <2>1, <2>3, Zenon
  <2>5. P[t].next = NULL /\ P[t].prev = NULL
    BY <1>22, <2>2 DEF Unqueued
  <2> QED
    BY <2>2, <2>4, <2>5
<1>14. \A t \in Slots : w[t] <=> Q[t].state \in {"READY", "RUNNING"}
  BY <1>1, <1>2, <1>3 DEF Once, UsedAlive
<1>15. \A t \in Slots : Q[t].state # "NEW" => Q[t].pid < i.next_pid
  <2> SUFFICES ASSUME NEW t \in Slots, Q[t].state # "NEW" PROVE Q[t].pid < i.next_pid
    OBVIOUS
  <2>1. i.next_pid = h.next_pid + 1 /\ h.next_pid \in Nat
    BY <1>1, <1>23, Zenon
  <2>2. CASE t = s
    BY <1>21, <2>1, <2>2
  <2>3. CASE t # s
    <3>1. Q[t].pid = P[t].pid /\ P[t].pid \in Nat
      BY <1>20, <1>23, <2>3, Zenon
    <3>2. P[t].pid < h.next_pid
      BY <1>20, <1>22, <2>3 DEF PidsBelow
    <3> QED
      BY <2>1, <3>1, <3>2
  <2> QED
    BY <2>2, <2>3
<1>16. \A a, b \in Slots : Q[a].state # "NEW" /\ Q[b].state # "NEW" /\ Q[a].pid = Q[b].pid => a = b
  <2>1. \A t \in Slots : t # s => Q[t].pid = P[t].pid /\ Q[t].state = P[t].state
    BY <1>1, Zenon
  <2>2. \A t \in Slots : t # s /\ Q[t].state # "NEW" => Q[t].pid # Q[s].pid
    <3> SUFFICES ASSUME NEW t \in Slots, t # s, Q[t].state # "NEW" PROVE Q[t].pid # Q[s].pid
      OBVIOUS
    <3>1. P[t].pid < h.next_pid
      BY <1>2, <2>1 DEF Once, PidsBelow
    <3>2. P[t].pid \in Nat /\ h.next_pid \in Nat
      BY <1>2 DEF Plain
    <3>3. Q[t].pid = P[t].pid /\ Q[s].pid = h.next_pid
      BY <1>1, <2>1
    <3> QED
      BY <3>1, <3>2, <3>3
  <2>3. \A a, b \in Slots : P[a].state # "NEW" /\ P[b].state # "NEW" /\ P[a].pid = P[b].pid => a = b
    BY <1>2 DEF Once, PidsOnce
  <2> QED
    BY <2>1, <2>2, <2>3
<1>17. \A t \in Slots : Q[t].state = "READY" /\ Q[t].next # NULL => Q[Q[t].next].pid < Q[t].pid
  <2> SUFFICES ASSUME NEW t \in Slots, Q[t].state = "READY", Q[t].next # NULL
               PROVE  Q[Q[t].next].pid < Q[t].pid
    OBVIOUS
  <2>1. CASE t = s
    BY <1>1, <1>2, <1>5, <1>8, <2>1, Zenon DEF Once, PidsBelow
  <2>2. CASE t # s
    <3>1. Q[t].next = P[t].next /\ P[t].next \in Slots /\ P[t].next # s
      BY <1>6, <1>20, <1>23, <2>2, Zenon
    <3>2. P[t].state = "READY" /\ P[t].next # NULL
      BY <1>20, <2>2, <3>1, NullNotSlot
    <3>3. P[P[t].next].pid < P[t].pid
      BY <1>22, <3>2 DEF NewestFirst
    <3> QED
      BY <1>20, <2>2, <3>1, <3>3
  <2> QED
    BY <2>1, <2>2, Zenon
<1>18. i.blocked_queue = NULL
  BY <1>1, <1>2, Zenon DEF Once
<1>19. Once(Q, i, w)
  BY <1>7, <1>9, <1>10, <1>11, <1>12, <1>13, <1>14, <1>15, <1>16, <1>17, <1>18, Zenon DEF Once, SameQueue, ReadyHead, OneRuns, Unqueued, UsedAlive, PidsOnce, NewestFirst, PidsBelow
<1> QED
  BY <1>19 DEF Q, i

LEMMA OnceTerminate ==
  ASSUME NEW m, NEW k, NEW u, Once(m.pcb, m.g, u), Plain(m.pcb, m.g),
         NEW p \in Slots, m.pcb[p].state \in {"READY", "RUNNING"}, u \in [Slots -> BOOLEAN],
         Dies(m, k, p), NEW w, w = [u EXCEPT ![p] = FALSE]
  PROVE  Once(k.pcb, k.g, w)
<1> DEFINE P == m.pcb
           h == m.g
           Q == k.pcb
           i == k.g
           runs == p = h.running
           dead == h.terminated_queue
           n == P[p].next
           v == P[p].prev
<1>1. \A t \in Slots : /\ Q[t].state = IF t = p THEN "TERMINATED" ELSE P[t].state
                       /\ Q[t].pid = P[t].pid
                       /\ Q[t].next = IF t = p THEN dead
                                      ELSE IF ~runs /\ t = v THEN n ELSE P[t].next
                       /\ Q[t].prev = IF t = p THEN NULL ELSE IF t = dead THEN p
                                      ELSE IF ~runs /\ t = n THEN v ELSE P[t].prev
  BY DEF Dies, SameBut, Fields
<1>2. /\ i.running = IF runs THEN NULL ELSE h.running
      /\ i.ready_queue = IF ~runs /\ v = NULL THEN n ELSE h.ready_queue
      /\ i.blocked_queue = IF runs THEN h.blocked_queue ELSE NULL
      /\ i.terminated_queue = p /\ i.next_pid = h.next_pid
  BY DEF Dies
<1>3. Plain(P, h) /\ Once(P, h, u) /\ P[p].state \in {"READY", "RUNNING"}
  OBVIOUS
<1>4. \A t \in Slots : w[t] <=> u[t] /\ t # p
  OBVIOUS
<1> HIDE DEF P, h, Q, i
<1>5. /\ runs <=> P[p].state = "RUNNING"
      /\ runs => n = NULL /\ v = NULL
  BY <1>3 DEF Once, OneRuns, Unqueued
<1>6. /\ n \in Slots \cup {NULL} /\ v \in Slots \cup {NULL} /\ dead \in Slots \cup {NULL}
  BY <1>3 DEF Plain
<1>7. n \in Slots => /\ P[n].state = "READY" /\ P[n].prev = p /\ P[n].pid < P[p].pid /\ n # p
  <2> SUFFICES ASSUME n \in Slots PROVE P[n].state = "READY" /\ P[n].prev = p /\ P[n].pid < P[p].pid /\ n # p
    OBVIOUS
  <2>1. ~runs /\ P[p].state = "READY" /\ n # NULL
    BY <1>3, <1>5, NullNotSlot
  <2>2. P[n].state = "READY" /\ P[n].prev = p /\ P[n].pid < P[p].pid
    BY <1>3, <2>1 DEF Once, Linked, SameQueue, NewestFirst
  <2> QED
    BY <1>3, <2>2 DEF Plain
<1>8. v \in Slots => /\ P[v].state = "READY" /\ P[v].next = p /\ P[p].pid < P[v].pid /\ v # p
  <2> SUFFICES ASSUME v \in Slots PROVE P[v].state = "READY" /\ P[v].next = p /\ P[p].pid < P[v].pid /\ v # p
    OBVIOUS
  <2>1. ~runs /\ P[p].state = "READY" /\ v # NULL
    BY <1>3, <1>5, NullNotSlot
  <2>2. P[v].next = p
    BY <1>3 DEF Once, Linked
  <2>3. P[v].state = "READY" /\ P[p].pid < P[v].pid
    BY <1>3, <2>1, <2>2, NullNotSlot DEF Once, SameQueue, NewestFirst
  <2>4. P[p].pid \in Nat
    BY <1>3, Zenon DEF Plain
  <2> HIDE DEF v
  <2> QED
    BY <2>2, <2>3, <2>4
<1>9. dead \in Slots => /\ P[dead].state = "TERMINATED" /\ P[dead].prev = NULL
                        /\ dead # p /\ dead # n /\ dead # v
  <2>1. dead \in Slots => P[dead].state = "TERMINATED" /\ P[dead].prev = NULL
    BY <1>3 DEF Once, DeadHead
  <2> QED
    BY <1>3, <1>7, <1>8, <2>1
<1>10. \A a, b \in Slots : P[a].next = b <=> P[b].prev = a
  BY <1>3 DEF Once, Linked
<1>11. \A t \in Slots : /\ P[t].next = p <=> t = v
                        /\ P[t].prev = p <=> t = n
                        /\ (P[t].next = n /\ n # NULL) => t = p
                        /\ (P[t].prev = v /\ v # NULL) => t = p
                        /\ P[t].next # dead \/ dead = NULL
  <2> SUFFICES ASSUME NEW t \in Slots
               PROVE  /\ P[t].next = p <=> t = v
                      /\ P[t].prev = p <=> t = n
                      /\ (P[t].next = n /\ n # NULL) => t = p
                      /\ (P[t].prev = v /\ v # NULL) => t = p
                      /\ P[t].next # dead \/ dead = NULL
    OBVIOUS
  <2>1. (P[t].next = p <=> P[p].prev = t) /\ (P[p].next = t <=> P[t].prev = p)
    BY <1>10
  <2>2. n \in Slots => (P[t].next = n <=> P[n].prev = t)
    BY <1>10
  <2>3. v \in Slots => (P[v].next = t <=> P[t].prev = v)
    BY <1>10
  <2>4. dead \in Slots => (P[t].next = dead <=> P[dead].prev = t)
    BY <1>10
  <2> HIDE DEF n, v, dead
  <2>5. (P[t].next = p <=> t = v) /\ (P[t].prev = p <=> t = n)
    BY <2>1 DEF n, v
  <2> QED
    BY <1>6, <1>7, <1>8, <1>9, <2>2, <2>3, <2>4, <2>5, NullNotSlot
<1> HIDE DEF n, v, dead
<1>12. Linked(Q)
  <2> SUFFICES ASSUME NEW a \in Slots, NEW b \in Slots PROVE Q[a].next = b <=> Q[b].prev = a
    BY DEF Linked
  <2>0. P[a].next = b <=> P[b].prev = a
    BY <1>10
  <2>1. CASE a = p
    <3>1. Q[a].next = dead
      BY <1>1, <2>1
    <3>2. Q[b].prev = IF b = p THEN NULL ELSE IF b = dead THEN p
                      ELSE IF ~runs /\ b = n THEN v ELSE P[b].prev
      BY <1>1, Zenon
    <3>3. v # p /\ dead # p /\ (P[b].prev = p <=> b = n)
      BY <1>5, <1>6, <1>8, <1>9, <1>11, NullNotSlot
    <3>4. runs => n = NULL
      BY <1>5, <1>6, <1>8, <1>9, <1>11, NullNotSlot
    <3>5. Q[b].prev = p <=> b = dead
      BY <3>2, <3>3, <3>4, NullNotSlot
    <3> QED
      BY <2>1, <3>1, <3>5
  <2>2. CASE a # p /\ b = p
    <3>1. Q[b].prev # a
      BY <1>1, <2>2, NullNotSlot
    <3>2. Q[a].next # p
      BY <1>1, <1>5, <1>6, <1>7, <1>11, <2>2, NullNotSlot
    <3> QED
      BY <2>2, <3>1, <3>2
  <2>3. CASE a # p /\ b # p /\ b = dead
    <3>1. Q[b].prev # a
      BY <1>1, <2>3
    <3>2. Q[a].next # b
      BY <1>1, <1>6, <1>9, <1>11, <2>3, NullNotSlot
    <3> QED
      BY <3>1, <3>2
  <2>4. CASE a # p /\ b # p /\ b # dead
    <3>1. Q[a].next = IF ~runs /\ a = v THEN n ELSE P[a].next
      BY <1>1, <2>4
    <3>2. Q[b].prev = IF ~runs /\ b = n THEN v ELSE P[b].prev
      BY <1>1, <2>4
    <3>3. runs \/ (a # v /\ b # n) => (Q[a].next = b <=> Q[b].prev = a)
      BY <2>0, <3>1, <3>2
    <3>4. ~runs /\ a = v => (Q[a].next = b <=> Q[b].prev = a)
      BY <1>11, <2>4, <3>1, <3>2, NullNotSlot
    <3>5. ~runs /\ b = n => (Q[a].next = b <=> Q[b].prev = a)
      BY <1>11, <2>4, <3>1, <3>2, NullNotSlot
    <3> QED
      BY <3>3, <3>4, <3>5
  <2> QED
    BY <2>1, <2>2, <2>3, <2>4
<1>13. \A t \in Slots : Q[t].next # NULL => Q[Q[t].next].state = Q[t].state
  <2> SUFFICES ASSUME NEW t \in Slots, Q[t].next # NULL PROVE Q[Q[t].next].state = Q[t].state
    OBVIOUS
  <2>1. CASE t = p
    BY <1>1, <1>6, <1>9, <2>1
  <2>2. CASE t # p /\ ~runs /\ t = v
    BY <1>1, <1>6, <1>7, <1>8, <2>2
  <2>3. CASE t # p /\ (runs \/ t # v)
    <3>1. Q[t].next = P[t].next /\ P[t].next \in Slots /\ P[t].next # p
      <4>1. Q[t].next = P[t].next
        BY <1>1, <2>3, Zenon
      <4>2. P[t].next \in Slots \cup {NULL}
        BY <1>3, Zenon DEF Plain
      <4>3. P[t].next # p
        BY <1>5, <1>11, <2>3, NullNotSlot
      <4> QED
        BY <4>1, <4>2, <4>3
    <3>2. P[P[t].next].state = P[t].state
      BY <1>3, <3>1, NullNotSlot, Zenon DEF Once, SameQueue
    <3>3. Q[t].state = P[t].state /\ Q[P[t].next].state = P[P[t].next].state
      BY <1>1, <2>3, <3>1, Zenon
    <3> QED
      BY <3>1, <3>2, <3>3, Zenon
  <2> QED
    BY <2>1, <2>2, <2>3
<1>14. \A t \in Slots : Q[t].state = "READY" /\ Q[t].prev = NULL <=> t = i.ready_queue
  <2> SUFFICES ASSUME NEW t \in Slots
               PROVE  Q[t].state = "READY" /\ Q[t].prev = NULL <=> t = i.ready_queue
    OBVIOUS
  <2>0. \A e \in Slots : P[e].state = "READY" /\ P[e].prev = NULL <=> e = h.ready_queue
    BY <1>3 DEF Once, ReadyHead
  <2>1. CASE t = p
    <3>1. Q[t].state # "READY"
      BY <1>1, <2>1
    <3>2. t # i.ready_queue
      <4>1. CASE ~runs /\ v = NULL
        BY <1>2, <1>6, <1>7, <2>1, <4>1, NullNotSlot
      <4>2. CASE ~(~runs /\ v = NULL)
        BY <1>2, <1>5, <2>0, <2>1, <4>2, NullNotSlot DEF v
      <4> QED
        BY <4>1, <4>2
    <3> QED
      BY <3>1, <3>2
  <2>2. CASE t # p /\ t = dead
    <3>1. Q[t].state = "TERMINATED" /\ P[t].state = "TERMINATED"
      BY <1>1, <1>9, <2>2
    <3>2. t # i.ready_queue
      BY <1>2, <1>6, <1>9, <2>0, <2>2, <3>1
    <3> QED
      BY <3>1, <3>2
  <2>3. CASE t # p /\ t # dead
    <3>1. Q[t].state = P[t].state /\ Q[t].prev = IF ~runs /\ t = n THEN v ELSE P[t].prev
      BY <1>1, <2>3
    <3>2. CASE ~runs /\ v = NULL
      <4>1. P[p].state = "READY" /\ P[p].prev = NULL /\ p = h.ready_queue
        BY <1>3, <1>5, <2>0, <3>2 DEF v
      <4>2. P[t].state = "READY" => P[t].prev # NULL
        BY <2>0, <2>3, <4>1
      <4> QED
        BY <1>2, <1>6, <1>7, <3>1, <3>2, <4>2, NullNotSlot
    <3>3. CASE ~runs /\ v # NULL
      BY <1>2, <1>6, <1>7, <2>0, <3>1, <3>3, NullNotSlot
    <3>4. CASE runs
      BY <1>2, <2>0, <3>1, <3>4
    <3> QED
      BY <3>2, <3>3, <3>4
  <2> QED
    BY <2>1, <2>2, <2>3
<1>15. \A t \in Slots : Q[t].state = "TERMINATED" /\ Q[t].prev = NULL <=> t = i.terminated_queue
  <2> SUFFICES ASSUME NEW t \in Slots, t # p
               PROVE  ~(Q[t].state = "TERMINATED" /\ Q[t].prev = NULL)
    BY <1>1, <1>2
  <2>1. P[t].state = "TERMINATED" /\ P[t].prev = NULL <=> t = dead
    BY <1>3 DEF Once, DeadHead, dead
  <2> QED
    BY <1>1, <1>6, <1>7, <2>1, NullNotSlot
<1>16. \A t \in Slots : Q[t].state = "RUNNING" <=> t = i.running
  <2> SUFFICES ASSUME NEW t \in Slots PROVE Q[t].state = "RUNNING" <=> t = i.running
    OBVIOUS
  <2>1. P[t].state = "RUNNING" <=> t = h.running
    BY <1>3 DEF Once, OneRuns
  <2>2. Q[t].state = IF t = p THEN "TERMINATED" ELSE P[t].state
    BY <1>1
  <2>3. i.running = IF runs THEN NULL ELSE h.running
    BY <1>2
  <2> QED
    BY <2>1, <2>2, <2>3, NullNotSlot
<1>17. \A t \in Slots : Q[t].state \notin {"READY", "TERMINATED"} => Q[t].next = NULL /\ Q[t].prev = NULL
  BY <1>1, <1>3, <1>6, <1>7, <1>8, <1>9, Zenon DEF Once, Unqueued
<1>18. \A t \in Slots : w[t] <=> Q[t].state \in {"READY", "RUNNING"}
  BY <1>1, <1>3, <1>4 DEF Once, UsedAlive
<1>19. \A t \in Slots : Q[t].state # "NEW" => Q[t].pid < i.next_pid
  BY <1>1, <1>2, <1>3 DEF Once, PidsBelow
<1>20. \A a, b \in Slots : Q[a].state # "NEW" /\ Q[b].state # "NEW" /\ Q[a].pid = Q[b].pid => a = b
  <2>1. \A t \in Slots : Q[t].pid = P[t].pid /\ (Q[t].state # "NEW" => P[t].state # "NEW")
    BY <1>1, <1>3, Zenon
  <2> QED
    BY <1>3, <2>1 DEF Once, PidsOnce
<1>21. \A t \in Slots : Q[t].state = "READY" /\ Q[t].next # NULL => Q[Q[t].next].pid < Q[t].pid
  <2> SUFFICES ASSUME NEW t \in Slots, Q[t].state = "READY", Q[t].next # NULL
               PROVE  Q[Q[t].next].pid < Q[t].pid
    OBVIOUS
  <2>1. t # p /\ P[t].state = "READY"
    BY <1>1
  <2>2. CASE ~runs /\ t = v
    <3>1. Q[t].next = n /\ n \in Slots
      BY <1>1, <1>6, <2>1, <2>2
    <3>2. P[n].pid \in Nat /\ P[p].pid \in Nat /\ P[v].pid \in Nat
      BY <1>3, <2>2, <3>1 DEF Plain
    <3>3. P[n].pid < P[p].pid /\ P[p].pid < P[v].pid
      BY <1>7, <1>8, <2>2, <3>1
    <3>4. Q[Q[t].next].pid = P[n].pid /\ Q[t].pid = P[v].pid
      BY <1>1, <2>2, <3>1
    <3> QED
      BY <3>2, <3>3, <3>4
  <2>3. CASE runs \/ t # v
    <3>1. Q[t].next = P[t].next /\ P[t].next \in Slots
      BY <1>1, <1>3, <2>1, <2>3, Zenon DEF Plain
    <3> QED
      BY <1>1, <1>3, <2>1, <3>1, NullNotSlot, Zenon DEF Once, NewestFirst
  <2> QED
    BY <2>2, <2>3
<1>22. i.blocked_queue = NULL /\ i.terminated_queue # NULL
  BY <1>2, <1>3, NullNotSlot DEF Once
<1>23. Once(Q, i, w)
  BY <1>12, <1>13, <1>14, <1>15, <1>16, <1>17, <1>18, <1>19, <1>20, <1>21, <1>22, Zenon DEF Once, SameQueue, ReadyHead, DeadHead, DeadQueued, OneRuns, Unqueued, UsedAlive, PidsOnce, NewestFirst, PidsBelow
<1> QED
  BY <1>23 DEF Q, i

-----------------------------------------------------------------------------
(* What holds of the PCBs for every client *)

(* No queue and no link leads to a PCB that was never used. *)
Known(P, h) ==
  /\ \A s \in Slots : P[s].next # NULL => P[P[s].next].state # "NEW"
  /\ \A q \in QueueNames : h[q] # NULL => P[h[q]].state # "NEW"
InUse(P, u) == \A s \in Slots : u[s] <=> P[s].state \notin {"NEW", "TERMINATED"}
Base(P, h, u) == Known(P, h) /\ InUse(P, u) /\ PidsOnce(P) /\ PidsBelow(P, h)

(* NoneReused, of the PCBs and the manager. *)
Remembered(P, h) ==
  \A pid \in 0 .. h.next_pid - 1 : \E s \in Slots : P[s].state # "NEW" /\ P[s].pid = pid

LEMMA BaseSame ==
  ASSUME NEW P, NEW h, NEW u, Base(P, h, u), Plain(P, h), NEW Q, NEW k,
         \A s \in Slots : /\ Q[s].state = P[s].state /\ Q[s].pid = P[s].pid
                          /\ Q[s].next \in {P[s].next, NULL},
         \A q \in QueueNames : k[q] = h[q], k.next_pid = h.next_pid
  PROVE  Base(Q, k, u) /\ (Remembered(Q, k) => Remembered(P, h))
<1>1. Known(Q, k)
  <2>1. \A s \in Slots : Q[s].next # NULL => Q[Q[s].next].state # "NEW"
    BY DEF Base, Known, Plain
  <2>2. \A q \in QueueNames : h[q] \in Slots \cup {NULL}
    BY DEF Plain, QueueNames
  <2>3. \A q \in QueueNames : k[q] # NULL => Q[k[q]].state # "NEW"
    BY <2>2 DEF Base, Known
  <2> QED
    BY <2>1, <2>3 DEF Known
<1>2. InUse(Q, u)
  BY DEF Base, InUse
<1>3. PidsOnce(Q) /\ PidsBelow(Q, k)
  BY DEF Base, PidsOnce, PidsBelow
<1>4. Remembered(Q, k) => Remembered(P, h)
  BY DEF Remembered
<1> QED
  BY <1>1, <1>2, <1>3, <1>4 DEF Base

LEMMA BaseTerminate ==
  ASSUME NEW m, NEW k, NEW u, Base(m.pcb, m.g, u), Plain(m.pcb, m.g),
         NEW p \in Slots, m.pcb[p].state # "NEW", u \in [Slots -> BOOLEAN],
         Dies(m, k, p), NEW w, w = [u EXCEPT ![p] = FALSE]
  PROVE  Base(k.pcb, k.g, w) /\ (Remembered(k.pcb, k.g) => Remembered(m.pcb, m.g))
<1> DEFINE P == m.pcb
           h == m.g
           Q == k.pcb
           i == k.g
           runs == p = h.running
           dead == h.terminated_queue
           n == P[p].next
           v == P[p].prev
<1>1. /\ \A t \in Slots : /\ Q[t].state = IF t = p THEN "TERMINATED" ELSE P[t].state
                          /\ Q[t].pid = P[t].pid
                          /\ Q[t].next = IF t = p THEN dead
                                         ELSE IF ~runs /\ t = v THEN n ELSE P[t].next
      /\ i.ready_queue = (IF ~runs /\ v = NULL THEN n ELSE h.ready_queue)
      /\ i.blocked_queue = (IF runs THEN h.blocked_queue ELSE NULL)
      /\ i.terminated_queue = p /\ i.next_pid = h.next_pid
  <2>1. \A t \in Slots : Q[t].pid = P[t].pid
    <3>1. "pid" \in Fields \ {"state", "next", "prev", "exit_code"}
      BY DEF Fields
    <3> QED
      BY <3>1 DEF Dies, SameBut
  <2> QED
    BY <2>1 DEF Dies
<1>2. Plain(P, h) /\ Base(P, h, u) /\ P[p].state # "NEW"
  OBVIOUS
<1>3. \A t \in Slots : w[t] <=> u[t] /\ t # p
  OBVIOUS
<1> HIDE DEF P, h, Q, i
<1>4. \A t \in Slots : (Q[t].state = "NEW" <=> P[t].state = "NEW") /\ Q[t].pid = P[t].pid
  BY <1>1, <1>2
<1>5. /\ n \in Slots \cup {NULL} /\ dead \in Slots \cup {NULL}
      /\ h.ready_queue \in Slots \cup {NULL} /\ h.blocked_queue \in Slots \cup {NULL}
      /\ \A t \in Slots : P[t].next \in Slots \cup {NULL}
  BY <1>2 DEF Plain
<1>6. /\ n # NULL => P[n].state # "NEW"
      /\ dead # NULL => P[dead].state # "NEW"
      /\ h.ready_queue # NULL => P[h.ready_queue].state # "NEW"
      /\ h.blocked_queue # NULL => P[h.blocked_queue].state # "NEW"
      /\ \A t \in Slots : P[t].next # NULL => P[P[t].next].state # "NEW"
  BY <1>2 DEF Base, Known, QueueNames
<1> HIDE DEF n, dead, v, runs
<1>7. Known(Q, i)
  <2>1. ASSUME NEW t \in Slots, Q[t].next # NULL PROVE Q[Q[t].next].state # "NEW"
    <3>1. Q[t].next \in {dead, n, P[t].next}
      BY <1>1
    <3> QED
      BY <1>4, <1>5, <1>6, <2>1, <3>1
  <2>2. ASSUME NEW q \in QueueNames, i[q] # NULL PROVE Q[i[q]].state # "NEW"
    <3>1. i[q] \in {n, h.ready_queue, h.blocked_queue, NULL, p}
      BY <1>1 DEF QueueNames
    <3> QED
      BY <1>2, <1>4, <1>5, <1>6, <2>2, <3>1
  <2> QED
    BY <2>1, <2>2 DEF Known
<1>8. InUse(Q, w)
  BY <1>1, <1>2, <1>3 DEF Base, InUse
<1>9. PidsOnce(Q) /\ PidsBelow(Q, i)
  <2>1. PidsOnce(P) /\ PidsBelow(P, h) /\ i.next_pid = h.next_pid
    BY <1>1, <1>2 DEF Base
  <2> QED
    BY <1>4, <2>1, Zenon DEF PidsOnce, PidsBelow
<1>10. Remembered(Q, i) => Remembered(P, h)
  BY <1>1, <1>4 DEF Remembered
<1>11. Base(Q, i, w)
  BY <1>7, <1>8, <1>9 DEF Base
<1> QED
  BY <1>10, <1>11 DEF P, h, Q, i

(* k is what process_create makes of m, with PCB s for the new process. *)
Creates(m, k, u, w, s, new) ==
  /\ Base(m.pcb, m.g, u) /\ Plain(m.pcb, m.g)
  /\ ~u[s] /\ u \in [Slots -> BOOLEAN] /\ w = [u EXCEPT ![s] = TRUE]
  /\ new.pid = m.g.next_pid /\ new.state = "READY"
  /\ Made(m, k, s, new)

(* A PCB that was used before is not reused unless its pid is forgotten. *)
LEMMA BaseCreate ==
  ASSUME NEW m, NEW k, NEW u, NEW w, NEW s \in Slots, NEW new, Creates(m, k, u, w, s, new)
  PROVE  /\ Base(k.pcb, k.g, w)
         /\ Remembered(k.pcb, k.g) => Remembered(m.pcb, m.g) /\ m.pcb[s].state = "NEW"
<1>0. /\ Base(m.pcb, m.g, u) /\ Plain(m.pcb, m.g)
      /\ ~u[s] /\ u \in [Slots -> BOOLEAN] /\ w = [u EXCEPT ![s] = TRUE]
      /\ new.pid = m.g.next_pid /\ new.state = "READY" /\ Made(m, k, s, new)
  BY DEF Creates
<1> DEFINE P == m.pcb
           h == m.g
           Q == k.pcb
           i == k.g
           head == h.ready_queue
<1>1. /\ \A t \in Slots : /\ Q[t].state = IF t = s THEN "READY" ELSE P[t].state
                          /\ Q[t].pid = IF t = s THEN h.next_pid ELSE P[t].pid
                          /\ Q[t].next = IF t = s THEN head ELSE P[t].next
      /\ i.ready_queue = s /\ i.blocked_queue = h.blocked_queue
      /\ i.terminated_queue = h.terminated_queue /\ i.next_pid = h.next_pid + 1
  <2>1. \A t \in Slots \ {s} : Q[t].state = P[t].state /\ Q[t].pid = P[t].pid /\ Q[t].next = P[t].next
    <3>1. \A t \in Slots \ {s}, f \in {"state", "pid", "next"} : Q[t][f] = P[t][f]
      BY <1>0 DEF Made, Fields
    <3> QED
      BY <3>1
  <2>2. Q[s].state = "READY" /\ Q[s].pid = h.next_pid /\ Q[s].next = head
    BY <1>0 DEF Made, Fields, LinkFields
  <2>3. /\ i.ready_queue = s /\ i.blocked_queue = h.blocked_queue
        /\ i.terminated_queue = h.terminated_queue /\ i.next_pid = h.next_pid + 1
    BY <1>0, Zenon DEF Made
  <2> QED
    BY <2>1, <2>2, <2>3
<1>2. Plain(P, h) /\ Base(P, h, u)
  BY <1>0
<1>3. \A t \in Slots : w[t] <=> u[t] \/ t = s
  BY <1>0
<1> HIDE DEF P, h, Q, i, head
<1>4. \A t \in Slots : P[t].state # "NEW" => Q[t].state # "NEW"
  BY <1>1
<1>5. /\ \A t \in Slots : P[t].next \in Slots \cup {NULL} /\ P[t].pid \in Nat
      /\ h.next_pid \in Nat /\ head \in Slots \cup {NULL}
      /\ h.blocked_queue \in Slots \cup {NULL} /\ h.terminated_queue \in Slots \cup {NULL}
  BY <1>2 DEF Plain, head
<1>6. /\ head # NULL => P[head].state # "NEW"
      /\ h.blocked_queue # NULL => P[h.blocked_queue].state # "NEW"
      /\ h.terminated_queue # NULL => P[h.terminated_queue].state # "NEW"
      /\ \A t \in Slots : P[t].next # NULL => P[P[t].next].state # "NEW"
  BY <1>2 DEF Base, Known, QueueNames, head
<1>7. Known(Q, i)
  <2>1. ASSUME NEW t \in Slots, Q[t].next # NULL PROVE Q[Q[t].next].state # "NEW"
    <3>1. Q[t].next \in {head, P[t].next}
      BY <1>1
    <3> QED
      BY <1>4, <1>5, <1>6, <2>1, <3>1
  <2>2. ASSUME NEW q \in QueueNames, i[q] # NULL PROVE Q[i[q]].state # "NEW"
    <3>1. i[q] \in {s, h.blocked_queue, h.terminated_queue}
      BY <1>1 DEF QueueNames
    <3> QED
      BY <1>1, <1>4, <1>5, <1>6, <2>2, <3>1
  <2> QED
    BY <2>1, <2>2 DEF Known
<1>8. InUse(Q, w)
  BY <1>1, <1>2, <1>3 DEF Base, InUse
<1>9. \A t \in Slots : P[t].state # "NEW" => P[t].pid < h.next_pid
  BY <1>2 DEF Base, PidsBelow
<1>10. \A a, b \in Slots : P[a].state # "NEW" /\ P[b].state # "NEW" /\ P[a].pid = P[b].pid => a = b
  BY <1>2 DEF Base, PidsOnce
<1>11. PidsBelow(Q, i)
  BY <1>1, <1>5, <1>9 DEF PidsBelow
<1>12. PidsOnce(Q)
  BY <1>1, <1>5, <1>9, <1>10 DEF PidsOnce
<1>13. ASSUME Remembered(Q, i) PROVE Remembered(P, h) /\ P[s].state = "NEW"
  <2>1. ASSUME NEW pid \in 0 .. h.next_pid - 1
        PROVE  \E t \in Slots : t # s /\ P[t].state # "NEW" /\ P[t].pid = pid
    <3>1. pid \in 0 .. i.next_pid - 1 /\ pid # h.next_pid
      <4>1. i.next_pid = h.next_pid + 1 /\ h.next_pid \in Nat
        BY <1>1, <1>5
      <4> QED
        BY <4>1
    <3>2. PICK t \in Slots : Q[t].state # "NEW" /\ Q[t].pid = pid
      BY <1>13, <3>1 DEF Remembered
    <3> QED
      BY <1>1, <3>1, <3>2
  <2>2. Remembered(P, h)
    BY <2>1 DEF Remembered
  <2>3. ASSUME P[s].state # "NEW" PROVE FALSE
    <3>1. P[s].pid \in 0 .. h.next_pid - 1
      <4>1. P[s].pid \in Nat /\ P[s].pid < h.next_pid /\ h.next_pid \in Nat
        BY <1>5, <1>9, <2>3
      <4> QED
        BY <4>1
    <3> QED
      BY <1>10, <2>1, <2>3, <3>1
  <2> QED
    BY <2>2, <2>3
<1>14. Base(Q, i, w)
  BY <1>7, <1>8, <1>11, <1>12 DEF Base
<1> QED
  BY <1>13, <1>14 DEF P, h, Q, i

-----------------------------------------------------------------------------
(* The stacks *)

(* process_count and the stacks, as StacksOwned has them. *)
Live(u) == {s \in Slots : u[s]}
Owned(P, u, c, hp) ==
  /\ c = Cardinality(Live(u))
  /\ hp = {P[s].stack_base : s \in Live(u)} \ {NoStack}
  /\ \A s, t \in Slots : u[s] /\ u[t] /\ P[s].stack_base = P[t].stack_base
                           => s = t \/ P[s].stack_base = NoStack

LEMMA OwnedSame ==
  ASSUME NEW P, NEW Q, NEW u, NEW c, NEW hp, Owned(P, u, c, hp),
         \A t \in Slots : Q[t].stack_base = P[t].stack_base
  PROVE  Owned(Q, u, c, hp)
<1>1. {Q[t].stack_base : t \in Live(u)} = {P[t].stack_base : t \in Live(u)}
  BY DEF Live
<1> QED
  BY <1>1, Zenon DEF Owned

-----------------------------------------------------------------------------
(* The inductive invariant *)

(* The names: pids of the PCBs in use are all different and older than     *)
(* next_pid, and only the idle process runs.                               *)
Names == used \in [Slots -> BOOLEAN] /\ OnlyIdleRuns /\ PidsUnique

(* The types, the names and what Base says of the PCBs hold for every      *)
(* client.  The stacks are only sound for the client that terminates no    *)
(* terminated process, which process_terminate would count twice; and the  *)
(* queues only until that client's processes reuse a PCB, which            *)
(* terminated_queue still leads to.                                        *)
ProcessInv ==
  /\ Typed(Now) /\ Names /\ heap \subseteq Stacks /\ client \in {"any", "once"}
  /\ g.running # NULL => pcb[0].eip = 0
  /\ Base(pcb, g, used)
  /\ client = "once" => Owned(pcb, used, g.process_count, heap)
  /\ client = "once" /\ Remembered(pcb, g) => ~hung /\ Once(pcb, g, used)

LEMMA NamesTyped ==
  ASSUME Typed(Now)
  PROVE  g.next_pid \in Nat /\ \A s \in Slots : pcb[s].pid \in Nat
<1>1. /\ "next_pid" \in ManagerFields /\ ManagerType("next_pid") = Nat
      /\ "pid" \in Fields /\ FieldType("pid") = Nat
  BY DEF ManagerFields, ManagerType, Fields, FieldType, LinkFields
<1> QED
  BY <1>1, NowFields DEF Typed

(* A call that changes no pid and keeps the idle process running. *)
LEMMA NamesSame ==
  ASSUME Names, used' = used, g'.running = g.running, g'.next_pid = g.next_pid,
         \A s \in Slots : pcb'[s].pid = pcb[s].pid,
         g.running # NULL => pcb'[0].state = "RUNNING"
  PROVE  Names'
<1>1. 0 \in Slots
  BY NullNotSlot
<1>2. OnlyIdleRuns'
  BY <1>1 DEF Names, OnlyIdleRuns
<1>3. PidsUnique'
  BY DEF Names, PidsUnique
<1> QED
  BY <1>2, <1>3 DEF Names

LEMMA NamesTerminate ==
  ASSUME Names, NEW p \in Slots, Dies(Now, Now', p), used' = [used EXCEPT ![p] = FALSE]
  PROVE  Names' /\ (g.running = NULL => g'.running = NULL)
<1>1. Now.pcb = pcb /\ Now.g = g /\ Now'.pcb = pcb' /\ Now'.g = g'
  BY DEF Now
<1>2. /\ g'.running = (IF p = g.running THEN NULL ELSE g.running) /\ g'.next_pid = g.next_pid
      /\ \A s \in Slots : /\ pcb'[s].pid = pcb[s].pid
                          /\ s # p => pcb'[s].state = pcb[s].state
  <2>1. \A s \in Slots : pcb'[s].pid = pcb[s].pid
    <3>1. "pid" \in Fields \ {"state", "next", "prev", "exit_code"}
      BY DEF Fields
    <3> QED
      BY <1>1, <3>1 DEF Dies, SameBut
  <2> QED
    BY <1>1, <2>1 DEF Dies
<1>3. used' \in [Slots -> BOOLEAN] /\ \A s \in Slots : used'[s] <=> used[s] /\ s # p
  BY DEF Names
<1>4. OnlyIdleRuns'
  <2>1. 0 \in Slots
    BY NullNotSlot
  <2> QED
    BY <1>2, <1>3, <2>1 DEF Names, OnlyIdleRuns
<1>5. PidsUnique'
  BY <1>2, <1>3 DEF Names, PidsUnique
<1> QED
  BY <1>2, <1>3, <1>4, <1>5 DEF Names

LEMMA NamesCreate ==
  ASSUME Names, Typed(Now), NEW s \in Slots, ~used[s], NEW new, new.pid = g.next_pid,
         Made(Now, Now', s, new), used' = [used EXCEPT ![s] = TRUE]
  PROVE  Names' /\ g'.running = g.running
<1>1. Now.pcb = pcb /\ Now.g = g /\ Now'.pcb = pcb' /\ Now'.g = g'
  BY Zenon DEF Now
<1>2. /\ \A t \in Slots : t # s => pcb'[t].pid = pcb[t].pid /\ pcb'[t].state = pcb[t].state
      /\ pcb'[s].pid = g.next_pid
      /\ g'.running = g.running /\ g'.next_pid = g.next_pid + 1
  BY <1>1 DEF Made, Fields, LinkFields
<1>3. used' \in [Slots -> BOOLEAN] /\ \A t \in Slots : used'[t] <=> used[t] \/ t = s
  BY DEF Names
<1>4. PidsUnique'
  <2>1. g.next_pid \in Nat /\ \A t \in Slots : pcb[t].pid \in Nat
    BY NamesTyped
  <2>2. \A t \in Slots : used[t] => pcb[t].pid < g.next_pid
    BY DEF Names, PidsUnique
  <2>3. \A t, u \in Slots : used[t] /\ used[u] /\ pcb[t].pid = pcb[u].pid => t = u
    BY DEF Names, PidsUnique
  <2>4. \A t \in Slots : used'[t] => pcb'[t].pid < g'.next_pid
    BY <1>2, <1>3, <2>1, <2>2
  <2>5. \A t, u \in Slots : used'[t] /\ used'[u] /\ pcb'[t].pid = pcb'[u].pid => t = u
    BY <1>2, <1>3, <2>1, <2>2, <2>3
  <2> QED
    BY <2>4, <2>5 DEF PidsUnique
<1>5. OnlyIdleRuns'
  <2>1. 0 \in Slots
    BY NullNotSlot
  <2>2. g.running # NULL => s # 0
    BY DEF Names, OnlyIdleRuns
  <2> QED
    BY <1>2, <1>3, <2>1, <2>2 DEF Names, OnlyIdleRuns
<1> QED
  BY <1>2, <1>3, <1>4, <1>5 DEF Names

LEMMA NothingKeeps ==
  ASSUME ProcessInv, UNCHANGED vars
  PROVE  ProcessInv' /\ (g.running = NULL => g'.running = NULL)
<1>1. Names'
  BY DEF ProcessInv, Names, OnlyIdleRuns, PidsUnique, vars
<1>2. Now' = Now
  BY DEF Now, vars
<1>3. Typed(Now)'
  BY <1>2 DEF ProcessInv
<1> QED
  BY <1>1, <1>3 DEF ProcessInv, vars

(* A call that changes slices, a priority, an exit code or the tick count  *)
(* only, and where the queues are out of order perhaps clears some links.  *)
LEMMA SameKeeps ==
  ASSUME ProcessInv, Typed(Now)', UNCHANGED <<used, heap, client>>,
         SameBut(pcb, pcb', {"next", "prev", "remaining_slice", "priority", "exit_code"}),
         \A f \in ManagerFields \ {"scheduler_ticks"} : g'[f] = g[f],
         \A s \in Slots : pcb'[s].next \in {pcb[s].next, NULL},
         client = "once" /\ Remembered(pcb, g) =>
           ~hung' /\ SameBut(pcb, pcb', {"remaining_slice", "priority", "exit_code"})
  PROVE  ProcessInv' /\ g'.running = g.running
<1>1. \A s \in Slots : /\ pcb'[s].eip = pcb[s].eip /\ pcb'[s].stack_base = pcb[s].stack_base
                       /\ pcb'[s].pid = pcb[s].pid /\ pcb'[s].state = pcb[s].state
  BY DEF SameBut, Fields
<1>2. /\ g'.running = g.running /\ g'.next_pid = g.next_pid /\ g'.process_count = g.process_count
      /\ \A q \in QueueNames : g'[q] = g[q]
  BY DEF ManagerFields, QueueNames
<1>3. Names'
  <2>1. Names /\ 0 \in Slots
    BY NullNotSlot DEF ProcessInv
  <2>2. g.running # NULL => pcb'[0].state = "RUNNING"
    BY <1>1, <2>1 DEF Names, OnlyIdleRuns
  <2> QED
    BY <1>1, <1>2, <2>1, <2>2, NamesSame
<1>4. g'.running # NULL => pcb'[0].eip = 0
  BY <1>1, <1>2, NullNotSlot DEF ProcessInv
<1>5. Plain(pcb, g) /\ Base(pcb, g, used)
  BY TypedPlain, NowFields DEF ProcessInv
<1>6. Base(pcb', g', used') /\ (Remembered(pcb', g') => Remembered(pcb, g))
  BY <1>1, <1>2, <1>5, BaseSame
<1>7. client = "once" => Owned(pcb', used', g'.process_count, heap')
  <2>1. client = "once" => Owned(pcb, used, g.process_count, heap)
    BY DEF ProcessInv
  <2> QED
    BY <1>1, <1>2, <2>1, OwnedSame
<1>8. ASSUME client = "once", Remembered(pcb', g') PROVE ~hung' /\ Once(pcb', g', used')
  BY <1>5, <1>6, <1>8, OnceSame DEF ProcessInv
<1>9. ProcessInv'
  BY <1>3, <1>4, <1>6, <1>7, <1>8, Zenon DEF ProcessInv
<1> QED
  BY <1>2, <1>9

(* The scheduler. *)
LEMMA SchedulerKeeps ==
  ASSUME ProcessInv, NEW m, Typed(m), m.g = g, m.hung = hung,
         SameBut(pcb, m.pcb, {"remaining_slice"}),
         Becomes(scheduler(m)), UNCHANGED <<used, heap>>
  PROVE  ProcessInv' /\ g'.running = g.running
<1> DEFINE k == scheduler(m)
<1>1. IdleRuns(m)
  <2>1. m.pcb[0].state = pcb[0].state
    BY NullNotSlot DEF SameBut, Fields
  <2> QED
    BY <2>1 DEF ProcessInv, Names, OnlyIdleRuns, IdleRuns
<1>2. /\ Typed(k) /\ k.hung = m.hung
      /\ SameBut(m.pcb, k.pcb, {"next", "prev", "remaining_slice"})
      /\ \A f \in ManagerFields \ {"scheduler_ticks"} : k.g[f] = m.g[f]
      /\ \A s \in Slots : k.pcb[s].next \in {m.pcb[s].next, NULL}
      /\ Tidy(m) => SameBut(m.pcb, k.pcb, {"remaining_slice"})
  BY <1>1, SchedulerEffect
<1> HIDE DEF k
<1>3. Now' = k /\ UNCHANGED client
  BY <1>2, NowBecomes, Zenon DEF k
<1>4. pcb' = k.pcb /\ g' = k.g /\ hung' = k.hung
  BY <1>3 DEF Now
<1>5. SameBut(pcb, pcb', {"next", "prev", "remaining_slice", "priority", "exit_code"})
  BY <1>2, <1>4 DEF SameBut
<1>6. ASSUME client = "once", Remembered(pcb, g)
      PROVE  ~hung' /\ SameBut(pcb, pcb', {"remaining_slice", "priority", "exit_code"})
  <2>1. Plain(pcb, g) /\ Once(pcb, g, used) /\ ~hung
    BY <1>6, TypedPlain, NowFields DEF ProcessInv
  <2>2. Once(m.pcb, m.g, used)
    <3>1. SameBut(pcb, m.pcb, {"remaining_slice", "priority", "exit_code"})
      BY DEF SameBut
    <3> QED
      BY <2>1, <3>1, OnceSame
  <2>3. Tidy(m)
    BY <2>2, OnceTidy
  <2>4. SameBut(pcb, pcb', {"remaining_slice", "priority", "exit_code"})
    BY <1>2, <1>4, <2>3 DEF SameBut
  <2> QED
    BY <1>2, <1>4, <2>1, <2>4
<1>7. \A s \in Slots : pcb'[s].next \in {pcb[s].next, NULL}
  <2>1. \A s \in Slots : m.pcb[s].next = pcb[s].next
    BY DEF SameBut, Fields
  <2> QED
    BY <1>2, <1>4, <2>1
<1>8. \A f \in ManagerFields \ {"scheduler_ticks"} : g'[f] = g[f]
  BY <1>2, <1>4
<1> QED
  BY <1>2, <1>3, <1>5, <1>6, <1>7, <1>8, SameKeeps

(* process_scheduler and process_yield. *)
LEMMA DispatchKeeps ==
  ASSUME ProcessInv, process_scheduler \/ process_yield
  PROVE  ProcessInv' /\ g'.running = g.running
<1>2. CASE process_scheduler
  <2>1. Becomes(scheduler(Now)) /\ UNCHANGED <<used, heap>>
    BY <1>2 DEF process_scheduler
  <2>2. SameBut(pcb, Now.pcb, {"remaining_slice"}) /\ Typed(Now)
    BY NowFields DEF SameBut, ProcessInv
  <2> QED
    BY <2>1, <2>2, NowFields, SchedulerKeeps
<1>3. CASE process_yield
  <2> DEFINE m == WithField(Now, g.running, "remaining_slice", 0)
  <2>1. Becomes(scheduler(m)) /\ UNCHANGED <<used, heap>>
    BY <1>3 DEF process_yield, WithField, SetField
  <2>2. "remaining_slice" \in Fields /\ 0 \in FieldType("remaining_slice") /\ Typed(Now)
    BY DEF Fields, FieldType, LinkFields, ProcessInv
  <2>3. /\ Typed(m) /\ m.g = g /\ m.hung = hung
        /\ \A s \in Slots, e \in Fields :
             m.pcb[s][e] = IF s = g.running /\ e = "remaining_slice" THEN 0 ELSE pcb[s][e]
    BY <2>2, NowFields, FieldTyped
  <2> HIDE DEF m
  <2>4. SameBut(pcb, m.pcb, {"remaining_slice"})
    BY <2>3 DEF SameBut
  <2> QED
    BY <2>1, <2>3, <2>4, SchedulerKeeps
<1> QED
  BY <1>2, <1>3

(* No caller of sys_exit breaks the rule of client "once". *)
LEMMA RunningPid ==
  ASSUME ProcessInv, g.running # NULL
  PROVE  MayTerminate(pcb[g.running].pid)
<1>1. g.running = 0 /\ 0 \in Slots /\ pcb[0].state = "RUNNING"
  BY NullNotSlot DEF ProcessInv, Names, OnlyIdleRuns
<1>2. \A s \in Slots : pcb[s].pid = pcb[0].pid => pcb[s].state # "TERMINATED"
  BY <1>1 DEF ProcessInv, Base, PidsOnce
<1> QED
  BY <1>1, <1>2 DEF MayTerminate

LEMMA ProcessTypes ==
  ASSUME ProcessInv
  PROVE  TypeOK
<1>0. Typed(Now) /\ used \in [Slots -> BOOLEAN] /\ heap \subseteq Stacks /\ client \in {"any", "once"}
  BY DEF ProcessInv, Names
<1>1. Pool(pcb) /\ Manager(g) /\ hung \in BOOLEAN
  BY <1>0, NowFields DEF Typed, State
<1>2. \A s \in Slots, f \in Fields : pcb[s][f] \in FieldType(f)
  BY <1>0, NowFields DEF Typed
<1>3. \A f \in ManagerFields : g[f] \in ManagerType(f)
  BY <1>0, NowFields DEF Typed
<1>4. /\ FieldType("pid") = Nat /\ FieldType("priority") = Nat /\ FieldType("time_slice") = Nat
      /\ FieldType("remaining_slice") = Nat
      /\ FieldType("state") = {"NEW", "READY", "RUNNING", "BLOCKED", "TERMINATED"}
      /\ FieldType("stack_base") = Stacks \cup {NoStack} /\ FieldType("eip") = {0, 1}
      /\ FieldType("exit_code") = ExitCodes
      /\ FieldType("next") = Slots \cup {NULL} /\ FieldType("prev") = Slots \cup {NULL}
  BY DEF FieldType, LinkFields
<1>5. /\ ManagerType("running") = Slots \cup {NULL} /\ ManagerType("ready_queue") = Slots \cup {NULL}
      /\ ManagerType("blocked_queue") = Slots \cup {NULL}
      /\ ManagerType("terminated_queue") = Slots \cup {NULL}
      /\ ManagerType("next_pid") = Nat /\ ManagerType("process_count") = 0 .. COUNT_MOD - 1
      /\ ManagerType("scheduler_ticks") = 0 .. TICK_MOD - 1
  BY DEF ManagerType
<1>6. \A s \in Slots : pcb[s] \in PCB
  <2> SUFFICES ASSUME NEW s \in Slots PROVE pcb[s] \in PCB
    OBVIOUS
  <2>1. pcb[s] = [f \in Fields |-> pcb[s][f]]
    BY <1>1 DEF Pool
  <2>2. /\ pcb[s].pid \in Nat /\ pcb[s].priority \in Nat /\ pcb[s].time_slice \in Nat
        /\ pcb[s].remaining_slice \in Nat
        /\ pcb[s].state \in {"NEW", "READY", "RUNNING", "BLOCKED", "TERMINATED"}
        /\ pcb[s].stack_base \in Stacks \cup {NoStack} /\ pcb[s].eip \in {0, 1}
        /\ pcb[s].exit_code \in ExitCodes
        /\ pcb[s].next \in Slots \cup {NULL} /\ pcb[s].prev \in Slots \cup {NULL}
    BY <1>2, <1>4 DEF Fields
  <2> QED
    BY <2>1, <2>2 DEF PCB, Fields
<1>7. pcb \in [Slots -> PCB]
  <2>1. pcb = [s \in Slots |-> pcb[s]]
    BY <1>1 DEF Pool
  <2> HIDE DEF PCB
  <2> QED
    BY <1>6, <2>1
<1>8. g \in [running : Slots \cup {NULL}, ready_queue : Slots \cup {NULL},
            blocked_queue : Slots \cup {NULL}, terminated_queue : Slots \cup {NULL},
            next_pid : Nat, process_count : 0 .. COUNT_MOD - 1,
            scheduler_ticks : 0 .. TICK_MOD - 1]
  <2>1. /\ g.running \in Slots \cup {NULL} /\ g.ready_queue \in Slots \cup {NULL}
        /\ g.blocked_queue \in Slots \cup {NULL} /\ g.terminated_queue \in Slots \cup {NULL}
        /\ g.next_pid \in Nat /\ g.process_count \in 0 .. COUNT_MOD - 1
        /\ g.scheduler_ticks \in 0 .. TICK_MOD - 1
    BY <1>3, <1>5, Zenon DEF ManagerFields
  <2> QED
    BY <1>1, <2>1 DEF Manager, ManagerFields
<1> QED
  BY <1>0, <1>1, <1>7, <1>8 DEF TypeOK
=============================================================================
