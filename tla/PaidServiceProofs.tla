---------------------------- MODULE PaidServiceProofs ----------------------------
(***************************************************************************)
(* What the services that are paid per request owe to those who pay, for   *)
(* any calls, sources, limits and windows.                                 *)
(***************************************************************************)
EXTENDS PaidServiceSafety, FiniteSetTheorems, TLAPS

-----------------------------------------------------------------------------
(* The rate limiter *)

(* Of a set of passings, pairs of a call and a time: those since a time,   *)
(* those after it, those of the length of a window before it, and those of *)
(* a window's length.                                                      *)
Since(F, t) == {p \in F : p[2] >= t}
After(F, t) == {p \in F : p[2] > t}
Recent(F, t) == {p \in F : p[2] < t /\ p[2] + Window >= t}
During(F, t) == {p \in F : p[2] \in t..t + Window}

(* What the passings of a source have to do with its window, where m pass  *)
(* at most: they are not after its end, it counts those since its start,   *)
(* of which one is at its start, and those shortly before it are of one    *)
(* other window, without that window's first.                              *)
Counts(F, w, m) ==
    /\ \A p \in F : p[2] <= w.start + Window
    /\ Cardinality(Since(F, w.start)) <= w.count
    /\ w.count > 0 => Cardinality(After(F, w.start)) < w.count
    /\ Cardinality(Recent(F, w.start)) < m

(* And where there is none. *)
CountsNothing(F, now, m) ==
    /\ \A p \in F : p[2] < now
    /\ Cardinality(Recent(F, now)) < m

WindowOf(now, m) == [count : 0..m, start : 0..now]

Limited(F, m) == \A t \in Nat : Cardinality(During(F, t)) <= 2 * m - 1

Passings == SUBSET (Calls \X Nat)

LEMMA Bounds ==
    ASSUME ServiceAssumption
    PROVE  /\ Limits \subseteq Nat
           /\ Window \in Nat /\ MaxTime \in Nat
BY DEF ServiceAssumption

LEMMA OneMore ==
    ASSUME NEW S, IsFiniteSet(S), NEW x
    PROVE  /\ IsFiniteSet(S \cup {x})
           /\ Cardinality(S) \in Nat /\ Cardinality(S \cup {x}) \in Nat
           /\ Cardinality(S \cup {x}) <= Cardinality(S) + 1
<1>1. Cardinality(S) \in Nat
  BY FS_CardinalityType
<1>2. /\ IsFiniteSet(S \cup {x})
      /\ Cardinality(S \cup {x}) =
            IF x \in S THEN Cardinality(S) ELSE Cardinality(S) + 1
  BY FS_AddElement
<1> QED
  BY <1>1, <1>2

LEMMA Parts ==
    ASSUME NEW F \in Passings, IsFiniteSet(F), NEW t \in Nat
    PROVE  /\ IsFiniteSet(Since(F, t)) /\ Cardinality(Since(F, t)) \in Nat
           /\ IsFiniteSet(After(F, t)) /\ Cardinality(After(F, t)) \in Nat
           /\ IsFiniteSet(Recent(F, t)) /\ Cardinality(Recent(F, t)) \in Nat
           /\ IsFiniteSet(During(F, t)) /\ Cardinality(During(F, t)) \in Nat
<1>1. /\ Since(F, t) \subseteq F /\ After(F, t) \subseteq F
      /\ Recent(F, t) \subseteq F /\ During(F, t) \subseteq F
  BY DEF Since, After, Recent, During
<1> QED
  BY <1>1, FS_Subset, FS_CardinalityType

(* Those after the start of a window that counts nothing. *)
LEMMA NoneAfter ==
    ASSUME NEW F \in Passings, IsFiniteSet(F), NEW t \in Nat, Cardinality(Since(F, t)) <= 0
    PROVE  Cardinality(After(F, t)) = 0
<1>1. \A p \in F : p[2] \in Nat
  BY DEF Passings
<1>2. After(F, t) \subseteq Since(F, t)
  BY <1>1 DEF After, Since
<1>3. /\ Cardinality(After(F, t)) <= Cardinality(Since(F, t))
      /\ Cardinality(After(F, t)) \in Nat /\ Cardinality(Since(F, t)) \in Nat
  BY <1>2, Parts, FS_Subset
<1> QED
  BY <1>3

(* A request that passes within the window. *)
LEMMA PassingCounted ==
    ASSUME ServiceAssumption, NEW F \in Passings, IsFiniteSet(F),
           NEW m \in Nat \ {0}, Limited(F, m),
           NEW now \in Nat, NEW w \in WindowOf(now, m), Counts(F, w, m),
           now <= w.start + Window, w.count < m, w.count = 0 => w.start = now,
           NEW c \in Calls,
           NEW v \in WindowOf(now, m), v.start = w.start, v.count = w.count + 1
    PROVE  Counts(F \cup {<<c, now>>}, v, m) /\ Limited(F \cup {<<c, now>>}, m)
<1> DEFINE n == <<c, now>>
           G == F \cup {n}
           b == w.start
<1>1. b \in Nat /\ b <= now /\ w.count \in Nat
  BY DEF WindowOf
<1>2. n[2] = now
  OBVIOUS
<1>3. \A p \in F : p[2] \in Nat
  BY DEF Passings
<1> HIDE DEF n
<1>4. /\ Since(G, b) = Since(F, b) \cup {n} /\ Recent(G, b) = Recent(F, b)
      /\ After(G, b) = IF now > b THEN After(F, b) \cup {n} ELSE After(F, b)
  BY <1>1, <1>2, <1>3 DEF Since, Recent, After
<1>5. Cardinality(Since(G, b)) <= w.count + 1
  <2> DEFINE S == Since(F, b)
  <2>1. IsFiniteSet(S) /\ Cardinality(S) <= w.count
    BY <1>1, Parts DEF Counts
  <2>2. Since(G, b) = S \cup {n}
    BY <1>4
  <2> HIDE DEF S
  <2>3. /\ Cardinality(S) \in Nat /\ Cardinality(S \cup {n}) \in Nat
        /\ Cardinality(S \cup {n}) <= Cardinality(S) + 1
    BY <2>1, OneMore
  <2>4. Cardinality(S \cup {n}) <= w.count + 1
    BY <1>1, <2>1, <2>3
  <2> QED
    BY <2>2, <2>4
<1>6. Cardinality(After(G, b)) < w.count + 1
  <2> DEFINE S == After(F, b)
  <2>1. IsFiniteSet(S) /\ Cardinality(S) \in Nat
    BY <1>1, Parts
  <2>2. CASE w.count = 0
    <3>1. After(G, b) = S
      BY <1>1, <1>4, <2>2
    <3>2. Cardinality(S) = 0
      BY <1>1, <2>2, NoneAfter DEF Counts
    <3> QED
      BY <2>2, <3>1, <3>2
  <2>3. CASE w.count > 0
    <3>1. Cardinality(S) < w.count
      BY <2>3 DEF Counts
    <3>2. After(G, b) = S \cup {n} \/ After(G, b) = S
      BY <1>4
    <3> HIDE DEF S
    <3>3. /\ Cardinality(S \cup {n}) \in Nat
          /\ Cardinality(S \cup {n}) <= Cardinality(S) + 1
      BY <2>1, OneMore
    <3>4. Cardinality(S \cup {n}) < w.count + 1 /\ Cardinality(S) < w.count + 1
      BY <1>1, <2>1, <3>1, <3>3
    <3> QED
      BY <3>2, <3>4
  <2> QED
    BY <1>1, <2>2, <2>3
<1>7. Counts(G, v, m)
  BY <1>1, <1>2, <1>4, <1>5, <1>6 DEF Counts
<1>8. ASSUME NEW t \in Nat
      PROVE  Cardinality(During(G, t)) <= 2 * m - 1
  <2>1. CASE now \in t..t + Window
    <3> DEFINE A == Recent(F, b)
               B == Since(G, b)
    <3>1. During(G, t) \subseteq A \cup B
      BY <1>1, <1>2, <1>3, <1>4, <2>1, Bounds DEF During, Recent, Since
    <3>2. /\ IsFiniteSet(A) /\ Cardinality(A) \in Nat
          /\ IsFiniteSet(B) /\ Cardinality(B) \in Nat
      <4>1. IsFiniteSet(Since(F, b))
        BY <1>1, Parts
      <4>2. IsFiniteSet(Since(F, b) \cup {n}) /\ Cardinality(Since(F, b) \cup {n}) \in Nat
        BY <4>1, OneMore
      <4> QED
        BY <1>1, <1>4, <4>2, Parts
    <3>3. Cardinality(A) < m
      BY DEF Counts
    <3>4. Cardinality(B) <= m
      BY <1>1, <1>5, <3>2
    <3> HIDE DEF A, B
    <3>5. /\ IsFiniteSet(A \cup B)
          /\ Cardinality(A \cup B) = Cardinality(A) + Cardinality(B)
                                        - Cardinality(A \cap B)
      BY <3>2, FS_Union
    <3>6. Cardinality(A \cap B) \in Nat
      BY <3>2, FS_Intersection, FS_CardinalityType
    <3>7. /\ Cardinality(During(G, t)) <= Cardinality(A \cup B)
          /\ Cardinality(During(G, t)) \in Nat
      BY <3>1, <3>5, FS_Subset, FS_CardinalityType
    <3> QED
      BY <3>2, <3>3, <3>4, <3>5, <3>6, <3>7
  <2>2. CASE now \notin t..t + Window
    <3>1. During(G, t) = During(F, t)
      BY <1>2, <2>2 DEF During
    <3> QED
      BY <3>1 DEF Limited
  <2> QED
    BY <2>1, <2>2
<1> QED
  BY <1>7, <1>8 DEF Limited, n

(* A request that begins a window, after one that is over. *)
LEMMA PassingRenews ==
    ASSUME ServiceAssumption, NEW F \in Passings, IsFiniteSet(F),
           NEW m \in Nat \ {0}, Limited(F, m),
           NEW now \in Nat, CountsNothing(F, now, m),
           NEW c \in Calls,
           NEW v \in WindowOf(now, m), v.start = now, v.count = 1
    PROVE  Counts(F \cup {<<c, now>>}, v, m) /\ Limited(F \cup {<<c, now>>}, m)
<1> DEFINE n == <<c, now>>
           G == F \cup {n}
<1>1. n[2] = now
  OBVIOUS
<1>2. \A p \in F : p[2] \in Nat /\ p[2] < now
  BY DEF Passings, CountsNothing
<1> HIDE DEF n
<1>3. /\ Since(G, now) = {n} /\ Recent(G, now) = Recent(F, now)
      /\ After(G, now) = {}
  BY <1>1, <1>2 DEF Since, Recent, After
<1>4. Cardinality({n}) = 1
  BY FS_Singleton
<1>5. Counts(G, v, m)
  <2>1. \A p \in G : p[2] <= v.start + Window
    <3>1. Window \in Nat
      BY Bounds
    <3>2. \A p \in G : p[2] \in Nat /\ p[2] <= now
      BY <1>1, <1>2
    <3> QED
      BY <3>1, <3>2
  <2>2. Cardinality(Since(G, v.start)) <= v.count
    <3>1. v.count = 1 /\ Cardinality(Since(G, v.start)) = 1
      BY <1>3, <1>4
    <3> QED
      BY <3>1
  <2>3. Cardinality(After(G, v.start)) < v.count
    <3>1. After(G, v.start) = {}
      BY <1>3
    <3>2. Cardinality({}) = 0 /\ v.count = 1
      BY FS_EmptySet
    <3> QED
      BY <3>1, <3>2
  <2>4. Cardinality(Recent(G, v.start)) < m
    BY <1>3 DEF CountsNothing
  <2> QED
    BY <2>1, <2>2, <2>3, <2>4 DEF Counts
<1>6. ASSUME NEW t \in Nat
      PROVE  Cardinality(During(G, t)) <= 2 * m - 1
  <2>1. CASE now \in t..t + Window
    <3> DEFINE A == Recent(F, now)
    <3>1. During(G, t) \subseteq A \cup {n}
      BY <1>1, <1>2, <2>1, Bounds DEF During, Recent
    <3>2. /\ IsFiniteSet(A) /\ Cardinality(A) \in Nat
          /\ Cardinality(A) < m
      BY Parts DEF CountsNothing
    <3> HIDE DEF A
    <3>3. /\ IsFiniteSet(A \cup {n})
          /\ Cardinality(A \cup {n}) <= Cardinality(A) + 1
          /\ Cardinality(A \cup {n}) \in Nat
      BY <3>2, OneMore
    <3>4. /\ Cardinality(During(G, t)) <= Cardinality(A \cup {n})
          /\ Cardinality(During(G, t)) \in Nat
      BY <3>1, <3>3, FS_Subset, FS_CardinalityType
    <3> QED
      BY <3>2, <3>3, <3>4
  <2>2. CASE now \notin t..t + Window
    <3>1. During(G, t) = During(F, t)
      BY <1>1, <2>2 DEF During
    <3> QED
      BY <3>1 DEF Limited
  <2> QED
    BY <2>1, <2>2
<1> QED
  BY <1>5, <1>6 DEF Limited, n

(* A source that is first seen. *)
LEMMA WindowMade ==
    ASSUME ServiceAssumption, NEW F \in Passings, IsFiniteSet(F),
           NEW m \in Nat \ {0}, NEW now \in Nat, CountsNothing(F, now, m),
           NEW w, w.start = now, w.count = 0
    PROVE  Counts(F, w, m)
<1>1. \A p \in F : p[2] \in Nat /\ p[2] < now
  BY DEF Passings, CountsNothing
<1>2. Since(F, now) = {}
  BY <1>1 DEF Since
<1>3. Cardinality(Since(F, w.start)) = 0
  BY <1>2, FS_EmptySet
<1>4. \A p \in F : p[2] <= w.start + Window
  BY <1>1, Bounds
<1> QED
  BY <1>3, <1>4 DEF Counts, CountsNothing

(* A window that is over counts like none, now and later. *)
LEMMA WindowOver ==
    ASSUME ServiceAssumption, NEW F \in Passings, IsFiniteSet(F),
           NEW m \in Nat \ {0},
           NEW now \in Nat, NEW w \in WindowOf(now, m), Counts(F, w, m),
           now > w.start + Window
    PROVE  CountsNothing(F, now, m)
<1>1. w.start \in Nat /\ w.count \in Nat /\ w.count <= m
  BY DEF WindowOf
<1>2. \A p \in F : p[2] \in Nat /\ p[2] < now
  BY <1>1, Bounds DEF Passings, Counts
<1>3. Recent(F, now) \subseteq After(F, w.start)
  BY <1>1, <1>2, Bounds DEF Recent, After
<1>4. Cardinality(Recent(F, now)) <= Cardinality(After(F, w.start))
  BY <1>1, <1>3, Parts, FS_Subset
<1>5. Cardinality(After(F, w.start)) < m
  <2>1. CASE w.count = 0
    <3>1. Cardinality(After(F, w.start)) = 0
      BY <1>1, <2>1, NoneAfter DEF Counts
    <3> QED
      BY <3>1
  <2>2. CASE w.count > 0
    BY <1>1, <2>2, Parts DEF Counts
  <2> QED
    BY <1>1, <2>1, <2>2
<1>6. Cardinality(Recent(F, now)) \in Nat /\ Cardinality(After(F, w.start)) \in Nat
  BY <1>1, Parts
<1> QED
  BY <1>2, <1>4, <1>5, <1>6 DEF CountsNothing

LEMMA TimePasses ==
    ASSUME ServiceAssumption, NEW F \in Passings, IsFiniteSet(F), NEW m \in Nat,
           NEW now \in Nat, CountsNothing(F, now, m)
    PROVE  CountsNothing(F, now + 1, m)
<1>1. \A p \in F : p[2] \in Nat /\ p[2] < now
  BY DEF Passings, CountsNothing
<1>2. Recent(F, now + 1) \subseteq Recent(F, now)
  BY <1>1, Bounds DEF Recent
<1>3. Cardinality(Recent(F, now + 1)) <= Cardinality(Recent(F, now))
  BY <1>2, Parts, FS_Subset
<1>4. Cardinality(Recent(F, now + 1)) \in Nat /\ Cardinality(Recent(F, now)) \in Nat
  BY Parts
<1> QED
  BY <1>1, <1>3, <1>4 DEF CountsNothing

-----------------------------------------------------------------------------
(* The services behind *)

LEMMA Plans ==
    ASSUME TypeOK
    PROVE  /\ Len(setup.plan) \in AllSteps /\ Steps = 1..Len(setup.plan)
           /\ Steps \subseteq AllSteps /\ 1 \in Steps
           /\ \A i \in Steps : setup.plan[i].tries \in 1..3
<1>1. setup.plan \in {Scrape, Pipeline}
  BY DEF TypeOK, Setups
<1>2. CASE setup.plan = Scrape
  <2>1. Len(Scrape) = 1 /\ Scrape[1].tries = 1
    BY DEF Scrape
  <2> QED
    BY <1>2, <2>1 DEF Steps, AllSteps, Scrape
<1>3. CASE setup.plan = Pipeline
  <2>1. /\ Len(Pipeline) = 3 /\ DOMAIN Pipeline = 1..3
        /\ Pipeline[1].tries = 3 /\ Pipeline[2].tries = 2 /\ Pipeline[3].tries = 3
    BY DEF Pipeline
  <2> QED
    BY <1>3, <2>1 DEF Steps, AllSteps
<1> QED
  BY <1>1, <1>2, <1>3

(* A handler at a step of the plan, with an attempt left. *)
Placed(h) ==
    /\ h \in Handler
    /\ h.step \in Steps
    /\ h.attempt <= setup.plan[h.step].tries

(* What becomes of one when a step has ended, and when it is passed over.  *)
Onward(h, k) ==
    \/ /\ h.step = Len(setup.plan)
       /\ k.phase = "answered" /\ k.status = 200 /\ k.step = h.step
    \/ k.phase = h.phase /\ k.status = h.status /\ k.step = h.step + 1

Stuck(h, k) ==
    /\ k.step = h.step
    /\ \/ k.phase = h.phase /\ k.status = h.status
       \/ k.phase = "answered" /\ k.status = 502

Answered(h, n) == [h EXCEPT !.phase = "answered", !.status = n]

(* Two fields of a handler change, one after the other. *)
LEMMA AnsweredWith ==
    ASSUME NEW h \in Handler, NEW n \in {200, 400, 402, 429, 502}
    PROVE  /\ Answered(h, n) \in Handler
           /\ Answered(h, n).phase = "answered" /\ Answered(h, n).status = n
           /\ Answered(h, n).step = h.step
           /\ Answered(h, n).completed = h.completed
           /\ Answered(h, n).attempt = h.attempt
<1> DEFINE f == [h EXCEPT !.phase = "answered"]
<1>1. /\ f \in Handler /\ f.phase = "answered" /\ f.status = h.status
      /\ f.step = h.step /\ f.completed = h.completed /\ f.attempt = h.attempt
  BY DEF Handler
<1> DEFINE g == [f EXCEPT !.status = n]
<1>2. Answered(h, n) = g
  BY DEF Answered
<1> HIDE DEF f
<1>3. /\ g \in Handler /\ g.phase = "answered" /\ g.status = n
      /\ g.step = h.step /\ g.completed = h.completed /\ g.attempt = h.attempt
  BY <1>1 DEF Handler
<1> HIDE DEF g
<1> QED
  BY <1>2, <1>3

LEMMA NextStep ==
    ASSUME NEW h \in Handler, h.step + 1 \in AllSteps,
           NEW k, k = [h EXCEPT !.step = @ + 1, !.attempt = 1]
    PROVE  /\ k \in Handler /\ k.phase = h.phase /\ k.status = h.status
           /\ k.step = h.step + 1 /\ k.completed = h.completed
           /\ k.attempt = 1
<1> DEFINE f == [h EXCEPT !.step = @ + 1]
<1>1. /\ f \in Handler /\ f.phase = h.phase /\ f.status = h.status
      /\ f.step = h.step + 1 /\ f.completed = h.completed
      /\ f.attempt = h.attempt
  BY DEF Handler
<1> DEFINE g == [f EXCEPT !.attempt = 1]
<1>2. k = g
  OBVIOUS
<1> HIDE DEF f
<1>3. /\ g \in Handler /\ g.phase = h.phase /\ g.status = h.status
      /\ g.step = h.step + 1 /\ g.completed = h.completed /\ g.attempt = 1
  BY <1>1 DEF Handler
<1> HIDE DEF g
<1> QED
  BY <1>2, <1>3

LEMMA MovedOn ==
    ASSUME TypeOK, NEW h, Placed(h)
    PROVE  /\ Placed(Moved(h)) /\ Onward(h, Moved(h))
           /\ Moved(h).completed = h.completed
<1> DEFINE k == Moved(h)
<1>1. h \in Handler /\ h.step \in Steps /\ Steps \subseteq AllSteps
  BY Plans DEF Placed
<1>2. CASE h.step = Len(setup.plan)
  <2>1. k = Answered(h, 200)
    BY <1>2 DEF Moved, Answered
  <2>2. /\ k \in Handler /\ k.phase = "answered" /\ k.status = 200
        /\ k.step = h.step /\ k.completed = h.completed /\ k.attempt = h.attempt
    BY <1>1, <2>1, AnsweredWith
  <2> QED
    BY <1>1, <1>2, <2>2 DEF Placed, Onward
<1>3. CASE h.step # Len(setup.plan)
  <2>1. k = [h EXCEPT !.step = @ + 1, !.attempt = 1]
    BY <1>3 DEF Moved
  <2>2. h.step + 1 \in Steps /\ h.step + 1 \in AllSteps
    BY <1>1, <1>3, Plans DEF AllSteps
  <2>3. /\ k \in Handler /\ k.phase = h.phase /\ k.status = h.status
        /\ k.step = h.step + 1 /\ k.completed = h.completed /\ k.attempt = 1
    BY <1>1, <2>1, <2>2, NextStep
  <2> HIDE DEF k
  <2>4. Placed(k)
    BY <2>2, <2>3, Plans DEF Placed
  <2> QED
    BY <2>3, <2>4 DEF Onward, k
<1> QED
  BY <1>2, <1>3

LEMMA SucceededOn ==
    ASSUME TypeOK, NEW h, Placed(h)
    PROVE  /\ Placed(Succeeded(h)) /\ Onward(h, Succeeded(h))
           /\ Succeeded(h).completed = h.completed \cup {h.step}
<1> DEFINE g == [h EXCEPT !.completed = @ \cup {h.step}]
<1>1. h \in Handler /\ h.step \in AllSteps
  BY Plans DEF Placed
<1>2. /\ g \in Handler /\ g.step = h.step /\ g.attempt = h.attempt
      /\ g.phase = h.phase /\ g.status = h.status
      /\ g.completed = h.completed \cup {h.step}
  BY <1>1 DEF Handler
<1>3. Succeeded(h) = Moved(g)
  BY DEF Succeeded
<1> HIDE DEF g
<1>4. Placed(g)
  BY <1>2 DEF Placed
<1> QED
  BY <1>2, <1>3, <1>4, MovedOn DEF Onward

LEMMA FailedOnwards ==
    ASSUME TypeOK, NEW h, Placed(h)
    PROVE  /\ Placed(Failed(h)) /\ Failed(h).completed = h.completed
           /\ \/ Stuck(h, Failed(h))
              \/ ~setup.plan[h.step].required /\ Onward(h, Failed(h))
<1> DEFINE k == Failed(h)
<1>1. h \in Handler /\ h.step \in AllSteps /\ h.step \in Steps
  BY Plans DEF Placed
<1>2. CASE Retried(h)
  <2>1. k = [h EXCEPT !.attempt = @ + 1]
    BY <1>2 DEF Failed, Again
  <2>2. h.attempt \in 1..3 /\ setup.plan[h.step].tries \in 1..3
    BY <1>1, Plans DEF Handler
  <2>3. h.attempt + 1 \in 1..3 /\ h.attempt + 1 <= setup.plan[h.step].tries
    BY <1>2, <2>2 DEF Retried
  <2>4. /\ k \in Handler /\ k.phase = h.phase /\ k.status = h.status
        /\ k.step = h.step /\ k.completed = h.completed /\ k.attempt = h.attempt + 1
    BY <1>1, <2>1, <2>3 DEF Handler
  <2> HIDE DEF k
  <2>5. Placed(k) /\ Stuck(h, k)
    BY <1>1, <2>3, <2>4 DEF Placed, Stuck
  <2> QED
    BY <2>4, <2>5 DEF k
<1>3. CASE ~Retried(h) /\ setup.plan[h.step].required
  <2>1. k = Answered(h, 502)
    BY <1>3 DEF Failed, Answered
  <2>2. /\ k \in Handler /\ k.phase = "answered" /\ k.status = 502
        /\ k.step = h.step /\ k.completed = h.completed /\ k.attempt = h.attempt
    BY <1>1, <2>1, AnsweredWith
  <2> HIDE DEF k
  <2>3. Placed(k) /\ Stuck(h, k)
    BY <2>2 DEF Placed, Stuck
  <2> QED
    BY <2>2, <2>3 DEF k
<1>4. CASE ~Retried(h) /\ ~setup.plan[h.step].required
  <2>1. k = Moved(h)
    BY <1>4 DEF Failed
  <2> QED
    BY <1>4, <2>1, MovedOn
<1> QED
  BY <1>2, <1>3, <1>4

-----------------------------------------------------------------------------
(* A call *)

(* Handlers before the rate limiter. *)
Before == {"none", "sent", "verified"}

PassedOf(c) == {p \in passed : p[1] = c}

(* A call with the handler h, the page g, the transaction x, the effect e, *)
(* of which u was not heard, and the passings P.  It has passed once where *)
(* anything was done for it, and only if it is paid; a step is completed   *)
(* once at most, and no step before that.                                  *)
CallOK(h, g, x, e, u, P) ==
    /\ Placed(h)
    /\ e \in [AllSteps -> Nat] /\ u \in [AllSteps -> Nat]
    /\ h.completed \subseteq 1..h.step
    /\ h.phase \in Before => h.completed = {} /\ P = {}
    /\ h.phase = "running" => h.step \notin h.completed /\ P # {}
    /\ h.status # 0 => h.phase = "answered"
    /\ g \in {"idle", "paying", "waiting"} => h.phase = "none"
    /\ (P # {} \/ h.phase = "verified") => x = "succeeded"
    /\ \A p, q \in P : p = q
    /\ (\E i \in AllSteps : e[i] > 0) => P # {}
    /\ \A i \in AllSteps :
         e[i] = u[i] + IF i \in h.completed THEN 1 ELSE 0
    /\ \A i \in Steps :
         (h.step > i \/ h.status = 200) /\ setup.plan[i].required
             => i \in h.completed

CallInv(c) == CallOK(handler[c], page[c], tx[c], effect[c], unheard[c], PassedOf(c))

ServiceInv ==
    /\ TypeOK
    /\ passed \subseteq Calls \X (0..clock) /\ IsFiniteSet(passed)
    /\ \A c \in Calls : CallInv(c)

(* Each source has its passings, which its window counts. *)
From(s) == {p \in passed : setup.source[p[1]] = s}

(* A window that counts nothing is of a service that lets nothing in, but  *)
(* for windows that are over.                                              *)
Tallied(F, w) ==
    Counts(F, w, Most) /\ (w.count = 0 => setup.limit = 0)

LimitInv ==
    \A s \in Sources :
        /\ IF s \in DOMAIN windows THEN Tallied(From(s), windows[s])
           ELSE CountsNothing(From(s), clock, Most)
        /\ Limited(From(s), Most)

LEMMA MostIs ==
    ASSUME ServiceAssumption, TypeOK
    PROVE  /\ setup.limit \in Nat /\ Most \in Nat \ {0}
           /\ setup.limit > 0 => Most = setup.limit
<1>1. setup.limit \in Limits
  BY DEF TypeOK, Setups
<1> QED
  BY <1>1, Bounds DEF Most

(* An answer, where handlers are typed. *)
LEMMA AnswerIs ==
    ASSUME handler \in [Calls -> Handler], NEW c \in Calls,
           NEW n \in {200, 400, 402, 429, 502}, Answer(c, n)
    PROVE  /\ handler' \in [Calls -> Handler]
           /\ handler'[c] = Answered(handler[c], n)
           /\ \A d \in Calls \ {c} : handler'[d] = handler[d]
<1> DEFINE f == [handler EXCEPT ![c].phase = "answered"]
           g == [f EXCEPT ![c].status = n]
<1>1. handler' = g
  BY DEF Answer
<1>2. /\ f \in [Calls -> Handler]
      /\ f[c] = [handler[c] EXCEPT !.phase = "answered"]
      /\ \A d \in Calls \ {c} : f[d] = handler[d]
  BY DEF Handler
<1> HIDE DEF f
<1>3. /\ g \in [Calls -> Handler]
      /\ g[c] = [f[c] EXCEPT !.status = n]
      /\ \A d \in Calls \ {c} : g[d] = f[d]
  <2> DEFINE k == [f[c] EXCEPT !.status = n]
  <2>1. f[c] \in Handler
    BY <1>2
  <2>2. k \in Handler
    BY <2>1 DEF Handler
  <2>3. g = [f EXCEPT ![c] = k]
    OBVIOUS
  <2> HIDE DEF k
  <2>4. /\ g \in [Calls -> Handler] /\ g[c] = k
        /\ \A d \in Calls \ {c} : g[d] = f[d]
    BY <1>2, <2>2, <2>3
  <2> QED
    BY <2>4 DEF k
<1> HIDE DEF g
<1>4. [[handler[c] EXCEPT !.phase = "answered"] EXCEPT !.status = n] = Answered(handler[c], n)
  BY DEF Answered
<1> QED
  BY <1>1, <1>2, <1>3, <1>4

(* One of the handlers moves from phase p to phase q. *)
Phase(c, p, q) ==
    /\ handler[c].phase = p
    /\ handler' = [handler EXCEPT ![c].phase = q]

LEMMA PhaseIs ==
    ASSUME handler \in [Calls -> Handler], NEW c \in Calls,
           NEW q \in {"sent", "verified", "running", "dropped"},
           handler' = [handler EXCEPT ![c].phase = q]
    PROVE  /\ handler' \in [Calls -> Handler]
           /\ handler'[c].phase = q
           /\ handler'[c].step = handler[c].step
           /\ handler'[c].attempt = handler[c].attempt
           /\ handler'[c].completed = handler[c].completed
           /\ handler'[c].status = handler[c].status
           /\ \A d \in Calls \ {c} : handler'[d] = handler[d]
BY DEF Handler

(* What the steps of one call leave alone. *)
Others(c) ==
    \A d \in Calls \ {c} :
        /\ page'[d] = page[d] /\ tx'[d] = tx[d]
        /\ handler'[d] = handler[d] /\ effect'[d] = effect[d]

CallStep(c) == Paying(c) \/ Serving(c) \/ GiveUp(c) \/ Break(c) \/ Reject(c)

(* A step that leaves a call to what it is. *)
Same(d) ==
    /\ page'[d] = page[d] /\ tx'[d] = tx[d]
    /\ handler'[d] = handler[d] /\ effect'[d] = effect[d]

LEMMA EntersOnce ==
    ASSUME TypeOK, NEW c \in Calls, Enter(c)
    PROVE  /\ handler[c].phase = "verified"
           /\ handler' \in [Calls -> Handler]
           /\ \/ /\ handler'[c].phase = "running"
                 /\ handler'[c].status = handler[c].status
              \/ /\ handler'[c].phase = "answered"
                 /\ handler'[c].status \in {400, 429}
           /\ handler'[c].step = handler[c].step
           /\ handler'[c].attempt = handler[c].attempt
           /\ handler'[c].completed = handler[c].completed
           /\ \A d \in Calls \ {c} : handler'[d] = handler[d]
<1>1. handler \in [Calls -> Handler] /\ handler[c] \in Handler
  BY DEF TypeOK
<1>2. /\ handler[c].phase = "verified"
      /\ \/ Answer(c, 429) \/ Answer(c, 400)
         \/ handler' = [handler EXCEPT ![c].phase = "running"]
  BY DEF Enter
<1>3. ASSUME NEW n \in {400, 429}, Answer(c, n)
      PROVE  /\ handler' \in [Calls -> Handler]
             /\ handler'[c].phase = "answered" /\ handler'[c].status = n
             /\ handler'[c].step = handler[c].step
             /\ handler'[c].attempt = handler[c].attempt
             /\ handler'[c].completed = handler[c].completed
             /\ \A d \in Calls \ {c} : handler'[d] = handler[d]
  <2>1. n \in {200, 400, 402, 429, 502}
    OBVIOUS
  <2>2. /\ handler' \in [Calls -> Handler]
        /\ handler'[c] = Answered(handler[c], n)
        /\ \A d \in Calls \ {c} : handler'[d] = handler[d]
    BY <1>1, <1>3, <2>1, AnswerIs
  <2> QED
    BY <1>1, <2>1, <2>2, AnsweredWith
<1>4. CASE Answer(c, 429)
  BY <1>2, <1>3, <1>4
<1>5. CASE Answer(c, 400)
  BY <1>2, <1>3, <1>5
<1>6. CASE handler' = [handler EXCEPT ![c].phase = "running"]
  <2>1. "running" \in {"sent", "verified", "running", "dropped"}
    OBVIOUS
  <2>2. /\ handler' \in [Calls -> Handler]
        /\ handler'[c].phase = "running"
        /\ handler'[c].step = handler[c].step
        /\ handler'[c].attempt = handler[c].attempt
        /\ handler'[c].completed = handler[c].completed
        /\ handler'[c].status = handler[c].status
        /\ \A d \in Calls \ {c} : handler'[d] = handler[d]
    BY <1>1, <1>6, <2>1, PhaseIs
  <2> QED
    BY <1>2, <2>2
<1> QED
  BY <1>2, <1>4, <1>5, <1>6

LEMMA PassingIsNoted ==
    ASSUME TypeOK, Noted, NEW d \in Calls, setup' = setup
    PROVE  /\ Passing(d) => PassedOf(d)' = PassedOf(d) \cup {<<d, clock>>}
           /\ ~Passing(d) => PassedOf(d)' = PassedOf(d)
<1>1. passed' = passed \cup {<<c, clock>> : c \in {e \in Calls : Passing(e)}}
  BY DEF Noted
<1>2. ASSUME NEW p
      PROVE  p \in PassedOf(d)' <=>
                p \in PassedOf(d) \/ (Passing(d) /\ p = <<d, clock>>)
  BY <1>1 DEF PassedOf
<1> QED
  BY <1>2

LEMMA QuietIs ==
    ASSUME ServiceInv, Noted, NEW d \in Calls, effect'[d] = effect[d],
           ~Passing(d), setup' = setup
    PROVE  unheard'[d] = unheard[d] /\ PassedOf(d)' = PassedOf(d)
<1>1. PassedOf(d)' = PassedOf(d)
  BY PassingIsNoted DEF ServiceInv
<1>2. /\ effect[d] \in [AllSteps -> Nat] /\ unheard[d] \in [AllSteps -> Nat]
  BY DEF ServiceInv, CallInv, CallOK
<1>3. unheard'[d] = [i \in AllSteps |->
        unheard[d][i] + IF Fails(d) THEN effect'[d][i] - effect[d][i] ELSE 0]
  BY DEF Noted
<1>4. \A i \in AllSteps : unheard'[d][i] = unheard[d][i]
  BY <1>2, <1>3
<1> QED
  BY <1>1, <1>2, <1>3, <1>4

LEMMA SameIsOK ==
    ASSUME ServiceInv, Noted, NEW d \in Calls, Same(d), setup' = setup
    PROVE  CallInv(d)'
<1>1. ~Passing(d)
  BY EntersOnce DEF Passing, Same, ServiceInv
<1>2. PassedOf(d)' = PassedOf(d) /\ unheard'[d] = unheard[d]
  BY <1>1, QuietIs DEF Same
<1>3. CallInv(d)
  BY DEF ServiceInv
<1> QED
  BY <1>2, <1>3 DEF CallInv, CallOK, Same, Placed, Steps

(* What a call's own step comes to. *)
CallTyped ==
    /\ page' \in [Calls ->
         {"idle", "paying", "waiting", "presented", "done", "error"}]
    /\ tx' \in [Calls -> {"none", "submitted", "succeeded", "failed"}]
    /\ handler' \in [Calls -> Handler]
    /\ effect' \in [Calls -> [AllSteps -> Nat]]

StepDone(c) == CallInv(c)' /\ Others(c) /\ CallTyped

LEMMA CallState ==
    ASSUME ServiceInv, NEW c \in Calls
    PROVE  /\ page \in [Calls ->
                {"idle", "paying", "waiting", "presented", "done", "error"}]
           /\ tx \in [Calls -> {"none", "submitted", "succeeded", "failed"}]
           /\ handler \in [Calls -> Handler]
           /\ effect \in [Calls -> [AllSteps -> Nat]]
           /\ CallInv(c)
           /\ handler[c] \in Handler
BY DEF ServiceInv, TypeOK

(* What holds of the next values of a call holds of the call.              *)
LEMMA NextIsOK ==
    ASSUME NEW c \in Calls, setup' = setup,
           CallOK(handler'[c], page'[c], tx'[c], effect'[c], unheard'[c], PassedOf(c)')
    PROVE  CallInv(c)'
BY DEF CallInv, CallOK, Placed, Steps

(* A function that changes at one argument, if at all.                     *)
LEMMA ChangesAt ==
    ASSUME NEW S, NEW V, NEW f \in [S -> V], NEW c \in S, NEW v \in V, NEW g,
           g = f \/ g = [f EXCEPT ![c] = v]
    PROVE  g \in [S -> V] /\ \A d \in S \ {c} : g[d] = f[d]
OBVIOUS

(* Steps of the page and of the chain. *)
LEMMA PageSteps ==
    ASSUME ServiceInv, Noted, NEW c \in Calls,
           \/ Ask(c) \/ Pay(c) \/ Executes(c) \/ GiveUp(c) \/ Shown(c)
    PROVE  StepDone(c)
<1>1. /\ page' \in [Calls ->
           {"idle", "paying", "waiting", "presented", "done", "error"}]
      /\ \A d \in Calls \ {c} : page'[d] = page[d]
  <2> DEFINE Pages == {"idle", "paying", "waiting", "presented", "done", "error"}
  <2>1. PICK v \in {"paying", "waiting", "error", "done"} :
          page' = page \/ page' = [page EXCEPT ![c] = v]
    BY DEF Ask, Pay, Executes, GiveUp, Shown
  <2>2. page \in [Calls -> Pages] /\ v \in Pages
    BY CallState
  <2> HIDE DEF Pages
  <2>3. page' \in [Calls -> Pages] /\ \A d \in Calls \ {c} : page'[d] = page[d]
    BY <2>1, <2>2, ChangesAt
  <2> QED
    BY <2>3 DEF Pages
<1>2. /\ tx' \in [Calls -> {"none", "submitted", "succeeded", "failed"}]
      /\ \A d \in Calls \ {c} : tx'[d] = tx[d]
  <2> DEFINE Results == {"none", "submitted", "succeeded", "failed"}
  <2>1. PICK v \in {"submitted", "succeeded", "failed"} :
          tx' = tx \/ tx' = [tx EXCEPT ![c] = v]
    BY DEF Ask, Pay, Executes, GiveUp, Shown
  <2>2. tx \in [Calls -> Results] /\ v \in Results
    BY CallState
  <2> HIDE DEF Results
  <2>3. tx' \in [Calls -> Results] /\ \A d \in Calls \ {c} : tx'[d] = tx[d]
    BY <2>1, <2>2, ChangesAt
  <2> QED
    BY <2>3 DEF Results
<1>3. handler' = handler /\ effect' = effect /\ setup' = setup
  BY DEF Ask, Pay, Executes, GiveUp, Shown, Unchanged
<1>4. Others(c) /\ CallTyped
  BY <1>1, <1>2, <1>3, CallState DEF Others, CallTyped
<1>5. unheard'[c] = unheard[c] /\ PassedOf(c)' = PassedOf(c)
  <2>1. ~Passing(c)
    BY <1>3, EntersOnce DEF Passing, ServiceInv
  <2> QED
    BY <1>3, <2>1, QuietIs
<1>6. \/ /\ page'[c] \in {"idle", "paying", "waiting"} => handler[c].phase = "none"
         /\ tx'[c] = tx[c]
      \/ /\ page'[c] = page[c]
         /\ PassedOf(c) = {} /\ handler[c].phase # "verified"
      \/ /\ handler[c].phase = "none" /\ PassedOf(c) = {}
  <2>1. CallInv(c)
    BY CallState
  <2>2. CASE Ask(c)
    BY <2>1, <2>2, CallState DEF Ask, CallInv, CallOK
  <2>3. CASE Pay(c)
    BY <2>1, <2>3, CallState DEF Pay, CallInv, CallOK, Before
  <2>4. CASE Executes(c)
    BY <2>1, <2>4, CallState DEF Executes, CallInv, CallOK
  <2>5. CASE GiveUp(c)
    BY <2>5, CallState DEF GiveUp
  <2>6. CASE Shown(c)
    BY <2>6, CallState DEF Shown
  <2> QED
    BY <2>2, <2>3, <2>4, <2>5, <2>6
<1>7. CallInv(c)'
  <2>1. CallInv(c)
    BY CallState
  <2>2. CallOK(handler[c], page'[c], tx'[c], effect[c], unheard[c], PassedOf(c))
    BY <1>6, <2>1 DEF CallInv, CallOK
  <2> QED
    BY <1>3, <1>5, <2>2, NextIsOK
<1> QED
  BY <1>4, <1>7 DEF StepDone

(* Steps in which a handler begins, or is dropped. *)
LEMMA PhaseSteps ==
    ASSUME ServiceInv, Noted, NEW c \in Calls,
           Present(c) \/ Verify(c) \/ Break(c)
    PROVE  StepDone(c)
<1>1. /\ page' \in [Calls ->
           {"idle", "paying", "waiting", "presented", "done", "error"}]
      /\ \A d \in Calls \ {c} : page'[d] = page[d]
  <2> DEFINE Pages == {"idle", "paying", "waiting", "presented", "done", "error"}
  <2>1. PICK v \in {"presented", "error"} :
          page' = page \/ page' = [page EXCEPT ![c] = v]
    BY DEF Present, Verify, Break
  <2>2. page \in [Calls -> Pages] /\ v \in Pages
    BY CallState
  <2> HIDE DEF Pages
  <2>3. page' \in [Calls -> Pages] /\ \A d \in Calls \ {c} : page'[d] = page[d]
    BY <2>1, <2>2, ChangesAt
  <2> QED
    BY <2>3 DEF Pages
<1>2. tx' = tx /\ effect' = effect /\ setup' = setup
  BY DEF Present, Verify, Break, Unchanged
<1>3. CASE handler' = handler
  <2>1. Break(c) \/ Verify(c) \/ Present(c)
    OBVIOUS
  <2>2. ~Passing(c)
    BY <1>3, EntersOnce DEF Passing, ServiceInv
  <2>3. unheard'[c] = unheard[c] /\ PassedOf(c)' = PassedOf(c)
    BY <1>2, <2>2, QuietIs
  <2>4. CallInv(c)'
    BY SMTT(30), <1>2, <1>3, <2>1, <2>3, CallState
      DEF Present, Verify, Break, CallInv, CallOK, Placed, Steps
  <2> QED
    BY <1>1, <1>2, <1>3, <2>4, CallState DEF StepDone, Others, CallTyped
<1>4. CASE handler' # handler
  <2>1. \E q \in {"sent", "verified", "dropped"} :
          /\ handler' = [handler EXCEPT ![c].phase = q]
          /\ q = "sent" => Present(c)
          /\ q = "verified" => Verify(c)
          /\ q = "dropped" => Break(c) /\ handler[c].phase # "answered"
    <3>1. CASE Present(c)
      BY <3>1 DEF Present
    <3>2. CASE Verify(c)
      BY <3>2 DEF Verify
    <3>3. CASE Break(c)
      <4>1. CASE handler[c].phase = "answered"
        <5>1. handler' = [handler EXCEPT ![c].phase = handler[c].phase]
          BY <3>3, <4>1 DEF Break
        <5>2. handler' = handler
          BY <5>1, CallState DEF Handler
        <5> QED
          BY <1>4, <5>2
      <4>2. CASE handler[c].phase # "answered"
        BY <3>3, <4>2 DEF Break
      <4> QED
        BY <4>1, <4>2
    <3> QED
      BY <3>1, <3>2, <3>3
  <2>2. PICK q \in {"sent", "verified", "dropped"} :
          /\ handler' = [handler EXCEPT ![c].phase = q]
          /\ q = "sent" => Present(c)
          /\ q = "verified" => Verify(c)
          /\ q = "dropped" => Break(c) /\ handler[c].phase # "answered"
    BY <2>1
  <2>3. /\ handler' \in [Calls -> Handler]
        /\ handler'[c].phase = q
        /\ handler'[c].step = handler[c].step
        /\ handler'[c].attempt = handler[c].attempt
        /\ handler'[c].completed = handler[c].completed
        /\ handler'[c].status = handler[c].status
        /\ \A d \in Calls \ {c} : handler'[d] = handler[d]
    BY <2>2, CallState, PhaseIs
  <2>4. ~Passing(c)
    BY <2>3, EntersOnce DEF Passing, ServiceInv
  <2>5. unheard'[c] = unheard[c] /\ PassedOf(c)' = PassedOf(c)
    BY <1>2, <2>4, QuietIs
  <2>6. handler'[c] \in Handler
    BY <2>3
  <2>7. ASSUME q = "sent" PROVE CallInv(c)'
    <3>1. handler[c].phase = "none" /\ page'[c] = "presented"
      BY <2>2, <2>7, CallState DEF Present, CallInv, CallOK
    <3>2. CallInv(c)
      BY CallState
    <3>3. CallOK(handler'[c], page'[c], tx[c], effect[c], unheard[c], PassedOf(c))
      BY <2>3, <2>6, <2>7, <3>1, <3>2 DEF CallInv, CallOK, Placed, Before
    <3> QED
      BY <1>2, <2>5, <3>3, NextIsOK
  <2>8. ASSUME q = "verified" PROVE CallInv(c)'
    <3>1. handler[c].phase = "sent" /\ page' = page /\ tx[c] = "succeeded"
      BY <2>2, <2>8, CallState DEF Verify, Verified
    <3>2. CallInv(c)
      BY CallState
    <3>3. CallOK(handler'[c], page[c], tx[c], effect[c], unheard[c], PassedOf(c))
      BY SMTT(30), <2>3, <2>6, <2>8, <3>1, <3>2 DEF CallInv, CallOK, Placed, Before
    <3> QED
      BY <1>2, <2>5, <3>1, <3>3, NextIsOK
  <2>9. ASSUME q = "dropped" PROVE CallInv(c)'
    <3>1. handler[c].phase # "answered" /\ page'[c] = "error"
      BY <2>2, <2>9, CallState DEF Break
    <3>2. CallInv(c)
      BY CallState
    <3>3. CallOK(handler'[c], page'[c], tx[c], effect[c], unheard[c], PassedOf(c))
      BY <2>3, <2>6, <2>9, <3>1, <3>2 DEF CallInv, CallOK, Placed, Before
    <3> QED
      BY <1>2, <2>5, <3>3, NextIsOK
  <2>10. CallInv(c)'
    BY <2>7, <2>8, <2>9
  <2> QED
    BY <1>1, <1>2, <2>3, <2>10, CallState DEF StepDone, Others, CallTyped
<1> QED
  BY <1>3, <1>4

(* The rejection, and the rate limiter. *)
LEMMA RejectStep ==
    ASSUME ServiceInv, Noted, NEW c \in Calls, Reject(c)
    PROVE  StepDone(c)
<1>1. /\ page' = page /\ tx' = tx /\ effect' = effect /\ setup' = setup
      /\ handler[c].phase = "sent" /\ Answer(c, 402)
  BY DEF Reject, Unchanged
<1> DEFINE n == 402
<1>2. n \in {200, 400, 402, 429, 502}
  OBVIOUS
<1>3. Answer(c, n)
  BY <1>1
<1>4. n # 200 /\ n # 0
  OBVIOUS
<1> HIDE DEF n
<1>5. /\ handler' \in [Calls -> Handler]
      /\ handler'[c] = Answered(handler[c], n)
      /\ \A d \in Calls \ {c} : handler'[d] = handler[d]
  BY <1>2, <1>3, AnswerIs, CallState
<1>6. /\ handler'[c].phase = "answered" /\ handler'[c].status = n
      /\ handler'[c].step = handler[c].step
      /\ handler'[c].attempt = handler[c].attempt
      /\ handler'[c].completed = handler[c].completed
      /\ handler'[c] \in Handler
  BY <1>2, <1>5, AnsweredWith, CallState
<1>7. ~Passing(c)
  BY <1>1, EntersOnce DEF Passing, ServiceInv
<1>8. unheard'[c] = unheard[c] /\ PassedOf(c)' = PassedOf(c)
  BY <1>1, <1>7, QuietIs
<1>9. CallInv(c)'
  BY <1>1, <1>4, <1>6, <1>8, CallState DEF CallInv, CallOK, Placed, Steps, Before
<1> QED
  BY <1>1, <1>5, <1>9, CallState DEF StepDone, Others, CallTyped

LEMMA EnterStep ==
    ASSUME ServiceInv, Noted, NEW c \in Calls, Enter(c)
    PROVE  StepDone(c)
<1>1. page' = page /\ tx' = tx /\ effect' = effect /\ setup' = setup
  BY DEF Enter
<1>2. /\ handler[c].phase = "verified"
      /\ handler' \in [Calls -> Handler]
      /\ \/ /\ handler'[c].phase = "running"
            /\ handler'[c].status = handler[c].status
         \/ /\ handler'[c].phase = "answered"
            /\ handler'[c].status \in {400, 429}
      /\ handler'[c].step = handler[c].step
      /\ handler'[c].attempt = handler[c].attempt
      /\ handler'[c].completed = handler[c].completed
      /\ \A d \in Calls \ {c} : handler'[d] = handler[d]
  BY EntersOnce DEF ServiceInv
<1>3. unheard'[c] = unheard[c]
  <2>1. /\ effect[c] \in [AllSteps -> Nat] /\ unheard[c] \in [AllSteps -> Nat]
    BY CallState DEF CallInv, CallOK
  <2>2. unheard'[c] = [i \in AllSteps |->
          unheard[c][i] + IF Fails(c) THEN effect'[c][i] - effect[c][i] ELSE 0]
    BY DEF Noted
  <2>3. \A i \in AllSteps : unheard'[c][i] = unheard[c][i]
    BY <1>1, <2>1, <2>2
  <2> QED
    BY <2>1, <2>2, <2>3
<1>4. PassedOf(c) = {} /\ handler[c].completed = {} /\ handler[c].status = 0
  BY <1>2, CallState DEF CallInv, CallOK, Before
<1>5. /\ PassedOf(c)' \in {{}, {<<c, clock>>}}
      /\ handler'[c].phase = "running" => PassedOf(c)' # {}
  <2>1. Passing(c) => PassedOf(c)' = {<<c, clock>>}
    BY <1>1, <1>4, PassingIsNoted DEF ServiceInv
  <2>2. ~Passing(c) => PassedOf(c)' = {}
    BY <1>1, <1>4, PassingIsNoted DEF ServiceInv
  <2>3. handler'[c].phase = "running" => Passing(c)
    BY <1>2, <1>4 DEF Passing
  <2> QED
    BY <2>1, <2>2, <2>3
<1>6. handler'[c] \in Handler
  BY <1>2
<1>7. CallInv(c)'
  <2> DEFINE h == handler[c]
             k == handler'[c]
             P == PassedOf(c)'
  <2>1. CallOK(h, page[c], tx[c], effect[c], unheard[c], PassedOf(c))
    BY CallState DEF CallInv
  <2>2. Placed(k) /\ tx[c] = "succeeded"
    BY <1>2, <1>6, <2>1 DEF CallOK, Placed
  <2>3. /\ k.step = h.step /\ k.completed = {} /\ k.phase \notin Before
        /\ k.status # 0 => k.phase = "answered"
        /\ k.status # 200
        /\ k.phase = "running" => P # {}
        /\ \A p, q \in P : p = q
    BY <1>2, <1>4, <1>5 DEF Before
  <2>4. \A i \in AllSteps : effect[c][i] = unheard[c][i] /\ effect[c][i] = 0
    BY <1>4, <2>1 DEF CallOK
  <2>5. page[c] \notin {"idle", "paying", "waiting"}
    BY <1>2, <2>1 DEF CallOK
  <2>6. effect[c] \in [AllSteps -> Nat] /\ unheard[c] \in [AllSteps -> Nat]
    BY <2>1 DEF CallOK
  <2>7. \A i \in Steps : h.step > i /\ setup.plan[i].required => i \in h.completed
    BY <2>1 DEF CallOK
  <2> HIDE DEF h, k, P
  <2>8. \A i \in Steps : k.step > i /\ setup.plan[i].required => i \in k.completed
    BY <1>4, <2>3, <2>7 DEF h
  <2>9. CallOK(k, page[c], tx[c], effect[c], unheard[c], P)
    BY <2>2, <2>3, <2>4, <2>5, <2>6, <2>8 DEF CallOK
  <2> QED
    BY <1>1, <1>3, <2>9 DEF CallInv, CallOK, Placed, Steps, k, P
<1> QED
  BY <1>1, <1>2, <1>7, CallState DEF StepDone, Others, CallTyped

(* Where work is done, the effect grows at the step of the handler. *)
LEMMA PerformedIs ==
    ASSUME ServiceInv, NEW c \in Calls, Performed(c)
    PROVE  /\ effect' \in [Calls -> [AllSteps -> Nat]]
           /\ \A d \in Calls \ {c} : effect'[d] = effect[d]
           /\ \A i \in AllSteps :
                effect'[c][i] = effect[c][i] + IF i = handler[c].step THEN 1 ELSE 0
<1>1. handler[c].step \in AllSteps
  BY CallState DEF Handler
<1>2. effect' = [effect EXCEPT ![c][handler[c].step] = @ + 1]
  BY DEF Performed
<1> QED
  BY <1>1, <1>2, CallState

(* A required step that a handler has passed is in its completed steps,    *)
(* and stays so when one more step ends, is passed over or fails.          *)
LEMMA PassedAreCompleted ==
    ASSUME TypeOK, NEW h, NEW k, h.step \in Steps, h.status = 0,
           h.completed \subseteq k.completed,
           \/ Stuck(h, k)
           \/ /\ Onward(h, k)
              /\ setup.plan[h.step].required => h.step \in k.completed,
           \A i \in Steps : h.step > i /\ setup.plan[i].required => i \in h.completed,
           NEW i \in Steps, k.step > i \/ k.status = 200, setup.plan[i].required
    PROVE  i \in k.completed
<1>1. i \in Nat /\ h.step \in Nat /\ i <= Len(setup.plan)
  BY Plans DEF AllSteps
<1>2. CASE h.step > i
  BY <1>2
<1>3. CASE ~(h.step > i)
  <2>1. i = h.step /\ Onward(h, k)
    BY <1>1, <1>3 DEF Onward, Stuck
  <2>2. ~Stuck(h, k)
    BY <1>1, <2>1 DEF Onward, Stuck
  <2> QED
    BY <2>1, <2>2
<1> QED
  BY <1>2, <1>3

LEMMA WorksStep ==
    ASSUME ServiceInv, Noted, NEW c \in Calls, Works(c)
    PROVE  StepDone(c)
<1> DEFINE h == handler[c]
           k == handler'[c]
<1>1. /\ page' = page /\ tx' = tx /\ setup' = setup
      /\ h.phase = "running" /\ Performed(c)
      /\ handler' = [handler EXCEPT ![c] = Succeeded(h)]
  BY DEF Works
<1>2. Placed(h) /\ h.step \in AllSteps /\ h.step \notin h.completed
  BY <1>1, CallState DEF CallInv, CallOK, Handler
<1>3. /\ Placed(k) /\ Onward(h, k) /\ k.completed = h.completed \cup {h.step}
      /\ \A d \in Calls \ {c} : handler'[d] = handler[d]
      /\ handler' \in [Calls -> Handler]
  <2>1. /\ Placed(Succeeded(h)) /\ Onward(h, Succeeded(h))
        /\ Succeeded(h).completed = h.completed \cup {h.step}
    BY <1>2, SucceededOn DEF ServiceInv
  <2>2. k = Succeeded(h)
    BY <1>1, CallState
  <2>3. Succeeded(h) \in Handler
    BY <2>1 DEF Placed
  <2> QED
    BY <1>1, <2>1, <2>2, <2>3, CallState
<1>4. ~Fails(c)
  <2>1. Fails(c) => handler'[c] = Failed(h)
    BY CallState DEF Fails
  <2>2. Failed(h).completed = h.completed
    BY <1>2, FailedOnwards DEF ServiceInv
  <2> QED
    BY <1>2, <1>3, <2>1, <2>2
<1>5. unheard'[c] = unheard[c]
  <2>1. unheard[c] \in [AllSteps -> Nat]
    BY CallState DEF CallInv, CallOK
  <2>2. unheard'[c] = [i \in AllSteps |->
          unheard[c][i] + IF Fails(c) THEN effect'[c][i] - effect[c][i] ELSE 0]
    BY DEF Noted
  <2>3. \A i \in AllSteps : unheard'[c][i] = unheard[c][i]
    BY <1>4, <2>1, <2>2
  <2> QED
    BY <2>1, <2>2, <2>3
<1>6. PassedOf(c)' = PassedOf(c)
  <2>1. ~Passing(c)
    BY <1>1, EntersOnce DEF Passing, ServiceInv
  <2> QED
    BY <1>1, <2>1, PassingIsNoted DEF ServiceInv
<1>7. /\ effect' \in [Calls -> [AllSteps -> Nat]]
      /\ \A d \in Calls \ {c} : effect'[d] = effect[d]
      /\ \A i \in AllSteps :
           effect'[c][i] = effect[c][i] + IF i = h.step THEN 1 ELSE 0
  BY <1>1, PerformedIs
<1>8. CallInv(c)'
  <2>1. CallInv(c) /\ PassedOf(c) # {} /\ h.status = 0
    BY <1>1, CallState DEF CallInv, CallOK
  <2>2. /\ page'[c] = page[c] /\ page[c] \notin {"idle", "paying", "waiting"}
        /\ tx'[c] = tx[c] /\ tx[c] = "succeeded"
    BY <1>1, <2>1 DEF CallInv, CallOK
  <2>4. k.completed \subseteq 1..k.step
    BY SMTT(30), <1>2, <1>3, <2>1 DEF CallInv, CallOK, Onward, AllSteps
  <2>5. /\ k.phase = "running" => k.step \notin k.completed
        /\ k.phase \in {"running", "answered"}
        /\ k.status # 0 => k.phase = "answered"
    BY SMTT(30), <1>1, <1>2, <1>3, <2>1 DEF CallInv, CallOK, Onward, AllSteps
  <2>6. \A i \in AllSteps :
          effect'[c][i] = unheard'[c][i] + IF i \in k.completed THEN 1 ELSE 0
    BY <1>2, <1>3, <1>5, <1>7, <2>1 DEF CallInv, CallOK
  <2>7. \A i \in Steps :
          (k.step > i \/ k.status = 200) /\ setup.plan[i].required
              => i \in k.completed
    <3>1. \A i \in Steps : h.step > i /\ setup.plan[i].required => i \in h.completed
      BY <2>1 DEF CallInv, CallOK
    <3>2. h.step \in Steps /\ TypeOK
      BY <1>2 DEF Placed, ServiceInv
    <3> HIDE DEF h, k
    <3> QED
      BY <1>3, <2>1, <3>1, <3>2, PassedAreCompleted
  <2>8. effect'[c] \in [AllSteps -> Nat] /\ unheard'[c] \in [AllSteps -> Nat]
    BY <1>5, <1>7, <2>1 DEF CallInv, CallOK
  <2> HIDE DEF h, k
  <2>9. CallOK(k, page'[c], tx'[c], effect'[c], unheard'[c], PassedOf(c))
    BY <1>3, <2>1, <2>2, <2>4, <2>5, <2>6, <2>7, <2>8 DEF CallInv, CallOK, Before
  <2> QED
    BY <1>1, <1>6, <2>9 DEF CallInv, CallOK, Placed, Steps, k
<1> QED
  BY <1>1, <1>3, <1>7, <1>8, CallState DEF StepDone, Others, CallTyped

LEMMA FailsStep ==
    ASSUME ServiceInv, Noted, NEW c \in Calls, Fails(c)
    PROVE  StepDone(c)
<1> DEFINE h == handler[c]
           k == handler'[c]
<1>1. /\ page' = page /\ tx' = tx /\ setup' = setup
      /\ h.phase = "running" /\ (UNCHANGED effect \/ Performed(c))
      /\ handler' = [handler EXCEPT ![c] = Failed(h)]
  BY DEF Fails
<1>2. Placed(h) /\ h.step \in AllSteps /\ h.step \notin h.completed
  BY <1>1, CallState DEF CallInv, CallOK, Handler
<1>3. /\ Placed(k) /\ k.completed = h.completed
      /\ Stuck(h, k) \/ (~setup.plan[h.step].required /\ Onward(h, k))
      /\ \A d \in Calls \ {c} : handler'[d] = handler[d]
      /\ handler' \in [Calls -> Handler]
  <2>1. /\ Placed(Failed(h)) /\ Failed(h).completed = h.completed
        /\ \/ Stuck(h, Failed(h))
           \/ ~setup.plan[h.step].required /\ Onward(h, Failed(h))
    BY <1>2, FailedOnwards DEF ServiceInv
  <2>2. k = Failed(h)
    BY <1>1, CallState
  <2>3. Failed(h) \in Handler
    BY <2>1 DEF Placed
  <2> QED
    BY <1>1, <2>1, <2>2, <2>3, CallState
<1>4. /\ effect' \in [Calls -> [AllSteps -> Nat]]
      /\ \A d \in Calls \ {c} : effect'[d] = effect[d]
      /\ \A i \in AllSteps : effect'[c][i] >= effect[c][i]
  <2>1. CASE effect' = effect
    BY <2>1, CallState
  <2>2. CASE Performed(c)
    <3>1. \A i \in AllSteps : effect[c][i] \in Nat
      BY CallState
    <3> QED
      BY <2>2, <3>1, PerformedIs
  <2> QED
    BY <1>1, <2>1, <2>2
<1>5. /\ unheard'[c] \in [AllSteps -> Nat]
      /\ \A i \in AllSteps :
           unheard'[c][i] = unheard[c][i] + (effect'[c][i] - effect[c][i])
  <2>1. unheard[c] \in [AllSteps -> Nat]
    BY CallState DEF CallInv, CallOK
  <2>2. unheard'[c] = [i \in AllSteps |->
          unheard[c][i] + IF Fails(c) THEN effect'[c][i] - effect[c][i] ELSE 0]
    BY DEF Noted
  <2>3. \A i \in AllSteps : effect'[c][i] \in Nat /\ effect[c][i] \in Nat
    BY <1>4, CallState
  <2>4. \A i \in AllSteps :
          unheard[c][i] + (effect'[c][i] - effect[c][i]) \in Nat
    BY <1>4, <2>1, <2>3
  <2>5. unheard'[c] = [i \in AllSteps |->
          unheard[c][i] + (effect'[c][i] - effect[c][i])]
    BY <2>2
  <2> QED
    BY <2>4, <2>5
<1>6. PassedOf(c)' = PassedOf(c)
  <2>1. ~Passing(c)
    BY <1>1, EntersOnce DEF Passing, ServiceInv
  <2> QED
    BY <1>1, <2>1, PassingIsNoted DEF ServiceInv
<1>7. CallInv(c)'
  <2>1. CallInv(c) /\ PassedOf(c) # {} /\ h.status = 0
    BY <1>1, CallState DEF CallInv, CallOK
  <2>2. /\ page'[c] = page[c] /\ page[c] \notin {"idle", "paying", "waiting"}
        /\ tx'[c] = tx[c] /\ tx[c] = "succeeded"
    BY <1>1, <2>1 DEF CallInv, CallOK
  <2>3. k.completed \subseteq 1..k.step
    BY SMTT(30), <1>2, <1>3, <2>1 DEF CallInv, CallOK, Onward, Stuck, AllSteps
  <2>4. /\ k.phase = "running" => k.step \notin k.completed
        /\ k.phase \in {"running", "answered"}
        /\ k.status # 0 => k.phase = "answered"
    BY SMTT(30), <1>1, <1>2, <1>3, <2>1 DEF CallInv, CallOK, Onward, Stuck, AllSteps
  <2>5. \A i \in AllSteps :
          effect'[c][i] = unheard'[c][i] + IF i \in k.completed THEN 1 ELSE 0
    <3>1. \A i \in AllSteps :
            effect'[c][i] \in Nat /\ effect[c][i] \in Nat /\ unheard[c][i] \in Nat
      BY <1>4, <2>1, CallState DEF CallInv, CallOK
    <3>2. \A i \in AllSteps :
            effect[c][i] = unheard[c][i] + IF i \in k.completed THEN 1 ELSE 0
      BY <1>3, <2>1 DEF CallInv, CallOK
    <3> HIDE DEF k
    <3>3. ASSUME NEW i \in AllSteps
          PROVE  effect'[c][i] = unheard'[c][i] + IF i \in k.completed THEN 1 ELSE 0
      <4>1. unheard'[c][i] = unheard[c][i] + (effect'[c][i] - effect[c][i])
        BY <1>5
      <4>2. CASE i \in k.completed
        BY <3>1, <3>2, <4>1, <4>2
      <4>3. CASE i \notin k.completed
        BY <3>1, <3>2, <4>1, <4>3
      <4> QED
        BY <4>2, <4>3
    <3> QED
      BY <3>3
  <2>6. \A i \in Steps :
          (k.step > i \/ k.status = 200) /\ setup.plan[i].required
              => i \in k.completed
    <3>1. \A i \in Steps : h.step > i /\ setup.plan[i].required => i \in h.completed
      BY <2>1 DEF CallInv, CallOK
    <3>2. h.step \in Steps /\ TypeOK
      BY <1>2 DEF Placed, ServiceInv
    <3> HIDE DEF h, k
    <3> QED
      BY <1>3, <2>1, <3>1, <3>2, PassedAreCompleted
  <2>7. effect'[c] \in [AllSteps -> Nat] /\ unheard'[c] \in [AllSteps -> Nat]
    BY <1>4, <1>5
  <2> HIDE DEF h, k
  <2>8. CallOK(k, page'[c], tx'[c], effect'[c], unheard'[c], PassedOf(c))
    BY <1>3, <2>1, <2>2, <2>3, <2>4, <2>5, <2>6, <2>7 DEF CallInv, CallOK, Before
  <2> QED
    BY <1>1, <1>6, <2>8 DEF CallInv, CallOK, Placed, Steps, k
<1> QED
  BY <1>1, <1>3, <1>4, <1>7, CallState DEF StepDone, Others, CallTyped

-----------------------------------------------------------------------------
(* All calls, their passings and the windows *)

LEMMA CallSteps ==
    ASSUME ServiceInv, Noted, NEW c \in Calls, CallStep(c)
    PROVE  StepDone(c) /\ setup' = setup /\ clock' = clock
<1>1. StepDone(c)
  BY PageSteps, PhaseSteps, RejectStep, EnterStep, WorksStep, FailsStep
    DEF CallStep, Paying, Serving
<1>2. setup' = setup /\ clock' = clock
  BY DEF CallStep, Paying, Serving, Ask, Pay, Executes, Present, Verify, Enter,
         Works, Fails, Shown, GiveUp, Break, Reject, Unchanged
<1> QED
  BY <1>1, <1>2

(* One passes at a time. *)
LEMMA OnePasses ==
    ASSUME TypeOK, Noted, NEW c \in Calls, Passing(c)
    PROVE  passed' = passed \cup {<<c, clock>>}
<1>1. \A d \in Calls : Passing(d) => d = c
  <2> SUFFICES ASSUME NEW d \in Calls, Passing(d), d # c PROVE FALSE
    OBVIOUS
  <2>1. handler[d].phase = "verified" /\ handler'[d].phase \in {"running", "answered"}
    BY EntersOnce DEF Passing
  <2>2. handler'[d] = handler[d]
    BY EntersOnce DEF Passing
  <2> QED
    BY <2>1, <2>2
<1> QED
  BY <1>1 DEF Noted

LEMMA NonePasses ==
    ASSUME Noted, \A d \in Calls : ~Passing(d)
    PROVE  passed' = passed
BY DEF Noted

(* What becomes of the windows and of the passings: a request passes or is *)
(* refused, the windows that are over are removed, time passes, or neither *)
(* changes.                                                                *)
Admitted(c) ==
    /\ Passes(setup.source[c]) /\ Counted(setup.source[c])
    /\ passed' = passed \cup {<<c, clock>>}
    /\ clock' = clock

TurnedAway(c) ==
    /\ ~Passes(setup.source[c]) /\ Refused(setup.source[c])
    /\ passed' = passed /\ clock' = clock

Swept ==
    /\ windows' = [s \in {t \in DOMAIN windows : Kept(t)} |-> windows[s]]
    /\ passed' = passed /\ clock' = clock

Later ==
    /\ clock < MaxTime /\ clock' = clock + 1
    /\ passed' = passed /\ windows' = windows

NothingNew == passed' = passed /\ windows' = windows /\ clock' = clock

LEMMA LimiterSteps ==
    ASSUME ServiceInv, Next, Noted
    PROVE  /\ setup' = setup
           /\ \/ \E c \in Calls : Admitted(c) \/ TurnedAway(c)
              \/ Swept \/ Later \/ NothingNew
<1>1. ASSUME handler' = handler PROVE passed' = passed
  <2>1. \A d \in Calls : ~Passing(d)
    BY <1>1, EntersOnce DEF Passing, ServiceInv
  <2> QED
    BY <2>1, NonePasses
<1>2. CASE Cleanup
  BY <1>1, <1>2 DEF Cleanup, Swept
<1>3. CASE Tick
  BY <1>1, <1>3 DEF Tick, Later
<1>4. ASSUME NEW c \in Calls, CallStep(c)
      PROVE  setup' = setup /\ (Admitted(c) \/ TurnedAway(c) \/ NothingNew)
  <2>1. setup' = setup /\ clock' = clock
    BY <1>4, CallSteps
  <2>2. CASE Passing(c)
    <3>1. passed' = passed \cup {<<c, clock>>}
      BY <2>2, OnePasses DEF ServiceInv
    <3>2. Enter(c) /\ handler'[c].status # 429
      BY <2>2 DEF Passing
    <3>3. ~Answer(c, 429)
      <4>1. Answer(c, 429) => handler'[c].status = 429
        <5> DEFINE n == 429
        <5>1. n \in {200, 400, 402, 429, 502}
          OBVIOUS
        <5> HIDE DEF n
        <5>2. Answer(c, n) => handler'[c].status = n
          BY <5>1, AnswerIs, AnsweredWith, CallState
        <5> QED
          BY <5>2 DEF n
      <4> QED
        BY <3>2, <4>1
    <3>4. Passes(setup.source[c]) /\ Counted(setup.source[c])
      BY <3>2, <3>3 DEF Enter
    <3> QED
      BY <2>1, <3>1, <3>4 DEF Admitted
  <2>3. CASE ~Passing(c)
    <3>1. \A d \in Calls : ~Passing(d)
      <4> SUFFICES ASSUME NEW d \in Calls, Passing(d), d # c PROVE FALSE
        BY <2>3
      <4>1. handler[d].phase = "verified" /\ handler'[d].phase \in {"running", "answered"}
        BY EntersOnce DEF Passing, ServiceInv
      <4>2. handler'[d] = handler[d]
        BY <1>4, CallSteps DEF StepDone, Others
      <4> QED
        BY <4>1, <4>2
    <3>2. passed' = passed
      BY <3>1, NonePasses
    <3>3. TurnedAway(c) \/ windows' = windows
      <4>1. Enter(c) => TurnedAway(c)
        <5>1. Enter(c) => handler'[c].status = 429
          BY <2>3 DEF Passing
        <5>2. SUFFICES ASSUME Enter(c), Counted(setup.source[c]),
                              \/ handler' = [handler EXCEPT ![c].phase = "running"]
                              \/ Answer(c, 400)
                       PROVE  FALSE
          BY <2>1, <3>2 DEF Enter, TurnedAway
        <5>3. CASE handler' = [handler EXCEPT ![c].phase = "running"]
          <6>1. handler'[c].status = handler[c].status
            BY <5>3, PhaseIs, CallState
          <6>2. handler[c].status = 0
            BY <5>2, CallState DEF Enter, CallInv, CallOK
          <6> QED
            BY <5>1, <5>2, <6>1, <6>2
        <5>4. CASE Answer(c, 400)
          <6> DEFINE n == 400
          <6>1. n \in {200, 400, 402, 429, 502} /\ n # 429
            OBVIOUS
          <6>2. Answer(c, n)
            BY <5>4
          <6> HIDE DEF n
          <6>3. handler'[c].status = n
            BY <6>1, <6>2, AnswerIs, AnsweredWith, CallState
          <6> QED
            BY <5>1, <5>2, <6>1, <6>3
        <5> QED
          BY <5>2, <5>3, <5>4
      <4>2. ~Enter(c) => windows' = windows
        BY <1>4 DEF CallStep, Paying, Serving, Ask, Pay, Executes, Present, Verify,
              Works, Fails, Shown, GiveUp, Break, Reject, Unchanged
      <4> QED
        BY <4>1, <4>2
    <3> QED
      BY <2>1, <3>2, <3>3 DEF NothingNew
  <2> QED
    BY <2>2, <2>3
<1>5. (Cleanup \/ Tick) => setup' = setup
  BY DEF Cleanup, Tick
<1> QED
  BY <1>2, <1>3, <1>4, <1>5 DEF Next, CallStep

LEMMA InitTyped ==
    ASSUME ServiceAssumption, Init
    PROVE  TypeOK
<1>1. [phase |-> "none", step |-> 1, attempt |-> 1, completed |-> {},
       status |-> 0] \in Handler
  BY DEF Handler, AllSteps
<1>2. handler \in [Calls -> Handler]
  BY <1>1 DEF Init
<1>3. clock \in 0..MaxTime
  BY Bounds DEF Init
<1> QED
  BY <1>2, <1>3 DEF Init, TypeOK, Setups

LEMMA InitService ==
    ASSUME ServiceAssumption, DeployedInit
    PROVE  ServiceInv /\ LimitInv
<1>1. /\ page = [c \in Calls |-> "idle"] /\ tx = [c \in Calls |-> "none"]
      /\ handler = [c \in Calls |->
           [phase |-> "none", step |-> 1, attempt |-> 1, completed |-> {},
            status |-> 0]]
      /\ effect = [c \in Calls |-> [i \in AllSteps |-> 0]]
      /\ windows = [s \in {} |-> 0]
      /\ clock = 0 /\ passed = {}
      /\ setup \in Setups
      /\ unheard = [c \in Calls |-> [i \in AllSteps |-> 0]]
  BY DEF DeployedInit, Init
<1> DEFINE h == [phase |-> "none", step |-> 1, attempt |-> 1, completed |-> {},
                 status |-> 0]
<1>2. h \in Handler
  BY DEF Handler, AllSteps
<1>3. /\ h.phase = "none" /\ h.step = 1 /\ h.attempt = 1 /\ h.completed = {}
      /\ h.status = 0
  OBVIOUS
<1>4. \A c \in Calls : handler[c] = h
  BY <1>1
<1> HIDE DEF h
<1>5. TypeOK
  BY InitTyped DEF DeployedInit
<1>6. Placed(h)
  <2>1. 1 \in Steps /\ setup.plan[1].tries \in 1..3
    BY <1>5, Plans
  <2> QED
    BY <1>2, <1>3, <2>1 DEF Placed
<1>7. ASSUME NEW c \in Calls PROVE CallInv(c)
  <2>1. PassedOf(c) = {}
    BY <1>1 DEF PassedOf
  <2>2. CallOK(h, page[c], tx[c], effect[c], unheard[c], {})
    <3>1. \A i \in Steps : ~(h.step > i) /\ h.status # 200
      BY <1>3, <1>5, Plans
    <3> QED
      BY <1>1, <1>3, <1>6, <3>1 DEF CallOK
  <2> QED
    BY <1>4, <2>1, <2>2 DEF CallInv
<1>8. ServiceInv
  BY <1>1, <1>5, <1>7, FS_EmptySet DEF ServiceInv
<1>9. LimitInv
  <2> SUFFICES ASSUME NEW s \in Sources
               PROVE  CountsNothing({}, clock, Most) /\ Limited({}, Most)
    BY <1>1 DEF LimitInv, From
  <2>1. /\ Recent({}, clock) = {}
        /\ \A t \in Nat : During({}, t) = {}
    BY DEF Recent, During
  <2> QED
    BY <1>5, <2>1, FS_EmptySet, MostIs DEF CountsNothing, Limited
<1> QED
  BY <1>8, <1>9

(* The windows count what passes, and so no more passes than they allow.   *)
LEMMA NextLimit ==
    ASSUME ServiceAssumption, ServiceInv, LimitInv, Next, Noted
    PROVE  /\ LimitInv'
           /\ passed' \subseteq Calls \X (0..clock') /\ IsFiniteSet(passed')
           /\ \A s \in DOMAIN windows' :
                windows'[s] \in [count : 0..Most', start : 0..clock']
           /\ DOMAIN windows' \subseteq Sources
           /\ clock' \in 0..MaxTime
<1>1. /\ clock \in Nat /\ clock \in 0..MaxTime /\ DOMAIN windows \subseteq Sources
      /\ \A s \in DOMAIN windows : windows[s] \in WindowOf(clock, Most)
      /\ \A c \in Calls : setup.source[c] \in Sources
      /\ passed \subseteq Calls \X (0..clock) /\ IsFiniteSet(passed)
      /\ Most \in Nat \ {0} /\ setup.limit \in Nat
      /\ setup.limit > 0 => Most = setup.limit
  BY Bounds, MostIs DEF ServiceInv, TypeOK, WindowOf, Setups
<1>2. \A s : From(s) \in Passings /\ IsFiniteSet(From(s))
  <2>1. passed \in Passings
    BY <1>1 DEF Passings
  <2>2. \A s : From(s) \subseteq passed
    BY DEF From
  <2> QED
    BY <1>1, <2>1, <2>2, FS_Subset DEF Passings
<1>3. setup' = setup
  BY LimiterSteps
<1>4. ASSUME NEW c \in Calls, Admitted(c) \/ TurnedAway(c)
      PROVE  /\ LimitInv'
             /\ passed' \subseteq Calls \X (0..clock') /\ IsFiniteSet(passed')
             /\ \A s \in DOMAIN windows' : windows'[s] \in WindowOf(clock', Most)
             /\ DOMAIN windows' \subseteq Sources
             /\ clock' \in 0..MaxTime
  <2> DEFINE z == setup.source[c]
             w == Entry(z)
             n == <<c, clock>>
  <2>1. /\ z \in Sources /\ clock' = clock
        /\ w \in WindowOf(clock, Most)
        /\ Tallied(From(z), w) \/ (z \notin DOMAIN windows /\ CountsNothing(From(z), clock, Most))
        /\ Counts(From(z), w, Most) /\ Limited(From(z), Most)
        /\ w.count = 0 => w.start = clock \/ setup.limit = 0
    <3>0. z \in Sources /\ clock' = clock
      BY <1>1, <1>4 DEF Admitted, TurnedAway
    <3>1. CASE z \in DOMAIN windows
      BY <1>1, <3>0, <3>1 DEF LimitInv, Entry, Tallied
    <3>2. CASE z \notin DOMAIN windows
      <4>1. w.start = clock /\ w.count = 0 /\ w \in WindowOf(clock, Most)
        BY <1>1, <3>2 DEF Entry, WindowOf
      <4>2. CountsNothing(From(z), clock, Most) /\ Limited(From(z), Most)
        BY <3>0, <3>2 DEF LimitInv
      <4> HIDE DEF w
      <4>3. Counts(From(z), w, Most)
        BY <1>1, <1>2, <4>1, <4>2, WindowMade
      <4> QED
        BY <3>0, <3>2, <4>1, <4>2, <4>3
    <3> QED
      BY <3>1, <3>2
  <2>2. PICK entry \in WindowOf(clock, Most), new \in SUBSET {n} :
          /\ windows' = [t \in DOMAIN windows \cup {z} |->
                           IF t = z THEN entry ELSE windows[t]]
          /\ passed' = passed \cup new
          /\ Tallied(From(z) \cup new, entry) /\ Limited(From(z) \cup new, Most)
    <3>1. CASE Admitted(c) /\ Over(z)
      <4> DEFINE entry == [count |-> 1, start |-> clock]
      <4>1. /\ windows' = [t \in DOMAIN windows \cup {z} |->
                             IF t = z THEN entry ELSE windows[t]]
            /\ passed' = passed \cup {n}
        BY <3>1 DEF Admitted, Counted, Stored
      <4>2. entry \in WindowOf(clock, Most) /\ entry.start = clock /\ entry.count = 1
        BY <1>1, Bounds DEF WindowOf
      <4>3. clock > w.start + Window
        BY <1>1, <2>1, <3>1, Bounds DEF Over, WindowOf
      <4> HIDE DEF entry, w
      <4>4. CountsNothing(From(z), clock, Most)
        BY <1>1, <1>2, <2>1, <4>3, WindowOver
      <4>5. Counts(From(z) \cup {n}, entry, Most) /\ Limited(From(z) \cup {n}, Most)
        BY <1>1, <1>2, <2>1, <4>2, <4>4, PassingRenews
      <4>6. Tallied(From(z) \cup {n}, entry)
        BY <4>2, <4>5 DEF Tallied
      <4> QED
        BY <4>1, <4>2, <4>5, <4>6
    <3>2. CASE Admitted(c) /\ ~Over(z)
      <4> DEFINE entry == [w EXCEPT !.count = @ + 1]
      <4>1. /\ windows' = [t \in DOMAIN windows \cup {z} |->
                             IF t = z THEN entry ELSE windows[t]]
            /\ passed' = passed \cup {n}
        BY <3>2 DEF Admitted, Counted, Stored
      <4>2. w.count < setup.limit
        BY <3>2 DEF Admitted, Passes, Within
      <4>3. w.count \in Nat /\ Most = setup.limit
        BY <1>1, <2>1, <4>2 DEF WindowOf
      <4>4. /\ clock <= w.start + Window /\ w.count < Most
            /\ w.count = 0 => w.start = clock
        BY <1>1, <2>1, <3>2, <4>2, <4>3, Bounds DEF Over, WindowOf
      <4>5. /\ entry \in WindowOf(clock, Most) /\ entry.start = w.start
            /\ entry.count = w.count + 1
        BY <1>1, <2>1, <4>3, <4>4, Bounds DEF WindowOf
      <4> HIDE DEF entry, w
      <4>6. Counts(From(z) \cup {n}, entry, Most) /\ Limited(From(z) \cup {n}, Most)
        BY <1>1, <1>2, <2>1, <4>4, <4>5, PassingCounted
      <4>7. entry.count # 0
        BY <4>3, <4>5
      <4> QED
        BY <4>1, <4>5, <4>6, <4>7 DEF Tallied
    <3>3. CASE TurnedAway(c)
      <4>1. /\ windows' = [t \in DOMAIN windows \cup {z} |->
                             IF t = z THEN w ELSE windows[t]]
            /\ passed' = passed \cup {}
        BY <3>3 DEF TurnedAway, Refused, Stored
      <4>2. w.count = 0 => setup.limit = 0
        BY <1>1, <3>3 DEF TurnedAway, Passes, Within
      <4>3. From(z) \cup {} = From(z)
        OBVIOUS
      <4> HIDE DEF w
      <4> QED
        BY <2>1, <4>1, <4>2, <4>3 DEF Tallied
    <3> QED
      BY <1>4, <3>1, <3>2, <3>3
  <2>3. /\ From(z)' = From(z) \cup new
        /\ \A s : s # z => From(s)' = From(s)
    BY <1>3, <2>2 DEF From
  <2>4. /\ DOMAIN windows' = DOMAIN windows \cup {z} /\ windows'[z] = entry
        /\ \A t \in DOMAIN windows : t # z => windows'[t] = windows[t]
    BY <2>2
  <2>5. \A s \in DOMAIN windows' : windows'[s] \in WindowOf(clock', Most)
    BY <1>1, <2>1, <2>2, <2>4
  <2>6. passed' \subseteq Calls \X (0..clock') /\ IsFiniteSet(passed')
    <3>1. new \subseteq Calls \X (0..clock)
      BY <1>1
    <3>2. IsFiniteSet(passed \cup new)
      <4>1. CASE new = {}
        <5>1. passed \cup new = passed
          BY <4>1
        <5> QED
          BY <1>1, <5>1
      <4>2. CASE new = {n}
        <5>1. IsFiniteSet(passed \cup {n})
          BY <1>1, OneMore
        <5> QED
          BY <4>2, <5>1
      <4> QED
        BY <4>1, <4>2
    <3>3. passed \cup new \subseteq Calls \X (0..clock)
      BY <1>1, <3>1
    <3> QED
      BY <2>1, <2>2, <3>2, <3>3
  <2>7. LimitInv'
    <3> SUFFICES ASSUME NEW s \in Sources
                 PROVE  /\ IF s \in DOMAIN windows' THEN Tallied(From(s)', windows'[s])
                           ELSE CountsNothing(From(s)', clock', Most)
                        /\ Limited(From(s)', Most)
      BY <1>3 DEF LimitInv, Tallied, Most
    <3>1. CASE s = z
      <4>1. From(s)' = From(z) \cup new
        BY <1>3, <2>2, <3>1 DEF From
      <4>2. s \in DOMAIN windows' /\ windows'[s] = entry
        BY <2>4, <3>1
      <4> QED
        BY <2>2, <4>1, <4>2
    <3>2. CASE s # z
      BY <2>1, <2>3, <2>4, <3>2 DEF LimitInv
    <3> QED
      BY <3>1, <3>2
  <2> QED
    BY <1>1, <2>1, <2>4, <2>5, <2>6, <2>7
<1>5. ASSUME Swept
      PROVE  /\ LimitInv'
             /\ \A s \in DOMAIN windows' : windows'[s] \in WindowOf(clock', Most)
             /\ DOMAIN windows' \subseteq Sources
  <2>1. /\ passed' = passed /\ clock' = clock
        /\ DOMAIN windows' = {t \in DOMAIN windows : Kept(t)}
        /\ \A t \in DOMAIN windows' : windows'[t] = windows[t]
    BY <1>5 DEF Swept
  <2>2. \A s : From(s)' = From(s)
    BY <1>3, <2>1 DEF From
  <2>3. ASSUME NEW s \in DOMAIN windows, s \notin DOMAIN windows'
        PROVE  CountsNothing(From(s), clock, Most)
    <3>1. windows[s] \in WindowOf(clock, Most) /\ Counts(From(s), windows[s], Most)
      BY <1>1 DEF LimitInv, Tallied
    <3>2. ~(clock - windows[s].start <= Window)
      BY <2>1, <2>3 DEF Kept
    <3>3. clock > windows[s].start + Window
      BY <1>1, <3>1, <3>2, Bounds DEF WindowOf
    <3> QED
      BY <1>1, <1>2, <3>1, <3>3, WindowOver
  <2>4. LimitInv'
    <3> SUFFICES ASSUME NEW s \in Sources
                 PROVE  /\ IF s \in DOMAIN windows' THEN Tallied(From(s)', windows'[s])
                           ELSE CountsNothing(From(s)', clock', Most)
                        /\ Limited(From(s)', Most)
      BY <1>3 DEF LimitInv, Tallied, Most
    <3> QED
      BY <2>1, <2>2, <2>3 DEF LimitInv
  <2> QED
    BY <1>1, <2>1, <2>4
<1>6. ASSUME Later
      PROVE  /\ LimitInv' /\ clock' \in 0..MaxTime
             /\ \A s \in DOMAIN windows' : windows'[s] \in WindowOf(clock', Most)
             /\ passed' \subseteq Calls \X (0..clock')
  <2>1. /\ passed' = passed /\ clock' = clock + 1 /\ windows' = windows
        /\ clock < MaxTime
    BY <1>6 DEF Later
  <2>2. \A s : From(s)' = From(s)
    BY <1>3, <2>1 DEF From
  <2>3. clock' \in 0..MaxTime /\ 0..clock \subseteq 0..clock'
    BY <1>1, <2>1, Bounds
  <2>4. \A s \in DOMAIN windows' : windows'[s] \in WindowOf(clock', Most)
    BY <1>1, <2>1, <2>3 DEF WindowOf
  <2>5. LimitInv'
    <3> SUFFICES ASSUME NEW s \in Sources
                 PROVE  /\ IF s \in DOMAIN windows' THEN Tallied(From(s)', windows'[s])
                           ELSE CountsNothing(From(s)', clock', Most)
                        /\ Limited(From(s)', Most)
      BY <1>3 DEF LimitInv, Tallied, Most
    <3> QED
      BY <1>1, <1>2, <2>1, <2>2, TimePasses DEF LimitInv
  <2> QED
    BY <1>1, <2>1, <2>3, <2>4, <2>5
<1>7. ASSUME NothingNew
      PROVE  LimitInv'
  <2>1. windows' = windows /\ clock' = clock /\ \A s : From(s)' = From(s)
    BY <1>3, <1>7 DEF NothingNew, From
  <2> SUFFICES ASSUME NEW s \in Sources
               PROVE  /\ IF s \in DOMAIN windows' THEN Tallied(From(s)', windows'[s])
                         ELSE CountsNothing(From(s)', clock', Most)
                      /\ Limited(From(s)', Most)
    BY <1>3 DEF LimitInv, Tallied, Most
  <2> QED
    BY <2>1 DEF LimitInv
<1>12. Most' = Most
  BY <1>3 DEF Most
<1>8. CASE \E c \in Calls : Admitted(c) \/ TurnedAway(c)
  BY <1>4, <1>8, <1>12 DEF WindowOf
<1>9. CASE Swept
  BY <1>1, <1>5, <1>9, <1>12 DEF WindowOf, Swept
<1>10. CASE Later
  BY <1>1, <1>6, <1>10, <1>12 DEF WindowOf, Later
<1>11. CASE NothingNew
  BY <1>1, <1>7, <1>11, <1>12 DEF WindowOf, NothingNew
<1> QED
  BY <1>8, <1>9, <1>10, <1>11, LimiterSteps

LEMMA NextService ==
    ASSUME ServiceAssumption, ServiceInv, LimitInv, Next, Noted
    PROVE  ServiceInv' /\ LimitInv'
<1>1. /\ LimitInv' /\ setup' = setup
      /\ passed' \subseteq Calls \X (0..clock') /\ IsFiniteSet(passed')
      /\ \A s \in DOMAIN windows' :
           windows'[s] \in [count : 0..Most', start : 0..clock']
      /\ DOMAIN windows' \subseteq Sources
      /\ clock' \in 0..MaxTime
  BY NextLimit, LimiterSteps
<1>2. CallTyped /\ \A d \in Calls : CallInv(d)'
  <2>1. ASSUME NEW c \in Calls, CallStep(c)
        PROVE  CallTyped /\ \A d \in Calls : CallInv(d)'
    <3>1. StepDone(c)
      BY <2>1, CallSteps
    <3>2. \A d \in Calls \ {c} : CallInv(d)'
      BY <1>1, <3>1, SameIsOK DEF StepDone, Others, Same
    <3> QED
      BY <3>1, <3>2 DEF StepDone
  <2>2. CASE Cleanup \/ Tick
    <3>1. UNCHANGED <<page, tx, handler, effect>>
      BY <2>2 DEF Cleanup, Tick
    <3>2. CallTyped
      BY <3>1 DEF CallTyped, ServiceInv, TypeOK
    <3>3. \A d \in Calls : CallInv(d)'
      BY <1>1, <3>1, SameIsOK DEF Same
    <3> QED
      BY <3>2, <3>3
  <2> QED
    BY <2>1, <2>2 DEF Next, CallStep
<1>3. TypeOK'
  <2>1. setup' \in Setups
    BY <1>1 DEF ServiceInv, TypeOK
  <2> QED
    BY <1>1, <1>2, <2>1 DEF TypeOK, CallTyped
<1> QED
  BY <1>1, <1>2, <1>3 DEF ServiceInv

LEMMA NothingHappens ==
    ASSUME ServiceInv, LimitInv,
           UNCHANGED <<page, tx, handler, effect, windows, clock, setup,
                       passed, unheard>>
    PROVE  ServiceInv' /\ LimitInv'
<1>1. TypeOK'
  BY DEF ServiceInv, TypeOK, Most
<1>2. \A c \in Calls : CallInv(c)'
  BY DEF ServiceInv, CallInv, CallOK, PassedOf, Placed, Steps
<1>3. LimitInv'
  BY DEF LimitInv, From, Tallied, Most
<1> QED
  BY <1>1, <1>2, <1>3 DEF ServiceInv

LEMMA ServiceStep ==
    ASSUME ServiceAssumption, ServiceInv, LimitInv, [DeployedNext]_DeployedVars
    PROVE  ServiceInv' /\ LimitInv'
<1>1. CASE UNCHANGED DeployedVars
  BY <1>1, NothingHappens DEF DeployedVars, vars
<1>2. CASE DeployedNext
  BY <1>2, NextService DEF DeployedNext, Rest
<1> QED
  BY <1>1, <1>2

LEMMA ServiceIsInvariant ==
    ASSUME ServiceAssumption
    PROVE  DeployedSpec => [](ServiceInv /\ LimitInv)
<1>1. DeployedInit => ServiceInv /\ LimitInv
  BY InitService
<1>2. ServiceInv /\ LimitInv /\ [DeployedNext]_DeployedVars => (ServiceInv /\ LimitInv)'
  BY ServiceStep
<1> QED
  BY <1>1, <1>2, PTL DEF DeployedSpec

LEMMA InvIsLimit ==
    ASSUME ServiceAssumption, ServiceInv, LimitInv
    PROVE  PassedIsPaid /\ LimitHolds
<1>1. PassedIsPaid
  <2>1. \A p \in passed : p[1] \in Calls /\ p \in PassedOf(p[1])
    BY DEF ServiceInv, PassedOf
  <2>2. \A c \in Calls : CallInv(c)
    BY DEF ServiceInv
  <2>3. \A p \in passed : tx[p[1]] = "succeeded"
    BY <2>1, <2>2 DEF CallInv, CallOK
  <2>4. \A p, q \in passed : p[1] = q[1] => p = q
    BY <2>1, <2>2 DEF CallInv, CallOK
  <2>5. ASSUME NEW c \in Calls, NEW i \in AllSteps, effect[c][i] > 0
        PROVE  \E p \in passed : p[1] = c
    <3>1. PassedOf(c) # {}
      BY <2>2, <2>5 DEF CallInv, CallOK
    <3> QED
      BY <3>1 DEF PassedOf
  <2> QED
    BY <2>3, <2>4, <2>5 DEF PassedIsPaid
<1>2. LimitHolds
  <2> SUFFICES ASSUME NEW s \in Sources, NEW t \in 0..MaxTime
               PROVE  Cardinality(PassedWithin(s, t)) <= 2 * Most - 1
    BY DEF LimitHolds
  <2>1. PassedWithin(s, t) = During(From(s), t)
    BY DEF PassedWithin, During, From
  <2>2. t \in Nat
    BY Bounds
  <2> QED
    BY <2>1, <2>2 DEF LimitInv, Limited
<1> QED
  BY <1>1, <1>2

LEMMA InvIsDone ==
    ASSUME ServiceInv
    PROVE  TypeOK /\ CompletedIsDone /\ NothingInVain
<1>1. TypeOK /\ \A c \in Calls : CallInv(c)
  BY DEF ServiceInv
<1>2. CompletedIsDone
  BY <1>1 DEF CallInv, CallOK, CompletedIsDone
<1>3. NothingInVain
  BY <1>1 DEF CallInv, CallOK, NothingInVain
<1> QED
  BY <1>1, <1>2, <1>3

-----------------------------------------------------------------------------
(* The theorems *)

(* Whatever calls overlap and windows are removed, nothing is done for a   *)
(* call that was not paid for, no payment passes the limiter twice, and    *)
(* within the length of a window no more passes of a source than two       *)
(* windows that meet let pass: the window that a request is in counts all  *)
(* since its start, and what was before it lately was of one window, too,  *)
(* and not that window's first.  With a limit of 0 that is one request.    *)
THEOREM TheLimitHolds ==
    ASSUME ServiceAssumption
    PROVE  DeployedSpec => [](PassedIsPaid /\ LimitHolds)
<1>1. ServiceInv /\ LimitInv => PassedIsPaid /\ LimitHolds
  BY InvIsLimit
<1> QED
  BY <1>1, ServiceIsInvariant, PTL

(* Whatever services fail or are not heard, however often they are asked   *)
(* again and wherever connections break, the server counts as completed    *)
(* what was done once for a call, all but what it was not told of, and has *)
(* the result of each required step before it goes on or answers.          *)
THEOREM CompletedAreDone ==
    ASSUME ServiceAssumption
    PROVE  DeployedSpec => [](TypeOK /\ CompletedIsDone /\ NothingInVain)
<1>1. ServiceInv => TypeOK /\ CompletedIsDone /\ NothingInVain
  BY InvIsDone
<1> QED
  BY <1>1, ServiceIsInvariant, PTL

=============================================================================
