------------------------- MODULE LicenseTableProofs -------------------------
(***************************************************************************)
(* Lemmas about LicenseTable, for every table: what each builder leaves in *)
(* each row, and what the carry-over of a term's products does.            *)
(***************************************************************************)
EXTENDS LicenseTable, FiniteSetTheorems, TLAPS

-----------------------------------------------------------------------------
(* The builders, field by field.                                           *)

LEMMA BlankRow == Blank \in Row
BY TableConstants DEF Blank, Row, States, Reasons, Time, Ends

LEMMA OpenEndedRow ==
  ASSUME NEW p \in Products \cup {NoProd}
  PROVE  /\ OpenEnded(p) \in Row
         /\ OpenEnded(p).state = "live" /\ OpenEnded(p).reason = "none"
         /\ OpenEnded(p).at = 0 /\ ~OpenEnded(p).release
BY BlankRow DEF OpenEnded, Blank, Row, Ends, States

LEMMA GrantedRows ==
  ASSUME NEW t \in Table, NEW G \in SUBSET Ids, NEW e \in Time
  PROVE  /\ Granted(t, G, e) \in Table
         /\ \A k \in Ids : k \notin G => Granted(t, G, e)[k] = t[k]
         /\ \A k \in G : /\ Granted(t, G, e)[k].prod = NoProd
                        /\ Granted(t, G, e)[k].release = FALSE
BY BlankRow DEF Granted, Table, Row, Ends, Blank, States

LEMMA GrantedLive ==
  ASSUME NEW t \in Table, NEW G \in SUBSET Ids, NEW e \in Time,
         NEW k \in Ids
  PROVE  /\ Granted(t, G, e)[k].state = IF k \in G THEN "live" ELSE t[k].state
         /\ Granted(t, G, e)[k].reason = IF k \in G THEN "none" ELSE t[k].reason
BY BlankRow DEF Granted, Table, Row, Ends, Blank, States

LEMMA AssignedRows ==
  ASSUME NEW t \in Table, NEW l \in Ids, NEW p \in Products \cup {NoProd},
         NEW at \in Time
  PROVE  /\ Assigned(t, l, p, at) \in Table
         /\ \A k \in Ids : k # l => Assigned(t, l, p, at)[k] = t[k]
         /\ Assigned(t, l, p, at)[l].state = t[l].state
         /\ Assigned(t, l, p, at)[l].reason = t[l].reason
         /\ Assigned(t, l, p, at)[l].ends = t[l].ends
         /\ Assigned(t, l, p, at)[l].prod = p
         /\ Assigned(t, l, p, at)[l].at = at
         /\ Assigned(t, l, p, at)[l].release = t[l].release
BY DEF Assigned, Table, Row

LEMMA UnassignedRows ==
  ASSUME NEW t \in Table, NEW l \in Ids
  PROVE  /\ Unassigned(t, l) \in Table
         /\ \A k \in Ids : k # l => Unassigned(t, l)[k] = t[k]
         /\ Unassigned(t, l)[l].state = t[l].state
         /\ Unassigned(t, l)[l].reason = t[l].reason
         /\ Unassigned(t, l)[l].ends = t[l].ends
         /\ Unassigned(t, l)[l].prod = NoProd
         /\ Unassigned(t, l)[l].at = 0
         /\ Unassigned(t, l)[l].release = FALSE
<1>1. 0 \in Time
  BY TableConstants DEF Time
<1> QED
  BY <1>1 DEF Unassigned, Table, Row

LEMMA FlaggedRows ==
  ASSUME NEW t \in Table, NEW l \in Ids, NEW b \in BOOLEAN
  PROVE  /\ Flagged(t, l, b) \in Table
         /\ \A k \in Ids : k # l => Flagged(t, l, b)[k] = t[k]
         /\ Flagged(t, l, b)[l].state = t[l].state
         /\ Flagged(t, l, b)[l].reason = t[l].reason
         /\ Flagged(t, l, b)[l].ends = t[l].ends
         /\ Flagged(t, l, b)[l].prod = t[l].prod
         /\ Flagged(t, l, b)[l].at = t[l].at
         /\ Flagged(t, l, b)[l].release = b
BY DEF Flagged, Table, Row

LEMMA ExtendedRows ==
  ASSUME NEW t \in Table, NEW l \in Ids, NEW e \in Time
  PROVE  /\ Extended(t, l, e) \in Table
         /\ \A k \in Ids : k # l => Extended(t, l, e)[k] = t[k]
         /\ Extended(t, l, e)[l].state = t[l].state
         /\ Extended(t, l, e)[l].reason = t[l].reason
         /\ Extended(t, l, e)[l].ends = e
         /\ Extended(t, l, e)[l].prod = t[l].prod
         /\ Extended(t, l, e)[l].at = t[l].at
         /\ Extended(t, l, e)[l].release = t[l].release
BY DEF Extended, Table, Row, Ends

LEMMA EndedRows ==
  ASSUME NEW t \in Table, NEW S \in SUBSET Ids, NEW why \in Reasons
  PROVE  /\ Ended(t, S, why) \in Table
         /\ \A k \in Ids :
              /\ k \notin S => Ended(t, S, why)[k] = t[k]
              /\ Ended(t, S, why)[k].state =
                   IF k \in S THEN "ended" ELSE t[k].state
              /\ Ended(t, S, why)[k].reason =
                   IF k \in S THEN why ELSE t[k].reason
              /\ Ended(t, S, why)[k].ends = t[k].ends
              /\ Ended(t, S, why)[k].prod = t[k].prod
              /\ Ended(t, S, why)[k].at = t[k].at
              /\ Ended(t, S, why)[k].release = t[k].release
BY DEF Ended, Table, Row, States

LEMMA LapsedEndRows ==
  ASSUME NEW t \in Table, NEW S \in SUBSET Ids
  PROVE  /\ Ended(t, S, "lapsed") \in Table
         /\ \A k \in Ids :
              /\ k \notin S => Ended(t, S, "lapsed")[k] = t[k]
              /\ Ended(t, S, "lapsed")[k].state =
                   IF k \in S THEN "ended" ELSE t[k].state
              /\ Ended(t, S, "lapsed")[k].reason =
                   IF k \in S THEN "lapsed" ELSE t[k].reason
              /\ Ended(t, S, "lapsed")[k].ends = t[k].ends
              /\ Ended(t, S, "lapsed")[k].prod = t[k].prod
              /\ Ended(t, S, "lapsed")[k].at = t[k].at
              /\ Ended(t, S, "lapsed")[k].release = t[k].release
<1>1. "lapsed" \in Reasons
  BY DEF Reasons
<1> QED
  BY <1>1, EndedRows

(* Where a carry goes: from a candidate of the read, onto a spare of it.   *)
LEMMA CarryPairs ==
  ASSUME NEW t \in Table, NEW e \in Time, NEW at \in Time,
         NEW noCarry, NEW m \in Carry(t, e, at, noCarry)
  PROVE  /\ m[1] \in Candidates(t, e, noCarry)
         /\ m[2] \in Pool(t, at)
         /\ m[1] \in Ids /\ m[2] \in Ids
         /\ t[m[1]].prod \in Products
BY DEF Carry, Candidates, Pool, Term, Live, Table, Row

LEMMA CarriedRows ==
  ASSUME NEW t \in Table, NEW seen \in Table, NEW e \in Time, NEW at \in Time,
         NEW noCarry
  PROVE  LET moves == Carry(seen, e, at, noCarry)
             u     == Carried(t, moves, seen)
         IN  /\ u \in Table
             /\ \A k \in Ids :
                  /\ u[k].state = t[k].state /\ u[k].reason = t[k].reason
                  /\ u[k].ends = t[k].ends /\ u[k].release = t[k].release
                  /\ \/ /\ ~ \E m \in moves : m[2] = k
                        /\ u[k] = t[k]
                     \/ \E m \in moves :
                          /\ m[2] = k
                          /\ u[k].prod = seen[m[1]].prod /\ u[k].at = seen[m[1]].at
<1> DEFINE moves == Carry(seen, e, at, noCarry)
           u == Carried(t, moves, seen)
<1>1. ASSUME NEW k \in Ids, NEW n \in moves, n[2] = k
      PROVE  \E m \in moves :
               /\ m[2] = k
               /\ u[k] = [t[k] EXCEPT !.prod = seen[m[1]].prod,
                                      !.at = seen[m[1]].at]
  <2> DEFINE c == CHOOSE m \in moves : m[2] = k
  <2>1. c \in moves /\ c[2] = k
    BY <1>1
  <2>2. u[k] = [t[k] EXCEPT !.prod = seen[c[1]].prod, !.at = seen[c[1]].at]
    BY <1>1 DEF Carried
  <2> QED
    BY <2>1, <2>2
<1>2. ASSUME NEW k \in Ids, ~ \E m \in moves : m[2] = k
      PROVE  u[k] = t[k]
  BY <1>2 DEF Carried
<1>3. ASSUME NEW m \in moves
      PROVE  seen[m[1]].prod \in Products /\ seen[m[1]].at \in Time
  BY CarryPairs DEF Table, Row
<1>4. u = [k \in Ids |-> u[k]]
  BY DEF Carried
<1> HIDE DEF u
<1>5. ASSUME NEW k \in Ids
      PROVE  /\ u[k] \in Row
             /\ u[k].state = t[k].state /\ u[k].reason = t[k].reason
             /\ u[k].ends = t[k].ends /\ u[k].release = t[k].release
             /\ \/ (~ \E m \in moves : m[2] = k) /\ u[k] = t[k]
                \/ \E m \in moves :
                     /\ m[2] = k
                     /\ u[k].prod = seen[m[1]].prod /\ u[k].at = seen[m[1]].at
  <2>1. t[k] \in Row
    BY DEF Table
  <2>2. CASE \E m \in moves : m[2] = k
    <3>1. PICK m \in moves : /\ m[2] = k
                             /\ u[k] = [t[k] EXCEPT !.prod = seen[m[1]].prod,
                                                    !.at = seen[m[1]].at]
      BY <2>2, <1>1
    <3> HIDE DEF moves
    <3> QED
      BY <2>1, <3>1, <1>3 DEF Row
  <2>3. CASE ~ \E m \in moves : m[2] = k
    BY <2>1, <2>3, <1>2
  <2> QED
    BY <2>2, <2>3
<1>6. u \in Table
  BY <1>4, <1>5 DEF Table
<1> QED
  BY <1>5, <1>6 DEF u

(* The rows a lapse leaves: the term ended, the spares carrying.           *)
LEMMA LapsedRows ==
  ASSUME NEW t \in Table, NEW seen \in Table, NEW e \in Time, NEW at \in Time,
         NEW noCarry
  PROVE  LET moves == Carry(seen, e, at, noCarry)
             term  == Term(seen, e)
             u     == Lapsed(t, seen, e, moves)
         IN  /\ u \in Table
             /\ \A k \in Ids :
                  /\ u[k].ends = t[k].ends
                  /\ u[k].release = t[k].release
                  /\ u[k].state = IF k \in term THEN "ended" ELSE t[k].state
                  /\ u[k].reason =
                       IF k \notin term THEN t[k].reason
                       ELSE IF k \in Releasing(seen, e) THEN "released"
                       ELSE "lapsed"
                  /\ \/ /\ u[k].prod = t[k].prod /\ u[k].at = t[k].at
                        /\ ~ \E m \in moves : m[2] = k
                     \/ \E m \in moves :
                          /\ m[2] = k
                          /\ u[k].prod = seen[m[1]].prod /\ u[k].at = seen[m[1]].at
<1> DEFINE moves == Carry(seen, e, at, noCarry)
           term  == Term(seen, e)
           rel   == Releasing(seen, e)
           a     == Ended(t, rel, "released")
           rest  == term \ rel
           b     == Ended(a, rest, "lapsed")
           u     == Carried(b, moves, seen)
<1>1. rel \in SUBSET Ids /\ term \in SUBSET Ids /\ rel \subseteq term
  BY DEF Releasing, Term, Live
<1>2. /\ a \in Table
      /\ \A k \in Ids :
           /\ a[k].state = IF k \in rel THEN "ended" ELSE t[k].state
           /\ a[k].reason = IF k \in rel THEN "released" ELSE t[k].reason
           /\ a[k].ends = t[k].ends /\ a[k].release = t[k].release
           /\ a[k].prod = t[k].prod /\ a[k].at = t[k].at
  <2>1. "released" \in Reasons
    BY DEF Reasons
  <2> HIDE DEF rel
  <2> QED
    BY <1>1, <2>1, EndedRows
<1> HIDE DEF a
<1>3. /\ b \in Table
      /\ \A k \in Ids :
           /\ b[k].state = IF k \in rest THEN "ended" ELSE a[k].state
           /\ b[k].reason = IF k \in rest THEN "lapsed" ELSE a[k].reason
           /\ b[k].ends = a[k].ends /\ b[k].release = a[k].release
           /\ b[k].prod = a[k].prod /\ b[k].at = a[k].at
  <2>1. rest \in SUBSET Ids
    BY <1>1
  <2>2. a \in Table
    BY <1>2
  <2> HIDE DEF rest, rel, term, moves
  <2> QED
    BY <2>1, <2>2, LapsedEndRows
<1> HIDE DEF b
<1>4. /\ u \in Table
      /\ \A k \in Ids :
           /\ u[k].state = b[k].state /\ u[k].reason = b[k].reason
           /\ u[k].ends = b[k].ends /\ u[k].release = b[k].release
           /\ \/ (~ \E m \in moves : m[2] = k) /\ u[k] = b[k]
              \/ \E m \in moves :
                   /\ m[2] = k
                   /\ u[k].prod = seen[m[1]].prod /\ u[k].at = seen[m[1]].at
  BY <1>3, CarriedRows
<1> HIDE DEF u, moves, rel, term
<1>5. ASSUME NEW k \in Ids
      PROVE  /\ b[k].ends = t[k].ends
             /\ b[k].release = t[k].release
             /\ b[k].state = IF k \in term THEN "ended" ELSE t[k].state
             /\ b[k].reason = IF k \notin term THEN t[k].reason
                              ELSE IF k \in rel THEN "released" ELSE "lapsed"
             /\ b[k].prod = t[k].prod /\ b[k].at = t[k].at
  BY <1>1, <1>2, <1>3
<1>7. Lapsed(t, seen, e, moves) = u
  BY DEF Lapsed, u, b, a, rel, term, rest
<1> QED
  BY <1>4, <1>5, <1>7 DEF moves, rel, term

-----------------------------------------------------------------------------
(* Ranks.  R is a strict total order on S; Below counts what comes before. *)

StrictOrder(R, S) ==
  /\ \A x \in S : <<x, x>> \notin R
  /\ \A x, y, z \in S : <<x, y>> \in R /\ <<y, z>> \in R => <<x, z>> \in R
  /\ \A x, y \in S : x = y \/ <<x, y>> \in R \/ <<y, x>> \in R

Before(R, S, x) == {y \in S : <<y, x>> \in R}

Rank(R, S, x) == Cardinality(Before(R, S, x))

LEMMA RankGrows ==
  ASSUME NEW S, IsFiniteSet(S), NEW R, StrictOrder(R, S),
         NEW x \in S, NEW y \in S
  PROVE  /\ Rank(R, S, x) \in 0 .. Cardinality(S) - 1
         /\ <<x, y>> \in R <=> Rank(R, S, x) < Rank(R, S, y)
<1>1. ASSUME NEW a \in S
      PROVE  /\ IsFiniteSet(Before(R, S, a))
             /\ Rank(R, S, a) \in 0 .. Cardinality(S) - 1
  <2>1. /\ Before(R, S, a) \in SUBSET S /\ a \notin Before(R, S, a)
        /\ Before(R, S, a) # S
    BY DEF Before, StrictOrder
  <2>2. /\ IsFiniteSet(Before(R, S, a))
        /\ Cardinality(Before(R, S, a)) <= Cardinality(S)
        /\ Cardinality(Before(R, S, a)) # Cardinality(S)
    BY <2>1, FS_Subset
  <2>3. Cardinality(Before(R, S, a)) \in Nat /\ Cardinality(S) \in Nat
    BY <2>2, FS_CardinalityType
  <2> QED
    BY <2>2, <2>3 DEF Rank
<1>2. ASSUME NEW a \in S, NEW b \in S, <<a, b>> \in R
      PROVE  Rank(R, S, a) < Rank(R, S, b)
  <2>1. /\ Before(R, S, a) \in SUBSET Before(R, S, b)
        /\ a \in Before(R, S, b) /\ a \notin Before(R, S, a)
    BY <1>2 DEF Before, StrictOrder
  <2>2. /\ Cardinality(Before(R, S, a)) <= Cardinality(Before(R, S, b))
        /\ Cardinality(Before(R, S, a)) # Cardinality(Before(R, S, b))
    BY <1>1, <2>1, FS_Subset
  <2> QED
    BY <1>1, <2>2 DEF Rank
<1>3. Rank(R, S, x) < Rank(R, S, y) => <<x, y>> \in R
  <2>1. x = y \/ <<x, y>> \in R \/ <<y, x>> \in R
    BY DEF StrictOrder
  <2>2. Rank(R, S, x) \in Int /\ Rank(R, S, y) \in Int
    BY <1>1
  <2> QED
    BY <1>2, <2>1, <2>2
<1> QED
  BY <1>1, <1>2, <1>3

(* No two have the same rank, and none is skipped: an injection of a       *)
(* finite set into as many numbers is onto them.                           *)
LEMMA RankOnto ==
  ASSUME NEW S, IsFiniteSet(S), NEW R, StrictOrder(R, S)
  PROVE  /\ \A x \in S : Rank(R, S, x) \in 0 .. Cardinality(S) - 1
         /\ \A x, y \in S : Rank(R, S, x) = Rank(R, S, y) => x = y
         /\ \A n \in 0 .. Cardinality(S) - 1 : \E x \in S : Rank(R, S, x) = n
<1> DEFINE T == 0 .. Cardinality(S) - 1
           f == [x \in S |-> Rank(R, S, x)]
<1>1. Cardinality(S) \in Nat
  BY FS_CardinalityType
<1>2. IsFiniteSet(T) /\ Cardinality(T) = Cardinality(S)
  BY <1>1, FS_Interval
<1>3. \A x \in S : Rank(R, S, x) \in T
  BY RankGrows
<1>4. \A x, y \in S : Rank(R, S, x) = Rank(R, S, y) => x = y
  BY RankGrows DEF StrictOrder
<1>5. f \in Injection(S, T)
  BY <1>3, <1>4 DEF Injection, IsInjective
<1>6. f \in Surjection(S, T)
  BY <1>2, <1>5, FS_Injection
<1> QED
  BY <1>3, <1>4, <1>6 DEF Surjection

(* The first n by rank are n.                                              *)
LEMMA RankFirst ==
  ASSUME NEW S, IsFiniteSet(S), NEW R, StrictOrder(R, S),
         NEW n \in 0 .. Cardinality(S)
  PROVE  Cardinality({x \in S : Rank(R, S, x) < n}) = n
<1> DEFINE F == {x \in S : Rank(R, S, x) < n}
           T == 0 .. n - 1
           f == [x \in F |-> Rank(R, S, x)]
<1>1. Cardinality(S) \in Nat /\ n \in Nat
  BY FS_CardinalityType
<1>2. IsFiniteSet(T) /\ Cardinality(T) = n
  <2>1. 0 \in Int /\ n - 1 \in Int
    BY <1>1
  <2>2. /\ IsFiniteSet(T)
        /\ Cardinality(T) = IF 0 > n - 1 THEN 0 ELSE (n - 1) - 0 + 1
    BY <2>1, FS_Interval
  <2> QED
    BY <1>1, <2>2
<1>3. \A x \in S : Rank(R, S, x) \in 0 .. Cardinality(S) - 1
  BY RankOnto
<1>4. \A x \in F : Rank(R, S, x) \in T
  BY <1>1, <1>3
<1>5. \A x, y \in F : Rank(R, S, x) = Rank(R, S, y) => x = y
  BY RankOnto
<1>6. f \in Injection(F, T)
  BY <1>4, <1>5 DEF Injection, IsInjective
<1>7. ASSUME NEW i \in T PROVE \E x \in F : f[x] = i
  <2>1. i \in 0 .. Cardinality(S) - 1 /\ i < n
    BY <1>1
  <2>2. PICK x \in S : Rank(R, S, x) = i
    BY <2>1, RankOnto
  <2> QED
    BY <2>1, <2>2
<1>8. f \in Surjection(F, T)
  BY <1>4, <1>7 DEF Surjection
<1> QED
  BY <1>2, <1>6, <1>8, FS_Injection

-----------------------------------------------------------------------------
(* The carry-over.  Candidates are ranked by seniority, spares by id, and  *)
(* equal ranks are paired.                                                 *)

SeniorIn(t, S) == {p \in S \X S : Senior(t, p[1], p[2])}
FirstIn(S)     == {p \in S \X S : p[1] < p[2]}

LEMMA CarryOrders ==
  ASSUME NEW t \in Table, NEW S \in SUBSET Ids
  PROVE  /\ IsFiniteSet(S)
         /\ StrictOrder(SeniorIn(t, S), S)
         /\ StrictOrder(FirstIn(S), S)
<1>1. IsFiniteSet(S)
  BY TableConstants, FS_Subset
<1>2. \A k \in S : k \in Int /\ t[k].at \in Int
  BY TableConstants DEF Table, Row, Time, Ends, NoEnd
<1>3. StrictOrder(FirstIn(S), S)
  BY <1>2 DEF StrictOrder, FirstIn
<1>4. \A k, l \in S : <<k, l>> \in SeniorIn(t, S) <=> Senior(t, k, l)
  BY DEF SeniorIn
<1>5. \A k \in S : ~Senior(t, k, k)
  BY <1>2 DEF Senior
<1>6. \A k, l, m \in S : Senior(t, k, l) /\ Senior(t, l, m) => Senior(t, k, m)
  BY <1>2 DEF Senior
<1>7. \A k, l \in S : k = l \/ Senior(t, k, l) \/ Senior(t, l, k)
  BY <1>2 DEF Senior
<1>8. StrictOrder(SeniorIn(t, S), S)
  BY <1>4, <1>5, <1>6, <1>7 DEF StrictOrder
<1> QED
  BY <1>1, <1>3, <1>8

LEMMA CarryRanks ==
  ASSUME NEW t \in Table, NEW e, NEW at, NEW noCarry
  PROVE  LET from == Candidates(t, e, noCarry)
             to   == Pool(t, at)
         IN  /\ from \in SUBSET Ids /\ to \in SUBSET Ids
             /\ Carry(t, e, at, noCarry) \subseteq from \X to
             /\ \A k \in from, l \in to :
                  <<k, l>> \in Carry(t, e, at, noCarry)
                    <=> Rank(SeniorIn(t, from), from, k) = Rank(FirstIn(to), to, l)
<1> DEFINE from == Candidates(t, e, noCarry)
           to   == Pool(t, at)
<1>1. from \in SUBSET Ids /\ to \in SUBSET Ids
  BY DEF Candidates, Pool, Term, Live
<1>2. \A k \in from : Before(SeniorIn(t, from), from, k) = {j \in from : Senior(t, j, k)}
  BY DEF Before, SeniorIn
<1>3. \A l \in to : Before(FirstIn(to), to, l) = {j \in to : j < l}
  BY DEF Before, FirstIn
<1>4. Carry(t, e, at, noCarry) =
        {m \in from \X to : Cardinality({k \in from : Senior(t, k, m[1])})
                              = Cardinality({k \in to : k < m[2]})}
  BY DEF Carry
<1> HIDE DEF from, to
<1>5. \A k \in from, l \in to :
        <<k, l>> \in Carry(t, e, at, noCarry)
          <=> Rank(SeniorIn(t, from), from, k) = Rank(FirstIn(to), to, l)
  BY <1>2, <1>3, <1>4 DEF Rank
<1> QED
  BY <1>1, <1>4, <1>5 DEF from, to

(* The carry-over for every table, however many licenses are in the term   *)
(* and spare: a product goes to one license and a license takes one        *)
(* product; a product is carried only if every more senior one is; and     *)
(* while a product is left behind no spare license is.                     *)
THEOREM CarryKeepsSeniors ==
  ASSUME NEW t \in Table, NEW e, NEW at, NEW noCarry
  PROVE  LET moves == Carry(t, e, at, noCarry)
             from  == Candidates(t, e, noCarry)
         IN  /\ \A m, n \in moves : m[1] = n[1] <=> m[2] = n[2]
             /\ \A m \in moves : \A k \in from :
                  Senior(t, k, m[1]) => \E n \in moves : n[1] = k
             /\ \A k \in from :
                  (~ \E m \in moves : m[1] = k)
                    => \A l \in Pool(t, at) : \E n \in moves : n[2] = l
<1> DEFINE moves == Carry(t, e, at, noCarry)
           from  == Candidates(t, e, noCarry)
           to    == Pool(t, at)
           older == SeniorIn(t, from)
           first == FirstIn(to)
<1>1. /\ from \in SUBSET Ids /\ to \in SUBSET Ids /\ moves \subseteq from \X to
      /\ \A k \in from, l \in to :
           <<k, l>> \in moves <=> Rank(older, from, k) = Rank(first, to, l)
  BY CarryRanks
<1>2. /\ IsFiniteSet(from) /\ IsFiniteSet(to)
      /\ StrictOrder(older, from) /\ StrictOrder(first, to)
  BY <1>1, CarryOrders
<1>3. \A k, l \in from : <<k, l>> \in older <=> Senior(t, k, l)
  BY DEF SeniorIn
<1> HIDE DEF moves, from, to, older, first
<1>4. Cardinality(from) \in Nat /\ Cardinality(to) \in Nat
  BY <1>2, FS_CardinalityType
<1>5. /\ \A k \in from : Rank(older, from, k) \in 0 .. Cardinality(from) - 1
      /\ \A k, l \in from : Rank(older, from, k) = Rank(older, from, l) => k = l
      /\ \A n \in 0 .. Cardinality(from) - 1 : \E k \in from : Rank(older, from, k) = n
  BY <1>2, RankOnto
<1>6. /\ \A l \in to : Rank(first, to, l) \in 0 .. Cardinality(to) - 1
      /\ \A k, l \in to : Rank(first, to, k) = Rank(first, to, l) => k = l
      /\ \A n \in 0 .. Cardinality(to) - 1 : \E l \in to : Rank(first, to, l) = n
  BY <1>2, RankOnto
<1>7. \A m \in moves : /\ m = <<m[1], m[2]>> /\ m[1] \in from /\ m[2] \in to
                       /\ Rank(older, from, m[1]) = Rank(first, to, m[2])
  BY <1>1
<1>8. ASSUME NEW m \in moves, NEW n \in moves
      PROVE  m[1] = n[1] <=> m[2] = n[2]
  BY <1>5, <1>6, <1>7
<1>9. ASSUME NEW m \in moves, NEW k \in from, Senior(t, k, m[1])
      PROVE  \E n \in moves : n[1] = k
  <2>1. Rank(older, from, k) < Rank(older, from, m[1])
    BY <1>2, <1>3, <1>7, <1>9, RankGrows
  <2>2. Rank(older, from, k) \in 0 .. Cardinality(to) - 1
    BY <1>4, <1>5, <1>6, <1>7, <2>1
  <2>3. PICK l \in to : Rank(first, to, l) = Rank(older, from, k)
    BY <1>6, <2>2
  <2> QED
    BY <1>1, <2>3
<1>10. ASSUME NEW k \in from, ~ \E m \in moves : m[1] = k, NEW l \in to
       PROVE  \E n \in moves : n[2] = l
  <2>1. Rank(older, from, k) \notin 0 .. Cardinality(to) - 1
    <3> SUFFICES ASSUME Rank(older, from, k) \in 0 .. Cardinality(to) - 1
                 PROVE  FALSE
      OBVIOUS
    <3>1. PICK j \in to : Rank(first, to, j) = Rank(older, from, k)
      BY <1>6
    <3>2. <<k, j>> \in moves
      BY <1>1, <3>1
    <3> QED
      BY <1>10, <3>2
  <2>2. Rank(first, to, l) \in 0 .. Cardinality(from) - 1
    BY <1>4, <1>5, <1>6, <2>1
  <2>3. PICK j \in from : Rank(older, from, j) = Rank(first, to, l)
    BY <1>5, <2>2
  <2>4. <<j, l>> \in moves
    BY <1>1, <2>3
  <2> QED
    BY <2>4
<1> QED
  BY <1>8, <1>9, <1>10 DEF moves, from, to
=============================================================================
