------------------------- MODULE DefinitionsProofs -------------------------
(***************************************************************************)
(* dependency_order is right for every definition: when it finds no cycle  *)
(* its order has every VM once and after all that it needs, and when it    *)
(* finds one there is no such order.  The recursion is proved by its call  *)
(* that would be the smallest to go wrong: a call has fewer VMs that are   *)
(* not active than the one it is made from, or fewer names.                *)
(***************************************************************************)
EXTENDS Definitions, FiniteSetTheorems, SequenceTheorems, TLAPS

(* What the proofs need of a definition: finitely many VMs, and dependencies
   among them. *)
Regular(d) ==
    /\ IsFiniteSet(Names(d))
    /\ \A n \in Names(d) : d.needs[n] \in Seq(Names(d))

Left(d, x) == Cardinality(Names(d) \ x[2])

Smaller(d, y, x) ==
    Left(d, y) < Left(d, x) \/ (y[2] = x[2] /\ Len(y[1]) < Len(x[1]))

(* The calls that a call makes: for the dependencies of its first name, and for
   its other names. *)
Ends(x)     == x[1] = <<>> \/ x[3].cycle
Descends(x) == Head(x[1]) \notin x[2] /\ Head(x[1]) \notin ToSet(x[3].order)
Below(d, x) == <<d.needs[Head(x[1])], x[2] \union {Head(x[1])}, x[3]>>
After(d, f, x) == Visit(d, f, Head(x[1]), x[2], x[3])
Cyclic(done) == [done EXCEPT !.cycle = TRUE]
Longer(done, name) == [done EXCEPT !.order = Append(@, name)]
Rest(d, f, x) == <<Tail(x[1]), x[2], After(d, f, x)>>

-----------------------------------------------------------------------------

(* A set of natural numbers has a least one. *)
LEMMA LeastNumber ==
    ASSUME NEW S \in SUBSET Nat, S # {}
    PROVE  \E m \in S : \A k \in S : m <= k
<1> DEFINE R == {ss \in Nat \X Nat : ss[1] < ss[2]}
<1>1. IsWellFoundedOn(R, Nat)
    BY NatLessThanWellFounded, SMT DEF OpToRel
<1> HIDE DEF R
<1>2. PICK m \in S : \A k \in S : <<k, m>> \notin R
    BY <1>1, WFMin
<1>3. ASSUME NEW k \in S, k < m PROVE <<k, m>> \in R
    <2>1. <<k, m>> \in Nat \X Nat
        OBVIOUS
    <2>2. <<k, m>>[1] < <<k, m>>[2]
        BY <1>3
    <2> QED
        BY <2>1, <2>2, Zenon DEF R
<1>4. ASSUME NEW k \in S PROVE m <= k
    <2>1. ~(k < m)
        BY <1>2, <1>3
    <2> QED
        BY <2>1
<1> QED
    BY <1>4

(* Of a set of calls, one is the smallest: it makes no other of them. *)
LEMMA SmallestCall ==
    ASSUME NEW d, Regular(d), NEW T \in SUBSET Calls(d), T # {}
    PROVE  \E x \in T : \A y \in T : ~Smaller(d, y, x)
<1>1. \A x \in Calls(d) : Left(d, x) \in Nat /\ Len(x[1]) \in Nat
    <2> SUFFICES ASSUME NEW x \in Calls(d) PROVE Left(d, x) \in Nat /\ Len(x[1]) \in Nat
        OBVIOUS
    <2>1. IsFiniteSet(Names(d) \ x[2])
        BY FS_Difference DEF Regular
    <2>2. x[1] \in Seq(Names(d))
        BY DEF Calls
    <2> QED
        BY <2>1, <2>2, FS_CardinalityType, LenProperties DEF Left
<1> DEFINE Lefts == {Left(d, x) : x \in T}
<1>2. PICK m \in Lefts : \A k \in Lefts : m <= k
    <2>1. Lefts \in SUBSET Nat /\ Lefts # {}
        BY <1>1
    <2> QED
        BY <2>1, LeastNumber
<1> DEFINE Few == {x \in T : Left(d, x) = m}
           Lens == {Len(x[1]) : x \in Few}
<1>3. PICK n \in Lens : \A k \in Lens : n <= k
    <2>1. Lens \in SUBSET Nat /\ Lens # {}
        BY <1>1
    <2> QED
        BY <2>1, LeastNumber
<1>4. PICK x \in Few : Len(x[1]) = n
    OBVIOUS
<1>5. ASSUME NEW y \in T, Smaller(d, y, x) PROVE FALSE
    <2>1. m <= Left(d, y) /\ Left(d, x) = m /\ Left(d, y) \in Nat /\ Left(d, x) \in Nat
        BY <1>1, <1>2
    <2>2. y[2] = x[2] /\ Len(y[1]) < Len(x[1])
        BY <1>5, <2>1 DEF Smaller
    <2>3. y \in Few
        BY <2>1, <2>2 DEF Left
    <2>4. n <= Len(y[1]) /\ Len(y[1]) \in Nat /\ n \in Nat
        BY <1>1, <1>3, <2>3
    <2> QED
        BY <1>4, <2>2, <2>4
<1> QED
    BY <1>5

-----------------------------------------------------------------------------

(* What visit gives for one VM, in its three cases. *)
LEMMA VisitCases ==
    ASSUME NEW d, NEW f, NEW x
    PROVE  /\ Head(x[1]) \in x[2] => After(d, f, x) = Cyclic(x[3])
           /\ Head(x[1]) \notin x[2] /\ Head(x[1]) \in ToSet(x[3].order) =>
                After(d, f, x) = x[3]
           /\ Descends(x) => After(d, f, x) = Longer(f[Below(d, x)], Head(x[1]))
<1> DEFINE h == Head(x[1])
<1>1. After(d, f, x) =
        IF h \in x[2] THEN Cyclic(x[3])
        ELSE IF h \in ToSet(x[3].order) THEN x[3] ELSE Longer(f[Below(d, x)], h)
    BY DEF After, Visit, Below, Cyclic, Longer
<1> QED
    BY <1>1, Zenon DEF Descends

LEMMA BelowIsSmaller ==
    ASSUME NEW d, Regular(d), NEW x \in Calls(d), ~Ends(x), Descends(x)
    PROVE  Below(d, x) \in Calls(d) /\ Smaller(d, Below(d, x), x)
<1>1. /\ x[1] \in Seq(Names(d)) /\ x[2] \in SUBSET Names(d) /\ x[3] \in Outcomes(d)
      /\ x[1] # <<>>
    BY DEF Calls, Ends
<1> DEFINE h == Head(x[1])
<1>2. h \in Names(d)
    BY <1>1, HeadTailProperties
<1>3. Below(d, x) \in Calls(d)
    <2>1. d.needs[h] \in Seq(Names(d)) /\ x[2] \union {h} \in SUBSET Names(d)
        BY <1>1, <1>2 DEF Regular
    <2> QED
        BY <1>1, <2>1 DEF Calls, Below
<1>4. Left(d, Below(d, x)) < Left(d, x)
    <2> DEFINE S == Names(d) \ x[2]
    <2>1. IsFiniteSet(S)
        BY FS_Difference DEF Regular
    <2>2. h \in S
        BY <1>2 DEF Descends
    <2>3. Names(d) \ (x[2] \union {h}) = S \ {h}
        OBVIOUS
    <2>4. Cardinality(S \ {h}) = Cardinality(S) - 1 /\ Cardinality(S) \in Nat
        <3>1. Cardinality(S) \in Nat
            BY <2>1, FS_CardinalityType
        <3>2. Cardinality(S \ {h}) = IF h \in S THEN Cardinality(S) - 1 ELSE Cardinality(S)
            BY <2>1, FS_RemoveElement
        <3> QED
            BY <2>2, <3>1, <3>2
    <2>5. Below(d, x)[2] = x[2] \union {h}
        BY DEF Below
    <2>6. Left(d, Below(d, x)) = Cardinality(S \ {h}) /\ Left(d, x) = Cardinality(S)
        BY <2>3, <2>5, Zenon DEF Left
    <2> QED
        BY <2>4, <2>6
<1> QED
    BY <1>3, <1>4 DEF Smaller

LEMMA RestIsSmaller ==
    ASSUME NEW d, Regular(d), NEW x \in Calls(d), ~Ends(x), NEW f,
           Descends(x) => f[Below(d, x)] \in Outcomes(d)
    PROVE  Rest(d, f, x) \in Calls(d) /\ Smaller(d, Rest(d, f, x), x)
<1>1. /\ x[1] \in Seq(Names(d)) /\ x[2] \in SUBSET Names(d) /\ x[3] \in Outcomes(d)
      /\ x[1] # <<>>
    BY DEF Calls, Ends
<1>2. /\ Head(x[1]) \in Names(d) /\ Tail(x[1]) \in Seq(Names(d))
      /\ Len(Tail(x[1])) = Len(x[1]) - 1 /\ Len(x[1]) \in Nat
    BY <1>1, HeadTailProperties, LenProperties
<1>3. After(d, f, x) \in Outcomes(d)
    <2>1. CASE Head(x[1]) \in x[2]
        <3>1. After(d, f, x) = Cyclic(x[3])
            BY <2>1, VisitCases
        <3> QED
            BY <1>1, <3>1 DEF Outcomes, Cyclic
    <2>2. CASE Head(x[1]) \notin x[2] /\ Head(x[1]) \in ToSet(x[3].order)
        BY <1>1, <2>2, VisitCases
    <2>3. CASE Descends(x)
        <3>1. f[Below(d, x)] \in Outcomes(d)
            BY <2>3
        <3>2. Append(f[Below(d, x)].order, Head(x[1])) \in Seq(Names(d))
            BY <1>2, <3>1, AppendProperties DEF Outcomes
        <3>3. After(d, f, x) = Longer(f[Below(d, x)], Head(x[1]))
            BY <2>3, VisitCases
        <3> QED
            BY <3>1, <3>2, <3>3 DEF Outcomes, Longer
    <2> QED
        BY <2>1, <2>2, <2>3 DEF Descends
<1>4. Rest(d, f, x) \in Calls(d)
    BY <1>1, <1>2, <1>3 DEF Rest, Calls
<1>5. Rest(d, f, x)[2] = x[2] /\ Len(Rest(d, f, x)[1]) < Len(x[1])
    BY <1>2 DEF Rest
<1> QED
    BY <1>4, <1>5 DEF Smaller

(* The rest depends on the function only by the call for the dependencies. *)
LEMMA RestAgrees ==
    ASSUME NEW d, NEW x, NEW f, NEW g, Descends(x) => f[Below(d, x)] = g[Below(d, x)]
    PROVE  Rest(d, f, x) = Rest(d, g, x)
<1>1. After(d, f, x) = After(d, g, x)
    <2>1. CASE Head(x[1]) \in x[2]
        BY <2>1, VisitCases
    <2>2. CASE Head(x[1]) \notin x[2] /\ Head(x[1]) \in ToSet(x[3].order)
        BY <2>2, VisitCases
    <2>3. CASE Descends(x)
        <3>1. /\ After(d, f, x) = Longer(f[Below(d, x)], Head(x[1]))
              /\ After(d, g, x) = Longer(g[Below(d, x)], Head(x[1]))
            BY <2>3, VisitCases
        <3>2. f[Below(d, x)] = g[Below(d, x)]
            BY <2>3
        <3> QED
            BY <3>1, <3>2, Zenon
    <2> QED
        BY <2>1, <2>2, <2>3, Zenon DEF Descends
<1> QED
    BY <1>1, Zenon DEF Rest

-----------------------------------------------------------------------------

(* A function that follows the recursion at a call, and one that does so at
   every call that it is defined for. *)
Follows(d, f, x) ==
    IF Ends(x) THEN f[x] = x[3]
    ELSE /\ Descends(x) => Below(d, x) \in DOMAIN f
         /\ Rest(d, f, x) \in DOMAIN f
         /\ f[x] = f[Rest(d, f, x)]

Partial(d, f) ==
    /\ DOMAIN f \subseteq Calls(d)
    /\ f \in [DOMAIN f -> Outcomes(d)]
    /\ \A x \in DOMAIN f : Follows(d, f, x)

Known(d)  == {x \in Calls(d) : \E f : Partial(d, f) /\ x \in DOMAIN f}
Of(d, x)  == CHOOSE f : Partial(d, f) /\ x \in DOMAIN f
Joined(d) == [x \in Known(d) |-> Of(d, x)[x]]

(* Two such functions agree where both are defined. *)
LEMMA PartialsAgree ==
    ASSUME NEW d, Regular(d), NEW f, NEW g, Partial(d, f), Partial(d, g)
    PROVE  \A x \in DOMAIN f \cap DOMAIN g : f[x] = g[x]
<1> DEFINE T == {x \in DOMAIN f \cap DOMAIN g : f[x] # g[x]}
<1> SUFFICES ASSUME T # {} PROVE FALSE
    OBVIOUS
<1>1. T \in SUBSET Calls(d)
    BY DEF Partial
<1>2. PICK x \in T : \A y \in T : ~Smaller(d, y, x)
    BY <1>1, SmallestCall
<1>3. /\ x \in Calls(d) /\ x \in DOMAIN f /\ x \in DOMAIN g /\ f[x] # g[x]
      /\ Follows(d, f, x) /\ Follows(d, g, x)
    BY <1>1, <1>2 DEF Partial
<1>4. ~Ends(x)
    BY <1>3 DEF Follows
<1>5. Descends(x) => f[Below(d, x)] = g[Below(d, x)] /\ f[Below(d, x)] \in Outcomes(d)
    <2> HAVE Descends(x)
    <2>1. Below(d, x) \in DOMAIN f \cap DOMAIN g /\ Smaller(d, Below(d, x), x)
        BY <1>3, <1>4, BelowIsSmaller DEF Follows
    <2>2. f[Below(d, x)] = g[Below(d, x)]
        BY <1>2, <2>1
    <2> QED
        BY <2>1, <2>2 DEF Partial
<1>6. Rest(d, f, x) = Rest(d, g, x)
    BY <1>5, RestAgrees
<1>7. Rest(d, f, x) \in DOMAIN f \cap DOMAIN g /\ Smaller(d, Rest(d, f, x), x)
    BY <1>3, <1>4, <1>5, <1>6, RestIsSmaller DEF Follows
<1>8. f[Rest(d, f, x)] = g[Rest(d, f, x)]
    BY <1>2, <1>7
<1> QED
    BY <1>3, <1>4, <1>6, <1>8 DEF Follows

LEMMA OfIsPartial ==
    ASSUME NEW d, NEW x \in Known(d)
    PROVE  Partial(d, Of(d, x)) /\ x \in DOMAIN Of(d, x)
BY Zenon DEF Known, Of

(* All of them together are one. *)
LEMMA JoinedIsPartial ==
    ASSUME NEW d, Regular(d)
    PROVE  Partial(d, Joined(d)) /\ DOMAIN Joined(d) = Known(d)
<1> DEFINE J == Joined(d)
<1>1. DOMAIN J = Known(d) /\ \A x \in Known(d) : J[x] = Of(d, x)[x]
    BY Zenon DEF Joined
<1>2. ASSUME NEW f, Partial(d, f), NEW x \in DOMAIN f PROVE x \in Known(d) /\ J[x] = f[x]
    <2>1. x \in Known(d)
        BY <1>2, Zenon DEF Known, Partial
    <2>2. Of(d, x)[x] = f[x]
        BY <1>2, <2>1, OfIsPartial, PartialsAgree
    <2> QED
        BY <1>1, <2>1, <2>2
<1>3. ASSUME NEW x \in Known(d) PROVE J[x] \in Outcomes(d) /\ Follows(d, J, x)
    <2> DEFINE f == Of(d, x)
    <2>1. Partial(d, f) /\ x \in DOMAIN f
        BY <1>3, OfIsPartial
    <2> HIDE DEF f
    <2>2. J[x] = f[x] /\ f[x] \in Outcomes(d) /\ Follows(d, f, x)
        BY <1>2, <2>1 DEF Partial
    <2>3. CASE Ends(x)
        BY <2>2, <2>3 DEF Follows
    <2>4. CASE ~Ends(x)
        <3>1. Descends(x) => Below(d, x) \in DOMAIN f /\ Below(d, x) \in DOMAIN J
                             /\ J[Below(d, x)] = f[Below(d, x)]
            BY <1>1, <1>2, <2>1, <2>2, <2>4 DEF Follows
        <3>2. Rest(d, J, x) = Rest(d, f, x)
            BY <3>1, RestAgrees
        <3>3. Rest(d, f, x) \in DOMAIN f /\ f[x] = f[Rest(d, f, x)]
            BY <2>2, <2>4 DEF Follows
        <3>4. Rest(d, f, x) \in DOMAIN J /\ J[Rest(d, f, x)] = f[Rest(d, f, x)]
            BY <1>1, <1>2, <2>1, <3>3
        <3> QED
            BY <2>2, <2>4, <3>1, <3>2, <3>3, <3>4 DEF Follows
    <2> QED
        BY <2>2, <2>3, <2>4
<1>4. J \in [DOMAIN J -> Outcomes(d)]
    BY <1>1, <1>3, Zenon DEF Joined
<1>5. DOMAIN J \subseteq Calls(d)
    BY <1>1 DEF Known
<1> QED
    BY <1>1, <1>3, <1>4, <1>5, Zenon DEF Partial

(* It is defined for every call: the smallest for which it is not could be added. *)
LEMMA AllKnown ==
    ASSUME NEW d, Regular(d)
    PROVE  Known(d) = Calls(d)
<1> DEFINE T == Calls(d) \ Known(d)
<1> SUFFICES ASSUME T # {} PROVE FALSE
    BY DEF Known
<1>1. PICK x \in T : \A y \in T : ~Smaller(d, y, x)
    BY SmallestCall
<1> DEFINE J == Joined(d)
<1>2. Partial(d, J) /\ DOMAIN J = Known(d)
    BY JoinedIsPartial
<1>3. \A y \in Calls(d) : Smaller(d, y, x) => y \in Known(d)
    BY <1>1
<1>4. x \in Calls(d) /\ x \notin Known(d)
    BY <1>1
<1> HIDE DEF J, T
<1>5. ASSUME ~Ends(x)
      PROVE  /\ Descends(x) => Below(d, x) \in Known(d)
             /\ Rest(d, J, x) \in Known(d)
    <2>1. Descends(x) => Below(d, x) \in Known(d)
        BY <1>3, <1>4, <1>5, BelowIsSmaller
    <2>2. Descends(x) => J[Below(d, x)] \in Outcomes(d)
        BY <1>2, <2>1 DEF Partial
    <2>3. Rest(d, J, x) \in Calls(d) /\ Smaller(d, Rest(d, J, x), x)
        BY <1>4, <1>5, <2>2, RestIsSmaller
    <2> QED
        BY <1>3, <2>1, <2>3
<1> DEFINE D == Known(d) \union {x}
           value == IF Ends(x) THEN x[3] ELSE J[Rest(d, J, x)]
           f == [y \in D |-> IF y = x THEN value ELSE J[y]]
<1>6. DOMAIN f = D /\ f[x] = value /\ \A y \in Known(d) : f[y] = J[y]
    BY <1>4
<1>7. value \in Outcomes(d)
    <2>1. x[3] \in Outcomes(d)
        BY <1>4 DEF Calls
    <2> QED
        BY <1>2, <1>5, <2>1 DEF Partial
<1>8. f \in [DOMAIN f -> Outcomes(d)]
    <2>1. \A y \in Known(d) : J[y] \in Outcomes(d)
        BY <1>2 DEF Partial
    <2> QED
        BY <1>6, <1>7, <2>1
<1> HIDE DEF f, D, value
<1>9. ASSUME NEW y \in D PROVE Follows(d, f, y)
    <2>1. CASE y = x
        <3>1. CASE Ends(x)
            BY <1>6, <2>1, <3>1 DEF Follows, value
        <3>2. CASE ~Ends(x)
            <4>1. Descends(x) => Below(d, x) \in DOMAIN f /\ f[Below(d, x)] = J[Below(d, x)]
                BY <1>5, <1>6, <3>2 DEF D
            <4>2. Rest(d, f, x) = Rest(d, J, x)
                BY <4>1, RestAgrees
            <4>3. Rest(d, J, x) \in DOMAIN f /\ f[Rest(d, J, x)] = J[Rest(d, J, x)]
                BY <1>5, <1>6, <3>2 DEF D
            <4> QED
                BY <1>6, <2>1, <3>2, <4>1, <4>2, <4>3 DEF Follows, value
        <3> QED
            BY <3>1, <3>2
    <2>2. CASE y \in Known(d)
        <3>1. Follows(d, J, y) /\ f[y] = J[y]
            BY <1>2, <1>6, <2>2 DEF Partial
        <3>2. CASE Ends(y)
            BY <3>1, <3>2 DEF Follows
        <3>3. CASE ~Ends(y)
            <4>1. Descends(y) => Below(d, y) \in DOMAIN f /\ f[Below(d, y)] = J[Below(d, y)]
                BY <1>2, <1>6, <3>1, <3>3 DEF D, Follows
            <4>2. Rest(d, f, y) = Rest(d, J, y)
                BY <4>1, RestAgrees
            <4>3. Rest(d, J, y) \in Known(d) /\ J[y] = J[Rest(d, J, y)]
                BY <1>2, <3>1, <3>3 DEF Follows
            <4> QED
                BY <1>6, <3>1, <3>3, <4>1, <4>2, <4>3 DEF D, Follows
        <3> QED
            BY <3>2, <3>3
    <2> QED
        BY <2>1, <2>2 DEF D
<1>10. Partial(d, f)
    <2>1. DOMAIN f \subseteq Calls(d)
        BY <1>4, <1>6 DEF D, Known
    <2> QED
        BY <1>6, <1>8, <1>9, <2>1 DEF Partial
<1>11. x \in Known(d)
    <2>1. x \in DOMAIN f
        BY <1>6 DEF D
    <2> QED
        BY <1>4, <1>10, <2>1, Zenon DEF Known
<1> QED
    BY <1>4, <1>11

(* So that the recursive definition defines what it says. *)
LEMMA VisitAllIsDefined ==
    ASSUME NEW d, Regular(d)
    PROVE  /\ VisitAll(d) \in [Calls(d) -> Outcomes(d)]
           /\ \A x \in Calls(d) : Follows(d, VisitAll(d), x)
<1> DEFINE Body(f, x) == IF Ends(x) THEN x[3] ELSE f[Rest(d, f, x)]
           Whole(f) == [x \in Calls(d) |-> Body(f, x)]
           J == Joined(d)
<1>1. Partial(d, J) /\ DOMAIN J = Calls(d)
    BY JoinedIsPartial, AllKnown
<1>2. J = Whole(J)
    <2>1. \A x \in Calls(d) : J[x] = Body(J, x)
        BY <1>1 DEF Partial, Follows
    <2>2. J = [x \in DOMAIN J |-> J[x]]
        BY <1>1 DEF Partial
    <2> QED
        BY <1>1, <2>1, <2>2
<1>3. VisitAll(d) = CHOOSE f : f = Whole(f)
    BY Zenon DEF VisitAll, Ends, Rest, After
<1>4. VisitAll(d) = Whole(VisitAll(d))
    <2> HIDE DEF Whole
    <2> QED
        BY <1>2, <1>3
<1> DEFINE V == VisitAll(d)
<1>5. DOMAIN V = Calls(d) /\ \A x \in Calls(d) : V[x] = Body(V, x)
    BY <1>4, Zenon
<1> HIDE DEF V
<1>6. ASSUME NEW x \in Calls(d) PROVE V[x] = J[x]
    <2> DEFINE T == {y \in Calls(d) : V[y] # J[y]}
    <2> SUFFICES ASSUME T # {} PROVE FALSE
        OBVIOUS
    <2>1. PICK y \in T : \A z \in T : ~Smaller(d, z, y)
        BY SmallestCall
    <2>2. ~Ends(y) /\ y \in Calls(d) /\ V[y] # J[y]
        BY <1>1, <1>5, <2>1 DEF Partial, Follows
    <2>3. Descends(y) => V[Below(d, y)] = J[Below(d, y)] /\ J[Below(d, y)] \in Outcomes(d)
        <3> HAVE Descends(y)
        <3>1. Below(d, y) \in Calls(d) /\ Smaller(d, Below(d, y), y)
            BY <2>2, BelowIsSmaller
        <3> QED
            BY <1>1, <2>1, <3>1 DEF Partial
    <2>4. Rest(d, V, y) = Rest(d, J, y)
        BY <2>3, RestAgrees
    <2>5. Rest(d, J, y) \in Calls(d) /\ Smaller(d, Rest(d, J, y), y)
        BY <2>2, <2>3, RestIsSmaller
    <2>6. V[Rest(d, J, y)] = J[Rest(d, J, y)]
        BY <2>1, <2>5
    <2>7. V[y] = V[Rest(d, V, y)] /\ J[y] = J[Rest(d, J, y)]
        BY <1>1, <1>5, <2>2 DEF Partial, Follows
    <2> QED
        BY <2>2, <2>4, <2>6, <2>7
<1>7. V = J
    <2>1. V = [x \in DOMAIN V |-> V[x]]
        BY <1>4, Zenon DEF V
    <2>2. J = [x \in DOMAIN J |-> J[x]]
        BY <1>1 DEF Partial
    <2> QED
        BY <1>1, <1>5, <1>6, <2>1, <2>2
<1> QED
    BY <1>1, <1>7 DEF Partial, V

-----------------------------------------------------------------------------

(* An order in which every VM is once, and after all that it needs. *)
Ranked(d, order) ==
    /\ order \in Seq(Names(d)) /\ IsInjective(order)
    /\ \A i \in DOMAIN order : \A n \in ToSet(d.needs[order[i]]) :
         \E j \in DOMAIN order : j < i /\ order[j] = n

(* What a call owes when it finds no cycle, and was called with such an order. *)
Kept(d, x, outcome) ==
    /\ Ranked(d, outcome.order)
    /\ ToSet(x[1]) \union ToSet(x[3].order) \subseteq ToSet(outcome.order)
    /\ ToSet(outcome.order) \cap x[2] = {}

Right(d, x, outcome) ==
    ~outcome.cycle /\ Ranked(d, x[3].order) /\ ToSet(x[3].order) \cap x[2] = {}
    => Kept(d, x, outcome)

LEMMA SequenceElements ==
    ASSUME NEW S, NEW s \in Seq(S)
    PROVE  /\ ToSet(s) \subseteq S
           /\ s # <<>> => ToSet(s) = {Head(s)} \union ToSet(Tail(s))
           /\ \A e \in S : ToSet(Append(s, e)) = ToSet(s) \union {e}
<1>1. ToSet(s) \subseteq S
    BY DEF ToSet
<1>2. ASSUME s # <<>> PROVE ToSet(s) = {Head(s)} \union ToSet(Tail(s))
    <2>1. /\ Len(s) \in Nat \ {0} /\ DOMAIN s = 1..Len(s) /\ Head(s) = s[1]
          /\ DOMAIN Tail(s) = 1..(Len(s) - 1) /\ \A i \in 1..(Len(s) - 1) : Tail(s)[i] = s[i + 1]
        BY <1>2
    <2>2. ASSUME NEW e \in ToSet(s) PROVE e \in {Head(s)} \union ToSet(Tail(s))
        <3>1. PICK i \in 1..Len(s) : e = s[i]
            BY <2>1 DEF ToSet
        <3>2. CASE i # 1
            <4>1. i - 1 \in 1..(Len(s) - 1) /\ Tail(s)[i - 1] = s[i]
                BY <2>1, <3>2
            <4> QED
                BY <2>1, <3>1, <4>1 DEF ToSet
        <3> QED
            BY <2>1, <3>1, <3>2
    <2>3. ASSUME NEW e \in {Head(s)} \union ToSet(Tail(s)) PROVE e \in ToSet(s)
        <3>1. CASE e = Head(s)
            BY <2>1, <3>1 DEF ToSet
        <3>2. CASE e \in ToSet(Tail(s))
            <4>1. PICK i \in 1..(Len(s) - 1) : e = Tail(s)[i]
                BY <2>1, <3>2 DEF ToSet
            <4>2. i + 1 \in 1..Len(s) /\ e = s[i + 1]
                BY <2>1, <4>1
            <4> QED
                BY <2>1, <4>2 DEF ToSet
        <3> QED
            BY <3>1, <3>2
    <2> QED
        BY <2>2, <2>3
<1>3. ASSUME NEW e \in S PROVE ToSet(Append(s, e)) = ToSet(s) \union {e}
    <2>1. /\ Len(s) \in Nat /\ DOMAIN s = 1..Len(s)
          /\ DOMAIN Append(s, e) = 1..(Len(s) + 1) /\ Append(s, e)[Len(s) + 1] = e
          /\ \A i \in 1..Len(s) : Append(s, e)[i] = s[i]
        OBVIOUS
    <2>2. 1..(Len(s) + 1) = 1..Len(s) \union {Len(s) + 1}
        BY <2>1
    <2> QED
        BY <2>1, <2>2 DEF ToSet
<1> QED
    BY <1>1, <1>2, <1>3

(* A VM that is added after all that it needs keeps the order right. *)
LEMMA RankedAppend ==
    ASSUME NEW d, NEW order, Ranked(d, order), NEW name \in Names(d),
           name \notin ToSet(order), ToSet(d.needs[name]) \subseteq ToSet(order)
    PROVE  Ranked(d, Append(order, name))
<1> DEFINE longer == Append(order, name)
           n == Len(order)
<1>1. order \in Seq(Names(d)) /\ n \in Nat /\ DOMAIN order = 1..n
    BY DEF Ranked
<1>2. /\ longer \in Seq(Names(d)) /\ DOMAIN longer = 1..(n + 1)
      /\ longer[n + 1] = name /\ \A i \in 1..n : longer[i] = order[i]
    BY <1>1
<1>3. \A i \in 1..n : order[i] # name
    BY <1>1 DEF ToSet
<1> HIDE DEF longer, n
<1>4. IsInjective(longer)
    BY <1>1, <1>2, <1>3 DEF IsInjective, Ranked
<1>5. ASSUME NEW i \in DOMAIN longer, NEW m \in ToSet(d.needs[longer[i]])
      PROVE  \E j \in DOMAIN longer : j < i /\ longer[j] = m
    <2>1. CASE i = n + 1
        <3>1. m \in ToSet(order)
            BY <1>2, <1>5, <2>1
        <3>2. PICK j \in 1..n : order[j] = m
            BY <1>1, <3>1 DEF ToSet
        <3> QED
            BY <1>1, <1>2, <2>1, <3>2
    <2>2. CASE i # n + 1
        <3>1. i \in 1..n /\ m \in ToSet(d.needs[order[i]])
            BY <1>1, <1>2, <1>5, <2>2
        <3>2. PICK j \in 1..n : j < i /\ order[j] = m
            BY <1>1, <3>1 DEF Ranked
        <3> QED
            BY <1>1, <1>2, <3>2
    <2> QED
        BY <2>1, <2>2
<1> QED
    BY <1>2, <1>4, <1>5 DEF Ranked, longer

(* Every call does what it owes: the smallest that did not would be wrong in
   one of visit's three cases. *)
LEMMA EveryCallIsRight ==
    ASSUME NEW d, Regular(d)
    PROVE  \A x \in Calls(d) : Right(d, x, VisitAll(d)[x])
<1> DEFINE V == VisitAll(d)
           T == {x \in Calls(d) : ~Right(d, x, V[x])}
<1> SUFFICES ASSUME T # {} PROVE FALSE
    OBVIOUS
<1>1. V \in [Calls(d) -> Outcomes(d)] /\ \A x \in Calls(d) : Follows(d, V, x)
    BY VisitAllIsDefined
<1> HIDE DEF V
<1>2. PICK x \in T : \A y \in T : ~Smaller(d, y, x)
    BY SmallestCall
<1>3. /\ x \in Calls(d) /\ ~Right(d, x, V[x])
      /\ \A y \in Calls(d) : Smaller(d, y, x) => Right(d, y, V[y])
    BY <1>2
<1> DEFINE active == x[2]
           done == x[3]
           h == Head(x[1])
           r == V[x]
<1>4. /\ ~r.cycle /\ Ranked(d, done.order) /\ ToSet(done.order) \cap active = {}
      /\ ~Kept(d, x, r)
    BY <1>3 DEF Right
<1>5. x[1] \in Seq(Names(d)) /\ active \in SUBSET Names(d) /\ done \in Outcomes(d)
    BY <1>3 DEF Calls
<1>6. ~Ends(x)
    <2> SUFFICES ASSUME Ends(x) PROVE FALSE
        OBVIOUS
    <2>1. r = done
        BY <1>1, <1>3 DEF Follows
    <2>2. x[1] = <<>>
        BY <1>4, <2>1 DEF Ends
    <2>3. ToSet(x[1]) = {}
        BY <2>2 DEF ToSet
    <2> QED
        BY <1>4, <2>1, <2>3 DEF Kept
<1>7. h \in Names(d) /\ x[1] # <<>> /\ ToSet(x[1]) = {h} \union ToSet(Tail(x[1]))
    BY <1>5, <1>6, HeadTailProperties, SequenceElements DEF Ends
<1> DEFINE after == After(d, V, x)
           rest == Rest(d, V, x)
<1>8. Descends(x) => Below(d, x) \in Calls(d) /\ Smaller(d, Below(d, x), x)
                     /\ V[Below(d, x)] \in Outcomes(d)
    BY <1>1, <1>3, <1>6, BelowIsSmaller
<1>9. /\ rest \in Calls(d) /\ Right(d, rest, V[rest]) /\ r = V[rest]
      /\ rest[1] = Tail(x[1]) /\ rest[2] = active /\ rest[3] = after
    <2>1. rest \in Calls(d) /\ Smaller(d, rest, x)
        BY <1>3, <1>6, <1>8, RestIsSmaller
    <2>2. r = V[rest]
        BY <1>1, <1>3, <1>6 DEF Follows
    <2> QED
        BY <1>3, <2>1, <2>2 DEF Rest
<1>10. ~after.cycle
    <2>1. CASE Ends(rest)
        <3>1. V[rest] = after
            BY <1>1, <1>9, <2>1 DEF Follows
        <3> QED
            BY <1>4, <1>9, <3>1
    <2>2. CASE ~Ends(rest)
        BY <1>9, <2>2 DEF Ends
    <2> QED
        BY <2>1, <2>2
(* After the first name the order is right, and has that name. *)
<1>11. /\ Ranked(d, after.order) /\ ToSet(after.order) \cap active = {}
       /\ {h} \union ToSet(done.order) \subseteq ToSet(after.order)
    <2>1. CASE h \in active
        <3>1. after = Cyclic(done)
            BY <2>1, VisitCases
        <3>2. after.cycle
            BY <1>5, <3>1 DEF Cyclic, Outcomes
        <3> QED
            BY <1>10, <3>2
    <2>2. CASE h \notin active /\ h \in ToSet(done.order)
        <3>1. after = done
            BY <2>2, VisitCases
        <3> QED
            BY <1>4, <2>2, <3>1
    <2>3. CASE Descends(x)
        <3> DEFINE b == V[Below(d, x)]
        <3>1. after = Longer(b, h) /\ b \in Outcomes(d) /\ Right(d, Below(d, x), b)
            BY <1>3, <1>8, <2>3, VisitCases
        <3> HIDE DEF b
        <3>2. after.order = Append(b.order, h) /\ after.cycle = b.cycle
            BY <3>1 DEF Longer, Outcomes
        <3>3. ToSet(done.order) \cap (active \union {h}) = {}
            BY <1>4, <2>3 DEF Descends
        <3>4. Below(d, x)[1] = d.needs[h] /\ Below(d, x)[2] = active \union {h}
              /\ Below(d, x)[3] = done
            BY DEF Below
        <3>5. Kept(d, Below(d, x), b)
            BY <1>4, <1>10, <3>1, <3>2, <3>3, <3>4 DEF Right
        <3>6. /\ Ranked(d, b.order) /\ ToSet(d.needs[h]) \subseteq ToSet(b.order)
              /\ ToSet(done.order) \subseteq ToSet(b.order)
              /\ ToSet(b.order) \cap (active \union {h}) = {}
            BY <3>4, <3>5 DEF Kept
        <3>7. Ranked(d, Append(b.order, h))
            BY <1>7, <3>6, RankedAppend
        <3>8. ToSet(Append(b.order, h)) = ToSet(b.order) \union {h}
            BY <1>7, <3>1, SequenceElements DEF Outcomes
        <3>9. h \notin active
            BY <2>3 DEF Descends
        <3> QED
            BY <3>2, <3>6, <3>7, <3>8, <3>9
    <2> QED
        BY <2>1, <2>2, <2>3 DEF Descends
<1>12. Kept(d, rest, r)
    BY <1>4, <1>9, <1>10, <1>11 DEF Right
<1> QED
    BY <1>4, <1>7, <1>9, <1>11, <1>12 DEF Kept

LEMMA SoundIsRegular ==
    ASSUME NEW d, IsDefinition(d), Sound(d)
    PROVE  Regular(d)
<1>1. IsFiniteSet(Names(d))
    <2>1. d.vms \in Seq(Names(d))
        BY DEF IsDefinition
    <2>2. Len(d.vms) \in Nat /\ DOMAIN d.vms = 1..Len(d.vms)
        BY <2>1, LenProperties
    <2>3. IsFiniteSet(1..Len(d.vms))
        BY <2>2, FS_Interval
    <2>4. d.vms \in Surjection(1..Len(d.vms), Names(d))
        BY <2>1, <2>2 DEF Surjection, Names, ToSet
    <2> QED
        BY <2>3, <2>4, FS_Surjection
<1>2. ASSUME NEW n \in Names(d) PROVE d.needs[n] \in Seq(Names(d))
    <2>1. d.needs[n] \in Seq(ToSet(d.needs[n])) /\ ToSet(d.needs[n]) \subseteq Names(d)
        BY DEF IsDefinition, Sound
    <2> QED
        BY <2>1, SeqMonotonic
<1> QED
    BY <1>1, <1>2 DEF Regular

LEMMA FirstCall ==
    ASSUME NEW d, IsDefinition(d)
    PROVE  <<d.vms, {}, [order |-> <<>>, cycle |-> FALSE]>> \in Calls(d)
<1>1. d.vms \in Seq(Names(d)) /\ <<>> \in Seq(Names(d))
    BY EmptySeq DEF IsDefinition
<1> QED
    BY <1>1 DEF Calls, Outcomes

(* The order in which a lab's VMs are created and started has each of them
   once, and after all that it needs, for every definition that loads
   (definitions.py, dependency_order). *)
THEOREM DependencyOrderIsRight ==
    ASSUME NEW d, IsDefinition(d), Acceptable(d)
    PROVE  Topological(d, DependencyOrder(d)) /\ DependencyOrder(d) \in Seq(Names(d))
<1> DEFINE x == <<d.vms, {}, [order |-> <<>>, cycle |-> FALSE]>>
           r == VisitAll(d)[x]
<1>1. Sound(d) /\ Regular(d) /\ ~r.cycle /\ DependencyOrder(d) = r.order
    BY SoundIsRegular DEF Acceptable, Visited, DependencyOrder
<1>2. Right(d, x, r)
    BY <1>1, FirstCall, EveryCallIsRight
<1>3. Ranked(d, <<>>) /\ ToSet(<<>>) = {}
    BY EmptySeq DEF Ranked, IsInjective, ToSet
<1> HIDE DEF r
<1>4. Kept(d, x, r)
    BY <1>1, <1>2, <1>3 DEF Right
<1>5. Ranked(d, r.order) /\ Names(d) \subseteq ToSet(r.order)
    BY <1>4 DEF Kept, Names
<1>6. r.order \in Seq(Names(d)) /\ IsInjective(r.order) /\ ToSet(r.order) = Names(d)
    BY <1>5, SequenceElements DEF Ranked
<1>7. ASSUME NEW n \in Names(d), NEW m \in ToSet(d.needs[n]) PROVE Before(r.order, m, n)
    <2>1. PICK i \in DOMAIN r.order : r.order[i] = n
        BY <1>6 DEF ToSet
    <2>2. PICK j \in DOMAIN r.order : j < i /\ r.order[j] = m
        BY <1>5, <2>1 DEF Ranked
    <2> QED
        BY <2>1, <2>2 DEF Before
<1> QED
    BY <1>1, <1>6, <1>7 DEF Topological

-----------------------------------------------------------------------------

LEMMA BeforeIsAnOrder ==
    ASSUME NEW S, NEW t \in Seq(S), IsInjective(t)
    PROVE  /\ \A a : ~Before(t, a, a)
           /\ \A a, b, c : Before(t, a, b) /\ Before(t, b, c) => Before(t, a, c)
<1>1. DOMAIN t \subseteq Nat
    OBVIOUS
<1>2. ASSUME NEW a, Before(t, a, a) PROVE FALSE
    BY <1>1, <1>2 DEF Before, IsInjective
<1>3. ASSUME NEW a, NEW b, NEW c, Before(t, a, b), Before(t, b, c) PROVE Before(t, a, c)
    <2>1. PICK i, j \in DOMAIN t : i < j /\ t[i] = a /\ t[j] = b
        BY <1>3 DEF Before
    <2>2. PICK k, l \in DOMAIN t : k < l /\ t[k] = b /\ t[l] = c
        BY <1>3 DEF Before
    <2>3. j = k
        BY <2>1, <2>2 DEF IsInjective
    <2>4. i < l
        BY <1>1, <2>1, <2>2, <2>3
    <2> QED
        BY <2>1, <2>2, <2>4 DEF Before
<1> QED
    BY <1>2, <1>3

(* When there is an order, a call whose names all come before the VMs that are
   active finds no cycle. *)
Early(x, t) == \A n \in ToSet(x[1]) : \A a \in x[2] : Before(t, n, a)

LEMMA NoFalseCycle ==
    ASSUME NEW d, Regular(d), NEW t \in Seq(Names(d)), Topological(d, t)
    PROVE  \A x \in Calls(d) : ~x[3].cycle /\ Early(x, t) => ~VisitAll(d)[x].cycle
<1> DEFINE V == VisitAll(d)
           T == {x \in Calls(d) : ~x[3].cycle /\ Early(x, t) /\ V[x].cycle}
<1> SUFFICES ASSUME T # {} PROVE FALSE
    OBVIOUS
<1>1. V \in [Calls(d) -> Outcomes(d)] /\ \A x \in Calls(d) : Follows(d, V, x)
    BY VisitAllIsDefined
<1>2. /\ \A a : ~Before(t, a, a)
      /\ \A a, b, c : Before(t, a, b) /\ Before(t, b, c) => Before(t, a, c)
    BY BeforeIsAnOrder DEF Topological
<1> HIDE DEF V
<1>3. PICK x \in T : \A y \in T : ~Smaller(d, y, x)
    BY SmallestCall
<1>4. /\ x \in Calls(d) /\ ~x[3].cycle /\ Early(x, t) /\ V[x].cycle
      /\ \A y \in Calls(d) : Smaller(d, y, x) /\ ~y[3].cycle /\ Early(y, t) => ~V[y].cycle
    BY <1>3
<1> DEFINE h == Head(x[1])
           after == After(d, V, x)
           rest == Rest(d, V, x)
<1>5. ~Ends(x)
    BY <1>1, <1>4 DEF Follows
<1>6. x[1] \in Seq(Names(d)) /\ x[1] # <<>> /\ x[3] \in Outcomes(d)
    BY <1>4, <1>5 DEF Calls, Ends
<1>7. h \in Names(d) /\ h \in ToSet(x[1]) /\ ToSet(Tail(x[1])) \subseteq ToSet(x[1])
    BY <1>6, HeadTailProperties, SequenceElements
<1>8. h \notin x[2]
    BY <1>2, <1>4, <1>7 DEF Early
<1>9. Descends(x) => Below(d, x) \in Calls(d) /\ Smaller(d, Below(d, x), x)
                     /\ V[Below(d, x)] \in Outcomes(d)
    BY <1>1, <1>4, <1>5, BelowIsSmaller
<1>10. ~after.cycle
    <2>1. CASE h \in ToSet(x[3].order)
        <3>1. after = x[3]
            BY <1>8, <2>1, VisitCases
        <3> QED
            BY <1>4, <3>1
    <2>2. CASE h \notin ToSet(x[3].order)
        <3> DEFINE b == V[Below(d, x)]
        <3>1. Descends(x)
            BY <1>8, <2>2 DEF Descends
        <3>2. Below(d, x)[1] = d.needs[h] /\ Below(d, x)[2] = x[2] \union {h}
              /\ Below(d, x)[3] = x[3]
            BY DEF Below
        <3>3. \A n \in ToSet(d.needs[h]) : Before(t, n, h)
            BY <1>7 DEF Topological
        <3>4. \A a \in x[2] : Before(t, h, a)
            BY <1>4, <1>7 DEF Early
        <3>5. \A n \in ToSet(d.needs[h]) : \A a \in x[2] \union {h} : Before(t, n, a)
            BY <1>2, <3>3, <3>4
        <3>6. Early(Below(d, x), t)
            BY <3>2, <3>5 DEF Early
        <3>7. ~b.cycle /\ b \in Outcomes(d)
            BY <1>4, <1>9, <3>1, <3>2, <3>6
        <3>8. after = Longer(b, h)
            BY <3>1, VisitCases
        <3> HIDE DEF b
        <3> QED
            BY <3>7, <3>8 DEF Longer, Outcomes
    <2> QED
        BY <2>1, <2>2
<1>11. rest \in Calls(d) /\ Smaller(d, rest, x) /\ V[x] = V[rest]
    <2>1. rest \in Calls(d) /\ Smaller(d, rest, x)
        BY <1>4, <1>5, <1>9, RestIsSmaller
    <2>2. V[x] = V[rest]
        BY <1>1, <1>4, <1>5 DEF Follows
    <2> QED
        BY <2>1, <2>2
<1>12. rest[1] = Tail(x[1]) /\ rest[2] = x[2] /\ rest[3] = after
    BY DEF Rest
<1>13. Early(rest, t)
    BY <1>4, <1>7, <1>12 DEF Early
<1> QED
    BY <1>4, <1>10, <1>11, <1>12, <1>13

(* A definition is refused for a cycle only if no order has every VM after all
   that it needs (definitions.py, the error of visit). *)
THEOREM CycleIsReal ==
    ASSUME NEW d, IsDefinition(d), Sound(d), Visited(d).cycle
    PROVE  ~\E t \in Seq(Names(d)) : Topological(d, t)
<1> DEFINE x == <<d.vms, {}, [order |-> <<>>, cycle |-> FALSE]>>
<1> SUFFICES ASSUME NEW t \in Seq(Names(d)), Topological(d, t) PROVE FALSE
    OBVIOUS
<1>1. x \in Calls(d) /\ Early(x, t)
    BY FirstCall DEF Early
<1>2. ~VisitAll(d)[x].cycle
    BY <1>1, SoundIsRegular, NoFalseCycle
<1> QED
    BY <1>2 DEF Visited
=============================================================================
