----------------------- MODULE BlueprintFunctionsProofs -----------------------
(***************************************************************************)
(* Proofs about BlueprintFunctions: for any names, whichever of them is a  *)
(* part of another, and any parameters and nodes.                          *)
(***************************************************************************)
EXTENDS BlueprintFunctions, TLAPS, WellFoundedInduction

\* A function with the Blueprint's name is the first of the list: the lookup by
\* outer name takes the first graph it meets.
BlueprintFirst == Blueprint \in Functions => functions[1] = Blueprint

IInv ==
    /\ TypeOK
    /\ BlueprintFirst
    /\ ItemsWhereAsked

-----------------------------------------------------------------------------
(***************************************************************************)
(* Lookups.                                                                *)
(***************************************************************************)

\* Natural numbers have a least one.
LEMMA Least ==
    ASSUME NEW N \in SUBSET Nat, N # {}
    PROVE  Min(N) \in N /\ \A j \in N : Min(N) <= j
<1> DEFINE R == OpToRel(<, Nat)
<1>1. IsWellFoundedOn(R, Nat)
    BY NatLessThanWellFounded
<1> HIDE DEF R
<1>2. PICK i \in N : \A j \in N : ~(<<j, i>> \in R)
    BY <1>1, WFMin, Zenon
<1>3. ASSUME NEW j \in N, j < i PROVE <<j, i>> \in R
  <2>1. <<j, i>> \in Nat \X Nat
      OBVIOUS
  <2>2. <<j, i>>[1] < <<j, i>>[2]
      BY <1>3
  <2> QED BY <2>1, <2>2, Zenon DEF R, OpToRel
<1>4. \A j \in N : i <= j
  <2> TAKE j \in N
  <2>1. i \in Nat /\ j \in Nat /\ ~(j < i)
      BY <1>2, <1>3
  <2> QED BY <2>1
<1> DEFINE IsLeast(x) == x \in N /\ \A y \in N : x <= y
<1>5. \E x : IsLeast(x)
    BY <1>4
<1>6. Min(N) = CHOOSE x : IsLeast(x)
    BY Zenon DEF Min
<1> HIDE DEF IsLeast
<1>7. IsLeast(Min(N))
    BY <1>5, <1>6, Zenon
<1> QED BY <1>7 DEF IsLeast

LEMMA FirstOf ==
    ASSUME functions \in Seq(Names), NEW S
    PROVE  \/ /\ FirstGraph(S) = NoGraph
              /\ \A i \in 1..Len(functions) : functions[i] \notin S
           \/ \E i \in 1..Len(functions) :
                /\ functions[i] \in S /\ FirstGraph(S) = functions[i]
                /\ \A j \in 1..Len(functions) : j < i => functions[j] \notin S
<1> DEFINE I == {i \in 1..Len(functions) : functions[i] \in S}
<1>1. FirstGraph(S) = IF I = {} THEN NoGraph ELSE functions[Min(I)]
  <2>1. SelectInSeq(functions, LAMBDA f : f \in S) = IF I # {} THEN Min(I) ELSE 0
      BY DEF SelectInSeq
  <2>2. I # {} => Min(I) # 0
    <3>1. I \in SUBSET Nat /\ 0 \notin I
        OBVIOUS
    <3> HIDE DEF I
    <3> QED BY <3>1, Least
  <2> HIDE DEF I
  <2> QED BY <2>1, <2>2 DEF FirstGraph
<1>2. CASE I = {}
    BY <1>1, <1>2
<1>3. CASE I # {}
  <2>1. Min(I) \in I /\ \A j \in I : Min(I) <= j
    <3>1. I \in SUBSET Nat
        OBVIOUS
    <3> HIDE DEF I
    <3> QED BY <1>3, <3>1, Least
  <2>2. PICK i \in I : i = Min(I) /\ \A j \in I : i <= j
      BY <2>1
  <2>3. FirstGraph(S) = functions[i]
      BY <1>1, <1>3, <2>2
  <2>4. \A j \in 1..Len(functions) : j < i => functions[j] \notin S
      BY <2>2
  <2> QED BY <2>2, <2>3, <2>4
<1> QED BY <1>2, <1>3

\* The names in the list are those of its places.
LEMMA Places ==
    ASSUME functions \in Seq(Names)
    PROVE  /\ Functions \subseteq Names
           /\ \A f : f \in Functions <=> \E i \in 1..Len(functions) : functions[i] = f
    BY DEF Functions, ToSet

\* Whatever a lookup finds is a function.
LEMMA FirstIsFunction ==
    ASSUME functions \in Seq(Names), NEW S, FirstGraph(S) # NoGraph
    PROVE  FirstGraph(S) \in Functions
    BY FirstOf, Places

LEMMA FindIsFunction ==
    ASSUME functions \in Seq(Names), NEW n, FindFunctionGraph(n) # NoGraph
    PROVE  FindFunctionGraph(n) \in Functions
<1>1. CASE functions # <<>> /\ n = Blueprint
  <2>1. Head(functions) = functions[1] /\ 1 \in 1..Len(functions)
      BY <1>1
  <2> QED BY <1>1, <2>1, Places, FirstIsFunction DEF FindFunctionGraph, FirstContaining
<1>2. CASE ~(functions # <<>> /\ n = Blueprint)
    BY <1>2, FirstIsFunction DEF FindFunctionGraph, FirstContaining
<1> QED BY <1>1, <1>2

LEMMA FunctionGraphIsFunction ==
    ASSUME functions \in Seq(Names), NEW n, FunctionGraph(n) # NoGraph
    PROVE  FunctionGraph(n) \in Functions
    BY FirstIsFunction DEF FunctionGraph, FirstContaining

\* A name that no lookup resolves is new, and for the Blueprint's there is no
\* function at all.
LEMMA NotFound ==
    ASSUME TypeOK, NEW n \in Names, FindFunctionGraph(n) = NoGraph
    PROVE  n \notin Functions /\ (n = Blueprint => functions = <<>>)
<1>1. n \notin Functions
    BY NamesAssumption DEF NamesAssumption, FindFunctionGraph
<1>2. ASSUME n = Blueprint, functions # <<>> PROVE FALSE
  <2>1. functions[1] \in Names /\ Head(functions) = functions[1]
      BY <1>2 DEF TypeOK
  <2> QED BY <1>1, <1>2, <2>1, NamesAssumption DEF NamesAssumption, FindFunctionGraph
<1> QED BY <1>1, <1>2

\* The lookups agree.
LEMMA Agree ==
    ASSUME TypeOK, BlueprintFirst
    PROVE  LookupsAgree
<1> SUFFICES ASSUME NEW f \in Functions
             PROVE  FunctionGraph(f) = f
    BY DEF LookupsAgree, FindFunctionGraph, GetGraph
<1>1. functions \in Seq(Names) /\ f \in Names /\ NoGraph \notin Names
    BY Places, NamesAssumption DEF TypeOK, NamesAssumption
<1>2. PICK i \in 1..Len(functions) : functions[i] = f
    BY <1>1, Places
<1>3. CASE f = Blueprint
  <2>1. functions[1] = f /\ 1 \in 1..Len(functions)
      BY <1>2, <1>3 DEF BlueprintFirst
  <2>2. FirstGraph(Names) = f
      BY <1>1, <2>1, FirstOf
  <2> QED BY <1>1, <1>3, <2>2 DEF FunctionGraph
<1>4. CASE f # Blueprint
  <2>1. FirstGraph({f}) = f
      BY <1>1, <1>2, FirstOf
  <2> QED BY <1>1, <1>4, <2>1 DEF FunctionGraph
<1> QED BY <1>3, <1>4

-----------------------------------------------------------------------------
(***************************************************************************)
(* Commands.                                                               *)
(***************************************************************************)

\* The names after one was appended.
LEMMA Appended ==
    ASSUME TypeOK, NEW n \in Names, functions' = Append(functions, n)
    PROVE  /\ functions' \in Seq(Names) /\ Len(functions') = Len(functions) + 1
           /\ \A i \in 1..Len(functions) : functions'[i] = functions[i]
           /\ functions'[Len(functions) + 1] = n
           /\ Functions' = Functions \cup {n}
<1>1. functions \in Seq(Names)
    BY DEF TypeOK
<1>2. /\ functions' \in Seq(Names) /\ Len(functions') = Len(functions) + 1
      /\ \A i \in 1..Len(functions) : functions'[i] = functions[i]
      /\ functions'[Len(functions) + 1] = n
    BY <1>1
<1>3. \A f : f \in Functions' <=> \E i \in 1..Len(functions') : functions'[i] = f
    BY <1>2 DEF Functions, ToSet
<1>4. \A f : f \in Functions <=> \E i \in 1..Len(functions) : functions[i] = f
    BY <1>1, Places
<1>5. 1..Len(functions') = 1..Len(functions) \cup {Len(functions) + 1}
    BY <1>1, <1>2
<1> QED BY <1>2, <1>3, <1>4, <1>5

LEMMA CreateKeeps ==
    ASSUME IInv, NEW n \in Names, CreateFunction(n)
    PROVE  IInv'
<1>1. /\ functions' = Append(functions, n) /\ Len(functions) < MaxFunctions
      /\ items' = [items EXCEPT ![n] = {Entry}]
      /\ UNCHANGED <<scripted, asked>>
    BY DEF CreateFunction
<1>2. n \notin Functions /\ (n = Blueprint => functions = <<>>)
    BY NotFound DEF CreateFunction, IInv
<1>3. functions \in Seq(Names) /\ MaxFunctions \in Nat
    BY NamesAssumption DEF IInv, TypeOK, NamesAssumption
<1>4. /\ functions' \in Seq(Names) /\ Len(functions') = Len(functions) + 1
      /\ \A i \in 1..Len(functions) : functions'[i] = functions[i]
      /\ functions'[Len(functions) + 1] = n
    BY <1>1, Appended DEF IInv
<1>5. \A i \in 1..Len(functions) : functions[i] # n
    BY <1>2, <1>3, Places
<1>6. Functions' = Functions \cup {n}
    BY <1>1, Appended DEF IInv
<1>7. TypeOK'
  <2>1. \A i, j \in DOMAIN functions' : functions'[i] = functions'[j] => i = j
      BY <1>3, <1>4, <1>5 DEF IInv, TypeOK
  <2>2. /\ items' \in [Names -> SUBSET Items]
        /\ \A m \in Names \ Functions' : items'[m] = {}
      BY <1>1, <1>6 DEF IInv, TypeOK, Items
  <2>3. Len(functions') <= MaxFunctions
      BY <1>1, <1>3, <1>4
  <2> QED BY <1>1, <1>4, <2>1, <2>2, <2>3 DEF IInv, TypeOK
<1>8. BlueprintFirst'
  <2>1. CASE n = Blueprint
      BY <1>2, <1>3, <1>4, <2>1 DEF BlueprintFirst
  <2>2. CASE n # Blueprint
    <3> SUFFICES ASSUME Blueprint \in Functions
                 PROVE  functions'[1] = Blueprint
        BY <1>6, <2>2 DEF BlueprintFirst
    <3>1. functions[1] = Blueprint /\ 1 \in 1..Len(functions)
        BY <1>3, Places DEF IInv, BlueprintFirst
    <3> QED BY <1>4, <3>1
  <2> QED BY <2>1, <2>2
<1>9. ItemsWhereAsked'
    BY <1>1, <1>2, <1>6 DEF IInv, TypeOK, ItemsWhereAsked
<1> QED BY <1>7, <1>8, <1>9 DEF IInv

\* What is left when one function is taken from the list.
LEMMA Removed ==
    ASSUME TypeOK, NEW g \in Functions
    PROVE  LET s == RemoveFirst(functions, g) IN
           /\ s \in Seq(Names) /\ Len(s) = Len(functions) - 1
           /\ \A i, j \in 1..Len(s) : s[i] = s[j] => i = j
           /\ ToSet(s) = Functions \ {g}
           /\ g # functions[1] => s[1] = functions[1]
<1> DEFINE s == RemoveFirst(functions, g)
<1>1. functions \in Seq(Names)
    BY DEF TypeOK
<1>2. PICK k \in 1..Len(functions) : functions[k] = g /\ s = RemoveAt(functions, k)
  <2> DEFINE I == {i \in 1..Len(functions) : functions[i] = g}
  <2>1. PICK i \in 1..Len(functions) : functions[i] = g
      BY <1>1, Places
  <2>2. I # {} /\ I \in SUBSET Nat
      BY <2>1
  <2>3. Min(I) \in I
    <3> HIDE DEF I
    <3> QED BY <2>2, Least
  <2>4. SelectInSeq(functions, LAMBDA v : v = g) = Min(I)
      BY <2>2 DEF SelectInSeq
  <2>5. s = RemoveAt(functions, Min(I))
      BY <2>1, <2>4 DEF RemoveFirst
  <2> QED BY <2>3, <2>5
<1>3. s = SubSeq(functions, 1, k - 1) \o SubSeq(functions, k + 1, Len(functions))
    BY <1>2 DEF RemoveAt
<1> HIDE DEF s
<1>4. /\ s \in Seq(Names) /\ Len(s) = Len(functions) - 1
      /\ \A i \in 1..Len(s) : s[i] = IF i < k THEN functions[i] ELSE functions[i + 1]
  <2> DEFINE front == SubSeq(functions, 1, k - 1)
             back == SubSeq(functions, k + 1, Len(functions))
  <2>1. /\ front \in Seq(Names) /\ Len(front) = k - 1
        /\ \A i \in 1..k - 1 : front[i] = functions[i]
      BY <1>1
  <2>2. /\ back \in Seq(Names) /\ Len(back) = Len(functions) - k
        /\ \A i \in 1..Len(functions) - k : back[i] = functions[i + k]
      BY <1>1
  <2> HIDE DEF front, back
  <2>3. s = front \o back
      BY <1>3 DEF front, back
  <2>4. s \in Seq(Names) /\ Len(s) = Len(functions) - 1
      BY <1>1, <2>1, <2>2, <2>3
  <2>5. ASSUME NEW i \in 1..Len(s)
        PROVE  s[i] = IF i < k THEN functions[i] ELSE functions[i + 1]
    <3>1. CASE i < k
        BY <1>1, <2>1, <2>2, <2>3, <2>4, <3>1
    <3>2. CASE i >= k
      <4>1. i - (k - 1) \in 1..Len(functions) - k /\ (i - (k - 1)) + k = i + 1
          BY <1>1, <2>4, <3>2
      <4>2. s[i] = back[i - (k - 1)]
        <5>1. i \in 1..Len(front) + Len(back) /\ ~(i <= Len(front))
            BY <1>1, <2>1, <2>2, <2>4, <3>2
        <5> QED BY <2>1, <2>2, <2>3, <5>1
      <4> QED BY <2>2, <3>2, <4>1, <4>2
    <3> QED BY <3>1, <3>2
  <2> QED BY <2>4, <2>5
<1>5. \A i, j \in 1..Len(functions) : functions[i] = functions[j] => i = j
    BY <1>1 DEF TypeOK
<1>6. \A i, j \in 1..Len(s) : s[i] = s[j] => i = j
    BY <1>1, <1>2, <1>4, <1>5
<1>7. ToSet(s) = Functions \ {g}
  <2>1. \A f : f \in ToSet(s) <=> \E i \in 1..Len(s) : s[i] = f
      BY <1>4 DEF ToSet
  <2>2. ASSUME NEW i \in 1..Len(s) PROVE s[i] \in Functions \ {g}
      BY <1>1, <1>2, <1>4, <1>5, Places
  <2>3. ASSUME NEW f \in Functions \ {g} PROVE \E i \in 1..Len(s) : s[i] = f
    <3>1. PICK i \in 1..Len(functions) : functions[i] = f
        BY <1>1, Places
    <3>2. CASE i < k
        BY <1>1, <1>2, <1>4, <3>1, <3>2
    <3>3. CASE i > k
      <4>1. i - 1 \in 1..Len(s) /\ ~(i - 1 < k) /\ (i - 1) + 1 = i
          BY <1>1, <1>2, <1>4, <3>3
      <4> QED BY <1>4, <3>1, <4>1
    <3> QED BY <1>2, <3>1, <3>2, <3>3
  <2> QED BY <2>1, <2>2, <2>3
<1>8. ASSUME g # functions[1] PROVE s[1] = functions[1]
  <2>1. 1 < k /\ 1 \in 1..Len(s)
      BY <1>1, <1>2, <1>4, <1>8
  <2> QED BY <1>4, <2>1
<1> QED BY <1>4, <1>6, <1>7, <1>8 DEF s

LEMMA DeleteKeeps ==
    ASSUME IInv, NEW n \in Names, DeleteFunction(n)
    PROVE  IInv'
<1> DEFINE g == FindFunctionGraph(n)
<1>1. /\ functions' = RemoveFirst(functions, g)
      /\ items' = [items EXCEPT ![g] = {}]
      /\ asked' = {a \in asked : a[1] # g}
      /\ scripted' = scripted
    BY DEF DeleteFunction
<1>2. functions \in Seq(Names) /\ g \in Functions /\ g \in Names
    BY FindIsFunction, Places DEF DeleteFunction, IInv, TypeOK
<1> HIDE DEF g
<1>3. /\ functions' \in Seq(Names) /\ Len(functions') = Len(functions) - 1
      /\ \A i, j \in 1..Len(functions') : functions'[i] = functions'[j] => i = j
      /\ Functions' = Functions \ {g}
      /\ g # functions[1] => functions'[1] = functions[1]
    BY <1>1, <1>2, Removed DEF IInv, Functions
<1>4. TypeOK'
  <2>1. Len(functions') <= MaxFunctions
      BY <1>2, <1>3, NamesAssumption DEF IInv, TypeOK, NamesAssumption
  <2>2. /\ items' \in [Names -> SUBSET Items]
        /\ \A m \in Names \ Functions' : items'[m] = {}
      BY <1>1, <1>2, <1>3 DEF IInv, TypeOK
  <2>3. \A i, j \in DOMAIN functions' : functions'[i] = functions'[j] => i = j
      BY <1>3
  <2> QED BY <1>1, <1>3, <2>1, <2>2, <2>3 DEF IInv, TypeOK
<1>5. BlueprintFirst'
    BY <1>3 DEF IInv, BlueprintFirst
<1>6. ItemsWhereAsked'
    BY <1>1, <1>2, <1>3 DEF IInv, TypeOK, ItemsWhereAsked
<1> QED BY <1>4, <1>5, <1>6 DEF IInv

\* The names after one took the place of another.
LEMMA Replaced ==
    ASSUME TypeOK, NEW g \in Functions, NEW n \in Names,
           functions' = [i \in DOMAIN functions |-> IF functions[i] = g THEN n ELSE functions[i]]
    PROVE  /\ functions' \in Seq(Names) /\ Len(functions') = Len(functions)
           /\ \A i \in 1..Len(functions) :
                 functions'[i] = IF functions[i] = g THEN n ELSE functions[i]
           /\ Functions' = (Functions \ {g}) \cup {n}
<1>1. functions \in Seq(Names)
    BY DEF TypeOK
<1>2. /\ functions' \in Seq(Names) /\ Len(functions') = Len(functions)
      /\ \A i \in 1..Len(functions) :
            functions'[i] = IF functions[i] = g THEN n ELSE functions[i]
    BY <1>1
<1>3. \A f : f \in Functions <=> \E i \in 1..Len(functions) : functions[i] = f
    BY <1>1, Places
<1>4. \A f : f \in Functions' <=> \E i \in 1..Len(functions) : functions'[i] = f
    BY <1>2 DEF Functions, ToSet
<1> QED BY <1>2, <1>3, <1>4

LEMMA RenameKeeps ==
    ASSUME IInv, NEW old \in Names, NEW n \in Names, RenameFunction(old, n)
    PROVE  IInv'
<1> DEFINE g == FindFunctionGraph(old)
<1>1. /\ functions' = [i \in DOMAIN functions |-> IF functions[i] = g THEN n ELSE functions[i]]
      /\ items' = [items EXCEPT ![g] = {}, ![n] = items[g]]
      /\ asked' = {<<IF a[1] = g THEN n ELSE a[1], a[2]>> : a \in asked}
      /\ scripted' = scripted
    BY DEF RenameFunction, Renamed
<1>2. functions \in Seq(Names) /\ g \in Functions /\ g \in Names
    BY FindIsFunction, Places DEF RenameFunction, IInv, TypeOK
<1>3. n \notin Functions /\ n # Blueprint
  <2>1. functions # <<>>
      BY <1>2, Places
  <2> QED BY <2>1, NotFound DEF RenameFunction, IInv
<1> HIDE DEF g
<1>4. /\ functions' \in Seq(Names) /\ Len(functions') = Len(functions)
      /\ \A i \in 1..Len(functions) :
            functions'[i] = IF functions[i] = g THEN n ELSE functions[i]
      /\ Functions' = (Functions \ {g}) \cup {n}
    BY <1>1, <1>2, Replaced DEF IInv
<1>5. \A f : f \in Functions <=> \E i \in 1..Len(functions) : functions[i] = f
    BY <1>2, Places
<1>6. Functions' = (Functions \ {g}) \cup {n}
    BY <1>4
<1>7. TypeOK'
  <2>1. \A i, j \in 1..Len(functions) : functions[i] = functions[j] => i = j
      BY <1>2 DEF IInv, TypeOK
  <2>2. \A i, j \in DOMAIN functions' : functions'[i] = functions'[j] => i = j
      BY <1>3, <1>4, <1>5, <2>1
  <2>3. /\ items' \in [Names -> SUBSET Items]
        /\ \A m \in Names \ Functions' : items'[m] = {}
      BY <1>1, <1>2, <1>3, <1>6 DEF IInv, TypeOK
  <2>4. asked' \subseteq Names \X Items
      BY <1>1 DEF IInv, TypeOK
  <2> QED BY <1>1, <1>4, <2>2, <2>3, <2>4 DEF IInv, TypeOK
<1>8. BlueprintFirst'
  <2> SUFFICES ASSUME Blueprint \in Functions \ {g}
               PROVE  functions'[1] = Blueprint
      BY <1>3, <1>6 DEF BlueprintFirst
  <2>1. functions[1] = Blueprint /\ 1 \in 1..Len(functions)
      BY <1>2, Places DEF IInv, BlueprintFirst
  <2> QED BY <1>4, <2>1
<1>9. ItemsWhereAsked'
  <2> SUFFICES ASSUME NEW b \in asked'
               PROVE  b[1] \in Functions' /\ b[2] \in items'[b[1]]
      BY DEF ItemsWhereAsked
  <2> PICK a \in asked : b = <<IF a[1] = g THEN n ELSE a[1], a[2]>>
      BY <1>1
  <2>1. a[1] \in Functions /\ a[1] \in Names /\ a[2] \in items[a[1]]
      BY DEF IInv, TypeOK, ItemsWhereAsked
  <2> QED BY <1>1, <1>2, <1>3, <1>6, <2>1 DEF IInv, TypeOK
<1> QED BY <1>7, <1>8, <1>9 DEF IInv

\* A command that adds to a function and tells the tool so adds it to the function
\* of the name that was given, if there is one.
LEMMA AddKeeps ==
    ASSUME IInv, NEW n \in Names, NEW i \in Items, NEW more \in SUBSET Items,
           FunctionGraph(n) # NoGraph,
           items' = [items EXCEPT ![FunctionGraph(n)] = @ \cup {i} \cup more],
           Told(n, i),
           UNCHANGED <<functions, scripted>>
    PROVE  IInv'
<1> DEFINE g == FunctionGraph(n)
<1>1. functions \in Seq(Names) /\ g \in Functions /\ g \in Names
    BY FunctionGraphIsFunction, Places DEF IInv, TypeOK
<1>2. n \in Functions => g = n
    BY Agree DEF IInv, LookupsAgree
<1>3. items' = [items EXCEPT ![g] = @ \cup {i} \cup more]
    OBVIOUS
<1> HIDE DEF g
<1>4. Functions' = Functions
    BY DEF Functions
<1>5. TypeOK'
  <2>1. /\ items' \in [Names -> SUBSET Items]
        /\ \A m \in Names \ Functions : items'[m] = {}
      BY <1>1, <1>3 DEF IInv, TypeOK
  <2>2. asked' \subseteq Names \X Items
      BY DEF IInv, TypeOK, Told
  <2> QED BY <1>4, <2>1, <2>2 DEF IInv, TypeOK
<1>6. BlueprintFirst'
    BY <1>4 DEF IInv, BlueprintFirst
<1>7. ItemsWhereAsked'
  <2> SUFFICES ASSUME NEW a \in asked'
               PROVE  a[1] \in Functions /\ a[2] \in items'[a[1]]
      BY <1>4 DEF ItemsWhereAsked
  <2>1. CASE a \in asked
    <3>1. a[1] \in Functions /\ a[1] \in Names /\ a[2] \in items[a[1]]
        BY <2>1 DEF IInv, TypeOK, ItemsWhereAsked
    <3> QED BY <1>1, <1>3, <3>1 DEF IInv, TypeOK
  <2>2. CASE a \notin asked
    <3>1. n \in Functions /\ a = <<n, i>>
        BY <2>2 DEF Told
    <3> QED BY <1>1, <1>2, <1>3, <3>1 DEF IInv, TypeOK
  <2> QED BY <2>1, <2>2
<1> QED BY <1>5, <1>6, <1>7 DEF IInv

LEMMA DeleteNodeKeeps ==
    ASSUME IInv, NEW n \in Names, NEW i, DeleteNode(n, i)
    PROVE  IInv'
<1>1. PICK gone :
        /\ items' = [items EXCEPT ![GetGraph(n)] = @ \ gone]
        /\ asked' = asked \ ({GetGraph(n)} \X gone)
        /\ GetGraph(n) # NoGraph
        /\ UNCHANGED <<functions, scripted>>
    BY DEF DeleteNode
<1>2. GetGraph(n) = n /\ n \in Functions
    BY <1>1 DEF GetGraph
<1>3. Functions' = Functions
    BY <1>1 DEF Functions
<1>4. TypeOK'
    BY <1>1, <1>2, <1>3 DEF IInv, TypeOK
<1>5. BlueprintFirst'
    BY <1>1, <1>3 DEF IInv, BlueprintFirst
<1>6. ItemsWhereAsked'
  <2> SUFFICES ASSUME NEW a \in asked, a \notin {n} \X gone
               PROVE  a[1] \in Functions /\ a[2] \in items'[a[1]]
      BY <1>1, <1>2, <1>3 DEF ItemsWhereAsked
  <2>1. /\ a[1] \in Functions /\ a[1] \in Names /\ a[2] \in items[a[1]]
        /\ a = <<a[1], a[2]>>
      BY DEF IInv, TypeOK, ItemsWhereAsked
  <2>2. a[1] = n => a[2] \notin gone
      BY <2>1
  <2> QED BY <1>1, <1>2, <2>1, <2>2 DEF IInv, TypeOK
<1> QED BY <1>4, <1>5, <1>6 DEF IInv

-----------------------------------------------------------------------------
(***************************************************************************)
(* The theorems.                                                           *)
(***************************************************************************)

\* The invariant holds throughout every behaviour.
THEOREM Inductive == Spec => []IInv
<1>1. Init => IInv
  <2> SUFFICES ASSUME Init PROVE IInv
      OBVIOUS
  <2>1. Script \in Names /\ MaxFunctions \in Nat \ {0}
      BY NamesAssumption DEF NamesAssumption
  <2>2. Functions = IF scripted THEN {Script} ELSE {}
      BY DEF Init, Functions, ToSet
  <2>3. TypeOK
    <3>1. functions \in Seq(Names) /\ Len(functions) <= MaxFunctions
        BY <2>1 DEF Init
    <3>2. \A i, j \in DOMAIN functions : functions[i] = functions[j] => i = j
        BY DEF Init
    <3> QED BY <2>1, <2>2, <3>1, <3>2 DEF Init, TypeOK, Items
  <2>4. BlueprintFirst /\ ItemsWhereAsked
      BY <2>2 DEF Init, BlueprintFirst, ItemsWhereAsked
  <2> QED BY <2>3, <2>4 DEF IInv
<1>2. IInv /\ [Next]_vars => IInv'
  <2> SUFFICES ASSUME IInv, [Next]_vars PROVE IInv'
      OBVIOUS
  <2>1. ASSUME NEW n \in Names, CreateFunction(n) PROVE IInv'
      BY <2>1, CreateKeeps
  <2>2. ASSUME NEW n \in Names, DeleteFunction(n) PROVE IInv'
      BY <2>2, DeleteKeeps
  <2>3. ASSUME NEW n \in Names, NEW new \in Names, RenameFunction(n, new) PROVE IInv'
      BY <2>3, RenameKeeps
  <2>4. ASSUME NEW n \in Names, NEW p \in Inputs \cup Outputs, AddFunctionIO(n, p) PROVE IInv'
    <3> DEFINE more == IF p \in Inputs THEN {} ELSE {Result}
    <3>1. p \in Items /\ more \in SUBSET Items
        BY DEF Items
    <3>2. /\ FunctionGraph(n) # NoGraph
          /\ items' = [items EXCEPT ![FunctionGraph(n)] = @ \cup {p} \cup more]
          /\ Told(n, p)
          /\ UNCHANGED <<functions, scripted>>
        BY <2>4 DEF AddFunctionIO
    <3> HIDE DEF more
    <3> QED BY <3>1, <3>2, AddKeeps
  <2>5. ASSUME NEW n \in Names, NEW i \in Nodes, AddNode(n, i) PROVE IInv'
    <3>1. i \in Items /\ {} \in SUBSET Items
        BY DEF Items
    <3>2. /\ FunctionGraph(n) # NoGraph
          /\ items' = [items EXCEPT ![FunctionGraph(n)] = @ \cup {i} \cup {}]
          /\ Told(n, i)
          /\ UNCHANGED <<functions, scripted>>
        BY <2>5 DEF AddNode
    <3> QED BY <3>1, <3>2, AddKeeps
  <2>6. ASSUME NEW n \in Names, NEW i, DeleteNode(n, i) PROVE IInv'
      BY <2>6, DeleteNodeKeeps
  <2>7. CASE UNCHANGED vars
    <3>1. Functions' = Functions
        BY <2>7 DEF vars, Functions
    <3> QED BY <2>7, <3>1 DEF vars, IInv, TypeOK, BlueprintFirst, ItemsWhereAsked
  <2> QED BY <2>1, <2>2, <2>3, <2>4, <2>5, <2>6, <2>7 DEF Next
<1> QED BY <1>1, <1>2, PTL DEF Spec

\* Every variable keeps its type, and no two functions get the same name.
THEOREM TypeCorrect == Spec => []TypeOK
<1>1. IInv => TypeOK
    BY DEF IInv
<1> QED BY <1>1, Inductive, PTL

\* All commands reach the same function by its name.
THEOREM LookupsAlwaysAgree == Spec => []LookupsAgree
<1>1. IInv => LookupsAgree
    BY Agree DEF IInv
<1> QED BY <1>1, Inductive, PTL

\* What a tool was told it added is in the function it named.
THEOREM ItemsStayWhereAsked == Spec => []ItemsWhereAsked
<1>1. IInv => ItemsWhereAsked
    BY DEF IInv
<1> QED BY <1>1, Inductive, PTL

-----------------------------------------------------------------------------
(***************************************************************************)
(* The functions implement FunctionTable.                                  *)
(***************************************************************************)

LEMMA TableOf ==
    /\ Table = [f \in Functions |-> items[f]] /\ DOMAIN Table = Functions
    /\ Table' = [f \in Functions' |-> items'[f]]
    /\ \A f \in Functions : Table[f] = items[f]
    BY DEF Table

\* A step that changes one entry of the table.
LEMMA EntryChanges ==
    ASSUME TypeOK, NEW g \in Functions, NEW s,
           items' = [items EXCEPT ![g] = s], UNCHANGED functions
    PROVE  Table' = [Table EXCEPT ![g] = s]
<1>1. Functions' = Functions /\ Functions \subseteq Names
    BY Places DEF Functions, TypeOK
<1>2. \A f \in Functions : items'[f] = [Table EXCEPT ![g] = s][f]
    BY <1>1, TableOf DEF TypeOK
<1> DEFINE t == [Table EXCEPT ![g] = s]
<1>3. t = [f \in Functions |-> t[f]]
    BY TableOf
<1>4. \A f \in Functions : items'[f] = t[f]
    BY <1>2
<1> HIDE DEF t
<1>5. [f \in Functions |-> items'[f]] = [f \in Functions |-> t[f]]
    BY <1>4, Zenon
<1> QED BY <1>1, <1>3, <1>5, TableOf DEF t

LEMMA CreateView ==
    ASSUME IInv, NEW n \in Names, CreateFunction(n)
    PROVE  View!Next
<1>1. /\ n \notin Functions /\ Functions' = Functions \cup {n} /\ Functions \subseteq Names
      /\ items' = [items EXCEPT ![n] = {Entry}] /\ asked' = asked
    BY NotFound, Appended, Places DEF CreateFunction, IInv, TypeOK
<1>2. \A m \in Functions \cup {n} : items'[m] = IF m = n THEN {Entry} ELSE Table[m]
    BY <1>1, TableOf DEF IInv, TypeOK
<1>3. [m \in Functions \cup {n} |-> items'[m]]
        = [m \in Functions \cup {n} |-> IF m = n THEN {Entry} ELSE Table[m]]
    BY <1>2, Zenon
<1>4. View!Create(n)
    BY <1>1, <1>3, TableOf DEF View!Create
<1> QED BY <1>4 DEF View!Next

LEMMA DeleteView ==
    ASSUME IInv, NEW n \in Names, DeleteFunction(n)
    PROVE  View!Next
<1>1. PICK g \in Functions :
        /\ functions' = RemoveFirst(functions, g)
        /\ items' = [items EXCEPT ![g] = {}]
        /\ asked' = {a \in asked : a[1] # g}
    BY FindIsFunction DEF DeleteFunction, IInv, TypeOK
<1>2. Functions' = Functions \ {g} /\ Functions \subseteq Names
    BY <1>1, Removed, Places DEF IInv, TypeOK, Functions
<1>3. \A m \in Functions \ {g} : items'[m] = Table[m]
    BY <1>1, <1>2, TableOf DEF IInv, TypeOK
<1>4. [m \in Functions \ {g} |-> items'[m]] = [m \in Functions \ {g} |-> Table[m]]
    BY <1>3, Zenon
<1>5. View!Delete(g)
    BY <1>1, <1>2, <1>4, TableOf DEF View!Delete
<1> QED BY <1>5, TableOf DEF View!Next

LEMMA RenameView ==
    ASSUME IInv, NEW old \in Names, NEW n \in Names, RenameFunction(old, n)
    PROVE  View!Next
<1>1. PICK g \in Functions :
        /\ functions' = [i \in DOMAIN functions |-> IF functions[i] = g THEN n ELSE functions[i]]
        /\ items' = [items EXCEPT ![g] = {}, ![n] = items[g]]
        /\ asked' = {<<IF a[1] = g THEN n ELSE a[1], a[2]>> : a \in asked}
    BY FindIsFunction DEF RenameFunction, Renamed, IInv, TypeOK
<1>2. /\ n \notin Functions /\ Functions' = (Functions \ {g}) \cup {n}
      /\ Functions \subseteq Names
    BY <1>1, NotFound, Replaced, Places DEF RenameFunction, IInv, TypeOK
<1>3. \A m \in (Functions \ {g}) \cup {n} : items'[m] = IF m = n THEN Table[g] ELSE Table[m]
    BY <1>1, <1>2, TableOf DEF IInv, TypeOK
<1>4. [m \in (Functions \ {g}) \cup {n} |-> items'[m]]
        = [m \in (Functions \ {g}) \cup {n} |-> IF m = n THEN Table[g] ELSE Table[m]]
    BY <1>3, Zenon
<1>5. View!Rename(g, n)
    BY <1>1, <1>2, <1>4, TableOf DEF View!Rename
<1> QED BY <1>5, TableOf DEF View!Next

LEMMA AddFunctionIOView ==
    ASSUME IInv, NEW n \in Names, NEW p \in Inputs \cup Outputs, AddFunctionIO(n, p)
    PROVE  View!Next
<1>1. PICK g \in Functions :
        /\ g = FunctionGraph(n)
        /\ p \in Inputs => Entry \in items[g]
        /\ items' = [items EXCEPT ![g] = items[g] \cup {p} \cup (IF p \in Inputs THEN {} ELSE {Result})]
        /\ functions' = functions
    BY FunctionGraphIsFunction DEF AddFunctionIO, IInv, TypeOK
<1>2. asked' = asked \/ asked' = asked \cup {<<g, p>>}
    BY <1>1, Agree DEF AddFunctionIO, Told, IInv, LookupsAgree
<1>3. Table' = [Table EXCEPT ![g] = Table[g] \cup {p} \cup (IF p \in Inputs THEN {} ELSE {Result})]
    BY <1>1, EntryChanges, TableOf DEF IInv
<1>4. View!AddParameter(g, p)
    BY <1>1, <1>2, <1>3, TableOf DEF View!AddParameter, View!Tell
<1> QED BY <1>4, TableOf DEF View!Next

LEMMA AddNodeView ==
    ASSUME IInv, NEW n \in Names, NEW i \in Nodes, AddNode(n, i)
    PROVE  View!Next
<1>1. PICK g \in Functions :
        /\ g = FunctionGraph(n)
        /\ items' = [items EXCEPT ![g] = items[g] \cup {i}]
        /\ functions' = functions
    BY FunctionGraphIsFunction DEF AddNode, IInv, TypeOK
<1>2. asked' = asked \/ asked' = asked \cup {<<g, i>>}
    BY <1>1, Agree DEF AddNode, Told, IInv, LookupsAgree
<1>3. Table' = [Table EXCEPT ![g] = Table[g] \cup {i}]
    BY <1>1, EntryChanges, TableOf DEF IInv
<1>4. View!AddNode(g, i)
    BY <1>1, <1>2, <1>3, TableOf DEF View!AddNode, View!Tell
<1> QED BY <1>4, TableOf DEF View!Next

LEMMA DeleteNodeView ==
    ASSUME IInv, NEW n \in Names, NEW i \in Nodes \cup {Entry, Result}, DeleteNode(n, i)
    PROVE  View!Next
<1> DEFINE gone == {i} \cup (IF i = Entry THEN Inputs ELSE {})
                       \cup (IF i = Result THEN Outputs ELSE {})
<1>1. /\ n \in Functions /\ GetGraph(n) = n
      /\ items' = [items EXCEPT ![n] = items[n] \ gone]
      /\ asked' = asked \ ({n} \X gone)
      /\ functions' = functions
    BY DEF DeleteNode, GetGraph
<1>2. Table' = [Table EXCEPT ![n] = Table[n] \ gone]
    BY <1>1, EntryChanges, TableOf DEF IInv
<1>3. View!Remove(n, i)
    BY <1>1, <1>2 DEF View!Remove
<1> QED BY <1>1, <1>3, TableOf DEF View!Next

\* Commands act on a table of functions, for any names and parts of names: each changes
\* one entry, and a tool is told of nothing that was put elsewhere.
THEOREM FunctionTableImplemented == Spec => ImplementsFunctionTable
<1>1. Init => View!Init
  <2> SUFFICES ASSUME Init PROVE View!Init
      OBVIOUS
  <2>1. PICK start \in {{}, {Script}} : Functions = start /\ (Script \in start => scripted)
      BY DEF Init, Functions, ToSet
  <2>2. \A n \in start : items[n] = {Entry}
      BY <2>1, NamesAssumption DEF Init, NamesAssumption
  <2>3. [n \in start |-> items[n]] = [n \in start |-> {Entry}]
      BY <2>2, Zenon
  <2>4. Table = [n \in start |-> {Entry}]
      BY <2>1, <2>3, TableOf
  <2> QED BY <2>4 DEF Init, View!Init
<1>2. IInv /\ [Next]_vars => [View!Next]_View!tableVars
  <2> SUFFICES ASSUME IInv, [Next]_vars PROVE [View!Next]_View!tableVars
      OBVIOUS
  <2>1. CASE UNCHANGED vars
      BY <2>1 DEF vars, View!tableVars, Table, Functions
  <2> QED BY <2>1, CreateView, DeleteView, RenameView, AddFunctionIOView, AddNodeView,
             DeleteNodeView DEF Next
<1> QED BY <1>1, <1>2, Inductive, PTL DEF Spec, ImplementsFunctionTable, View!Spec

=============================================================================
