------------------------ MODULE PathNormalizeProofs -------------------------
(***************************************************************************)
(* Proofs about normalize_cd_path, for every directory and every argument: *)
(* the path it computes is the one that LeadsTo describes.  Reading one    *)
(* token more changes the names that stay in the same way as the path      *)
(* (TraceStep); the rest is induction over the tokens, as a fact about     *)
(* sets of numbers (NatSet), since no prover here instantiates an          *)
(* induction rule.                                                         *)
(***************************************************************************)
EXTENDS PathNormalize, FiniteSetTheorems, SequenceTheorems, WellFoundedInduction, TLAPS

Token == STRING

\* The names and the ".." after a token.
Names(tokens, i) == Cardinality({k \in i + 1 .. Len(tokens) : IsName(tokens[k])})
Ups(tokens, i) == Cardinality({k \in i + 1 .. Len(tokens) : tokens[k] = ".."})

\* LeadsTo, and that as many names stay after one that stays as ".." would be needed there
\* to remove it.
Traces(order, tokens, path) ==
    /\ order \in [1 .. Len(path) -> Kept(tokens)]
    /\ \A m, n \in 1 .. Len(path) : m < n => order[m] < order[n]
    /\ \A i \in Kept(tokens) : \E n \in 1 .. Len(path) : order[n] = i
    /\ \A n \in 1 .. Len(path) :
          /\ path[n] = tokens[order[n]]
          /\ Names(tokens, order[n]) = Ups(tokens, order[n]) + Len(path) - n

Leads(tokens, path) ==
    /\ tokens \in Seq(Token) /\ path \in Seq(Token)
    /\ \E order : Traces(order, tokens, path)

\* Induction, as a fact about sets of numbers.
LEMMA NatSet ==
    ASSUME NEW S, S \subseteq Nat, 0 \in S, \A n \in S : n + 1 \in S
    PROVE  Nat = S
<1>. DEFINE rest == Nat \ S
            less == OpToRel(<, Nat)
<1>. SUFFICES ASSUME rest # {} PROVE FALSE
    BY Zenon
<1>1. IsWellFoundedOn(less, Nat) /\ rest \subseteq Nat
    BY NatLessThanWellFounded, Zenon
<1>2. PICK n \in rest : \A m \in rest : <<m, n>> \notin less
  <2>. HIDE DEF rest, less
  <2>. QED
    BY <1>1, WFMin, Zenon
<1>3. n \in Nat /\ n # 0
    OBVIOUS
<1>4. n - 1 \in Nat /\ <<n - 1, n>> \in less
    BY <1>3 DEF OpToRel
<1>5. n - 1 \in S
    BY <1>2, <1>4, Zenon
<1>. QED
    BY <1>3, <1>5

One(condition) == IF condition THEN 1 ELSE 0

\* The tokens after one, when one more is read.
LEMMA CountStep ==
    ASSUME NEW s \in Seq(Token), NEW x \in Token, NEW i \in 1 .. Len(s)
    PROVE  /\ Names(s, i) \in Nat /\ Ups(s, i) \in Nat
           /\ Names(Append(s, x), i) = Names(s, i) + One(IsName(x))
           /\ Ups(Append(s, x), i) = Ups(s, i) + One(x = "..")
<1>. DEFINE n == Len(s)
            t == Append(s, x)
<1>1. /\ n \in Nat /\ Len(t) = n + 1 /\ t[n + 1] = x /\ \A k \in 1 .. n : t[k] = s[k]
      /\ i \in 1 .. n /\ \A k \in 1 .. n : s[k] \in Token
    BY AppendProperties, LenProperties, ElementOfSeq
<1>0. Len(s) = n
    OBVIOUS
<1>. HIDE DEF n, t
<1>2. ASSUME NEW good
      PROVE  LET old == {k \in i + 1 .. n : s[k] \in good}
                 new == {k \in i + 1 .. n + 1 : t[k] \in good}
             IN  /\ Cardinality(old) \in Nat
                 /\ Cardinality(new) = Cardinality(old) + One(x \in good)
  <2>. DEFINE old == {k \in i + 1 .. n : s[k] \in good}
              new == {k \in i + 1 .. n + 1 : t[k] \in good}
  <2>1. IsFiniteSet(i + 1 .. n)
    BY <1>1, FS_Interval
  <2>2. IsFiniteSet(old) /\ Cardinality(old) \in Nat
    BY <2>1, FS_Subset, FS_CardinalityType, Zenon
  <2>3. n + 1 \notin old
    BY <1>1
  <2>4. new = IF x \in good THEN old \cup {n + 1} ELSE old
    <3>1. i + 1 .. n + 1 = (i + 1 .. n) \cup {n + 1}
      BY <1>1
    <3>2. \A k \in i + 1 .. n : t[k] = s[k]
      BY <1>1
    <3>. QED
      BY <1>1, <3>1, <3>2
  <2>. HIDE DEF old, new
  <2>5. Cardinality(old \cup {n + 1}) = Cardinality(old) + 1
    BY <2>2, <2>3, FS_AddElement, Zenon
  <2>6. Cardinality(new) = Cardinality(old) + One(x \in good)
    BY <2>2, <2>4, <2>5 DEF One
  <2>. QED
    BY <2>2, <2>6 DEF old, new
<1>. DEFINE names == {y \in Token : IsName(y)}
<1>3. /\ Names(s, i) = Cardinality({k \in i + 1 .. n : s[k] \in names})
      /\ Names(t, i) = Cardinality({k \in i + 1 .. n + 1 : t[k] \in names})
  <2>1. \A k \in i + 1 .. n : IsName(s[k]) <=> s[k] \in names
    BY <1>1
  <2>2. \A k \in i + 1 .. n + 1 : IsName(t[k]) <=> t[k] \in names
    BY <1>1
  <2>. QED
    BY <1>0, <1>1, <2>1, <2>2, Zenon DEF Names
<1>4. /\ Ups(s, i) = Cardinality({k \in i + 1 .. n : s[k] \in {".."}})
      /\ Ups(t, i) = Cardinality({k \in i + 1 .. n + 1 : t[k] \in {".."}})
  <2>1. \A k : s[k] = ".." <=> s[k] \in {".."}
    OBVIOUS
  <2>2. \A k : t[k] = ".." <=> t[k] \in {".."}
    OBVIOUS
  <2>. QED
    BY <1>0, <1>1, <2>1, <2>2 DEF Ups
<1>5. x \in names <=> IsName(x)
    OBVIOUS
<1>. HIDE DEF names
<1>6. /\ Names(s, i) \in Nat
      /\ Names(t, i) = Names(s, i) + One(x \in names)
    BY <1>2, <1>3
<1>7. /\ Ups(s, i) \in Nat
      /\ Ups(t, i) = Ups(s, i) + One(x \in {".."})
    BY <1>2, <1>4, Zenon
<1>. QED
    BY <1>5, <1>6, <1>7 DEF t, One

\* Which names stay, when one more token is read.
LEMMA StaysStep ==
    ASSUME NEW s \in Seq(Token), NEW x \in Token
    PROVE  LET t == Append(s, x)
           IN  /\ DOMAIN t = 1 .. Len(s) + 1
               /\ \A i \in 1 .. Len(s) : Stays(t, i) <=> Stays(s, i) /\ Ups(t, i) <= Names(t, i)
               /\ Stays(t, Len(s) + 1) <=> IsName(x)
<1>. DEFINE n == Len(s)
            t == Append(s, x)
<1>1. /\ n \in Nat /\ Len(t) = n + 1 /\ t[n + 1] = x /\ \A k \in 1 .. n : t[k] = s[k]
      /\ DOMAIN t = 1 .. n + 1 /\ Len(s) = n
    BY AppendProperties, LenProperties
<1>. HIDE DEF n, t
<1>2. ASSUME NEW i \in 1 .. n
      PROVE  Stays(t, i) <=> Stays(s, i) /\ Ups(t, i) <= Names(t, i)
  <2>. DEFINE ups(q, j) == Cardinality({k \in i + 1 .. j : q[k] = ".."})
              names(q, j) == Cardinality({k \in i + 1 .. j : IsName(q[k])})
  <2>1. ASSUME NEW j \in i + 1 .. n
        PROVE  ups(t, j) = ups(s, j) /\ names(t, j) = names(s, j)
    <3>1. \A k \in i + 1 .. j : t[k] = s[k]
      BY <1>1
    <3>2. {k \in i + 1 .. j : t[k] = ".."} = {k \in i + 1 .. j : s[k] = ".."}
      BY <3>1
    <3>3. {k \in i + 1 .. j : IsName(t[k])} = {k \in i + 1 .. j : IsName(s[k])}
      BY <3>1
    <3>. QED
      BY <3>2, <3>3, Zenon
  <2>2. /\ Stays(t, i) <=> IsName(t[i]) /\ \A j \in i + 1 .. n + 1 : ups(t, j) <= names(t, j)
        /\ Stays(s, i) <=> IsName(s[i]) /\ \A j \in i + 1 .. n : ups(s, j) <= names(s, j)
        /\ ups(t, n + 1) = Ups(t, i) /\ names(t, n + 1) = Names(t, i)
    BY <1>1 DEF Stays, Ups, Names
  <2>. HIDE DEF ups, names
  <2>3. i + 1 .. n + 1 = (i + 1 .. n) \cup {n + 1}
    BY <1>1
  <2>. QED
    BY <1>1, <2>1, <2>2, <2>3
<1>3. Stays(t, n + 1) <=> IsName(x)
  <2>1. \A j \in n + 1 + 1 .. n + 1 : FALSE
    BY <1>1
  <2>. QED
    BY <1>1, <2>1 DEF Stays
<1>. QED
    BY <1>1, <1>2, <1>3 DEF t

\* So TakeToken does to the path what the token does to the names that stay.
LEMMA TraceStep ==
    ASSUME NEW s \in Seq(Token), NEW x \in Token, NEW path \in Seq(Token), NEW order,
           Traces(order, s, path)
    PROVE  /\ TakeToken(path, x) \in Seq(Token)
           /\ \E o : Traces(o, Append(s, x), TakeToken(path, x))
<1>. DEFINE n == Len(s)
            t == Append(s, x)
            len == Len(path)
            new == TakeToken(path, x)
<1>1. /\ n \in Nat /\ Len(t) = n + 1 /\ t[n + 1] = x /\ \A k \in 1 .. n : t[k] = s[k]
      /\ DOMAIN s = 1 .. n /\ len \in Nat /\ Len(s) = n /\ Len(path) = len
    BY AppendProperties, LenProperties
<1>2. /\ Kept(t) \subseteq 1 .. n + 1 /\ Kept(s) \subseteq 1 .. n
      /\ \A i \in 1 .. n : i \in Kept(t) <=> i \in Kept(s) /\ Ups(t, i) <= Names(t, i)
      /\ n + 1 \in Kept(t) <=> IsName(x)
    BY <1>1, StaysStep DEF Kept
<1>3. \A i \in 1 .. n : /\ Names(s, i) \in Nat /\ Ups(s, i) \in Nat
                        /\ Names(t, i) = Names(s, i) + One(IsName(x))
                        /\ Ups(t, i) = Ups(s, i) + One(x = "..")
    BY CountStep
<1>4. /\ order \in [1 .. len -> Kept(s)]
      /\ \A a, b \in 1 .. len : a < b => order[a] < order[b]
      /\ \A i \in Kept(s) : \E a \in 1 .. len : order[a] = i
      /\ \A a \in 1 .. len : /\ path[a] = s[order[a]]
                             /\ Names(s, order[a]) = Ups(s, order[a]) + len - a
    BY DEF Traces
<1>5. \A a \in 1 .. len : order[a] \in 1 .. n /\ order[a] \in Kept(s) /\ path[a] = t[order[a]]
    BY <1>1, <1>2, <1>4
<1>6. \A a \in 1 .. len :
          /\ Names(s, order[a]) \in Nat /\ Ups(s, order[a]) \in Nat
          /\ Names(t, order[a]) = Names(s, order[a]) + One(IsName(x))
          /\ Ups(t, order[a]) = Ups(s, order[a]) + One(x = "..")
          /\ order[a] \in Kept(t) <=> Ups(t, order[a]) <= Names(t, order[a])
    BY <1>2, <1>3, <1>5, Zenon
<1>7. \A i \in 1 .. n : i \in Kept(t) => \E a \in 1 .. len : order[a] = i
    BY <1>2, <1>4, Zenon
<1>. HIDE DEF n, t, len, new
<1>8. CASE x = "."
  <2>1. new = path /\ ~IsName(x) /\ One(IsName(x)) = 0 /\ One(x = "..") = 0
    BY <1>8 DEF TakeToken, IsName, One, new
  <2>2. ASSUME NEW a \in 1 .. len
        PROVE  /\ order[a] \in Kept(t) /\ Names(t, order[a]) = Ups(t, order[a]) + len - a
    <3>1. /\ Names(t, order[a]) = Names(s, order[a]) /\ Ups(t, order[a]) = Ups(s, order[a])
          /\ Names(s, order[a]) \in Nat /\ Ups(s, order[a]) \in Nat
      BY <1>6, <2>1
    <3>2. Names(s, order[a]) = Ups(s, order[a]) + len - a
      BY <1>4, Zenon
    <3>3. Ups(t, order[a]) <= Names(t, order[a])
      BY <1>1, <3>1, <3>2
    <3>. QED
      BY <1>6, <3>1, <3>2, <3>3
  <2>3. \A i \in Kept(t) : i \in 1 .. n
    BY <1>1, <1>2, <2>1
  <2>4. order \in [1 .. len -> Kept(t)]
    BY <1>4, <2>2
  <2>5. Traces(order, t, new)
    BY <1>1, <1>4, <1>5, <1>7, <2>1, <2>2, <2>3, <2>4, Zenon DEF Traces
  <2>. QED
    BY <2>1, <2>5 DEF t, new
<1>9. CASE x = ".."
  <2>1. ~IsName(x) /\ One(IsName(x)) = 0 /\ One(x = "..") = 1
    BY <1>9 DEF IsName, One
  <2>2. \A i \in Kept(t) : i \in 1 .. n
    BY <1>1, <1>2, <2>1
  <2>3. CASE path = <<>>
    <3>1. new = path /\ len = 0
      BY <1>9, <2>3 DEF TakeToken, new, len
    <3>2. Kept(t) = {}
      BY <1>7, <2>2, <3>1
    <3>3. order \in [1 .. len -> Kept(t)]
      BY <1>4, <3>1
    <3>4. Traces(order, t, new)
      BY <1>1, <3>1, <3>2, <3>3 DEF Traces
    <3>. QED
      BY <3>1, <3>4 DEF t, new
  <2>4. CASE path # <<>>
    <3>1. new = SubSeq(path, 1, Len(path) - 1)
      BY <1>9, <2>4 DEF TakeToken, new
    <3>2. len # 0 /\ len - 1 \in Nat
      BY <1>1, <2>4, EmptySeq
    <3>3. /\ new \in Seq(Token) /\ Len(new) = len - 1
          /\ \A a \in 1 .. len - 1 : new[a] = path[a]
      BY <1>1, <3>1, <3>2
    <3>. DEFINE o == [a \in 1 .. len - 1 |-> order[a]]
    <3>4. ASSUME NEW a \in 1 .. len
          PROVE  /\ order[a] \in Kept(t) <=> a < len
                 /\ Names(t, order[a]) = Ups(t, order[a]) + (len - 1) - a
      <4>1. /\ Names(t, order[a]) = Names(s, order[a])
            /\ Ups(t, order[a]) = Ups(s, order[a]) + 1
            /\ Names(s, order[a]) \in Nat /\ Ups(s, order[a]) \in Nat
        BY <1>6, <2>1
      <4>2. Names(s, order[a]) = Ups(s, order[a]) + len - a
        BY <1>4, Zenon
      <4>3. Ups(t, order[a]) <= Names(t, order[a]) <=> a < len
        BY <1>1, <4>1, <4>2
      <4>4. Names(t, order[a]) = Ups(t, order[a]) + (len - 1) - a
        BY <1>1, <4>1, <4>2
      <4>. QED
        BY <1>6, <4>3, <4>4
    <3>5. \A a \in 1 .. len - 1 : a \in 1 .. len /\ a < len /\ o[a] = order[a]
      BY <1>1
    <3>6. \A a \in 1 .. len : a < len => a \in 1 .. len - 1
      BY <1>1
    <3>7. o \in [1 .. len - 1 -> Kept(t)]
      BY <3>4, <3>5
    <3>. HIDE DEF o
    <3>8. \A i \in Kept(t) : \E a \in 1 .. len - 1 : o[a] = i
      BY <1>7, <2>2, <3>4, <3>5, <3>6
    <3>9. Traces(o, t, new)
      BY <1>4, <1>5, <3>3, <3>4, <3>5, <3>7, <3>8, Zenon DEF Traces
    <3>. QED
      BY <3>3, <3>9 DEF t, new
  <2>. QED
    BY <2>3, <2>4
<1>10. CASE x # "." /\ x # ".."
  <2>1. new = Append(path, x) /\ IsName(x) /\ One(IsName(x)) = 1 /\ One(x = "..") = 0
    BY <1>10 DEF TakeToken, IsName, One, new
  <2>2. /\ new \in Seq(Token) /\ Len(new) = len + 1 /\ new[len + 1] = x
        /\ \A a \in 1 .. len : new[a] = path[a]
    BY <2>1, AppendProperties DEF len
  <2>. DEFINE o == [a \in 1 .. len + 1 |-> IF a = len + 1 THEN n + 1 ELSE order[a]]
  <2>3. ASSUME NEW a \in 1 .. len
        PROVE  /\ order[a] \in Kept(t)
               /\ Names(t, order[a]) = Ups(t, order[a]) + (len + 1) - a
    <3>1. /\ Names(t, order[a]) = Names(s, order[a]) + 1 /\ Ups(t, order[a]) = Ups(s, order[a])
          /\ Names(s, order[a]) \in Nat /\ Ups(s, order[a]) \in Nat
      <4>1. /\ Names(t, order[a]) = Names(s, order[a]) + One(IsName(x))
            /\ Ups(t, order[a]) = Ups(s, order[a]) + One(x = "..")
            /\ Names(s, order[a]) \in Nat /\ Ups(s, order[a]) \in Nat
        BY <1>6
      <4>. QED
        BY <2>1, <4>1
    <3>2. Names(s, order[a]) = Ups(s, order[a]) + len - a
      BY <1>4, Zenon
    <3>3. Ups(t, order[a]) <= Names(t, order[a])
      BY <1>1, <3>1, <3>2
    <3>4. Names(t, order[a]) = Ups(t, order[a]) + (len + 1) - a
      BY <1>1, <3>1, <3>2
    <3>. QED
      BY <1>6, <3>3, <3>4
  <2>4. /\ \A a \in 1 .. len : a \in 1 .. len + 1 /\ o[a] = order[a]
        /\ len + 1 \in 1 .. len + 1 /\ o[len + 1] = n + 1
        /\ \A a \in 1 .. len + 1 : a = len + 1 \/ a \in 1 .. len
    BY <1>1
  <2>5. n + 1 \in Kept(t) /\ \A i \in Kept(t) : i = n + 1 \/ i \in 1 .. n
    BY <1>1, <1>2, <2>1
  <2>6. o \in [1 .. len + 1 -> Kept(t)]
    BY <2>3, <2>4, <2>5
  <2>7. Names(t, n + 1) = 0 /\ Ups(t, n + 1) = 0
    <3>1. \A k \in n + 1 + 1 .. n + 1 : FALSE
      BY <1>1
    <3>2. Names(t, n + 1) = Cardinality({}) /\ Ups(t, n + 1) = Cardinality({})
      BY <1>1, <3>1, Zenon DEF Names, Ups
    <3>. QED
      BY <3>2, FS_EmptySet
  <2>. HIDE DEF o
  <2>8. \A i \in Kept(t) : \E a \in 1 .. len + 1 : o[a] = i
    BY <1>7, <2>4, <2>5
  <2>9. \A a, b \in 1 .. len + 1 : a < b => o[a] < o[b]
    <3>1. \A a, b \in 1 .. len : a < b => o[a] < o[b]
      BY <1>4, <2>4
    <3>2. \A a \in 1 .. len : o[a] < o[len + 1] /\ ~(len + 1 < a)
      BY <1>1, <1>5, <2>4
    <3>3. ~(len + 1 < len + 1)
      BY <1>1
    <3>. QED
      BY <2>4, <3>1, <3>2, <3>3
  <2>10. ASSUME NEW a \in 1 .. len + 1
         PROVE  new[a] = t[o[a]] /\ Names(t, o[a]) = Ups(t, o[a]) + (len + 1) - a
    <3>1. CASE a = len + 1
      <4>1. o[a] = n + 1 /\ new[a] = x /\ t[n + 1] = x /\ 0 = 0 + (len + 1) - a
        BY <1>1, <2>2, <2>4, <3>1
      <4>. QED
        BY <2>7, <4>1, Zenon
    <3>2. CASE a \in 1 .. len
      BY <1>5, <2>2, <2>3, <2>4, <3>2, Zenon
    <3>. QED
      BY <2>4, <3>1, <3>2, Zenon
  <2>11. Traces(o, t, new)
    BY <2>2, <2>6, <2>8, <2>9, <2>10, Zenon DEF Traces
  <2>. QED
    BY <2>2, <2>11 DEF t, new
<1>. QED
    BY <1>8, <1>9, <1>10

\* normalize_cd_path takes the tokens one by one.
LEMMA TokenSteps ==
    ASSUME NEW q \in Seq(Token)
    PROVE  \E g : /\ TakeTokens(q) = g[Len(q)] /\ g[0] = <<>>
                  /\ \A k \in 1 .. Len(q) : g[k] = TakeToken(g[k - 1], q[k])
<1>. DEFINE Steps(g, k) ==
                g = [i \in 0 .. k |-> IF i = 0 THEN <<>> ELSE TakeToken(g[i - 1], q[i])]
            n == Len(q)
            parts == CHOOSE g : Steps(g, n)
<1>1. TakeTokens(q) = parts[n]
    BY DEF TakeTokens, RootDir
<1>2. n \in Nat
    BY LenProperties
<1>3. \A k \in Nat : \E g : Steps(g, k)
  <2>. DEFINE T == {k \in Nat : \E g : Steps(g, k)}
  <2>1. 0 \in T
    <3>. DEFINE g == [i \in 0 .. 0 |-> <<>>]
    <3>1. \A i \in 0 .. 0 : i = 0
      OBVIOUS
    <3>2. Steps(g, 0)
      BY <3>1
    <3>. QED
      BY <3>2, Zenon
  <2>2. ASSUME NEW k \in T
        PROVE  k + 1 \in T
    <3>1. PICK g : Steps(g, k)
      BY Zenon
    <3>. DEFINE h == [i \in 0 .. k + 1 |-> IF i = k + 1 THEN TakeToken(g[k], q[k + 1]) ELSE g[i]]
    <3>2. k \in Nat
      OBVIOUS
    <3>3. ASSUME NEW i \in 0 .. k + 1
          PROVE  h[i] = IF i = 0 THEN <<>> ELSE TakeToken(h[i - 1], q[i])
      <4>1. CASE i = k + 1
        <5>1. i # 0 /\ i - 1 = k /\ k \in 0 .. k + 1 /\ k # k + 1
          BY <3>2, <4>1
        <5>2. h[k] = g[k] /\ h[i] = TakeToken(g[k], q[k + 1])
          BY <4>1, <5>1
        <5>. QED
          BY <4>1, <5>1, <5>2
      <4>2. CASE i # k + 1
        <5>1. i \in 0 .. k /\ h[i] = g[i]
          BY <3>2, <4>2
        <5>2. i # 0 => h[i - 1] = g[i - 1]
          BY <3>2, <5>1
        <5>3. g[i] = IF i = 0 THEN <<>> ELSE TakeToken(g[i - 1], q[i])
          BY <3>1, <5>1
        <5>. QED
          BY <5>1, <5>2, <5>3
      <4>. QED
        BY <4>1, <4>2
    <3>4. Steps(h, k + 1)
      BY <3>3, Zenon
    <3>. HIDE DEF Steps, h
    <3>. QED
      BY <3>2, <3>4
  <2>. HIDE DEF Steps
  <2>3. T = Nat
    BY <2>1, <2>2, NatSet, Zenon
  <2>. QED
    BY <2>3, Zenon
<1>4. Steps(parts, n)
  <2>. HIDE DEF Steps
  <2>. QED
    BY <1>2, <1>3
<1>. HIDE DEF parts
<1>5. 0 \in 0 .. n /\ \A k \in 1 .. n : k \in 0 .. n /\ k # 0
    BY <1>2
<1>6. parts[0] = <<>> /\ \A k \in 1 .. n : parts[k] = TakeToken(parts[k - 1], q[k])
    BY <1>4, <1>5
<1>. QED
    BY <1>1, <1>6, Zenon

\* The tokens of a path are names, which TakeToken keeps.
LEMMA PathIsNames ==
    ASSUME NEW tokens, NEW path, Leads(tokens, path), NEW k \in 1 .. Len(path), NEW parts
    PROVE  TakeToken(parts, path[k]) = Append(parts, path[k])
<1>1. PICK order : Traces(order, tokens, path)
    BY DEF Leads
<1>2. order[k] \in Kept(tokens) /\ path[k] = tokens[order[k]]
    BY <1>1 DEF Traces
<1>3. IsName(path[k])
    BY <1>2 DEF Kept, Stays
<1>. QED
    BY <1>3 DEF TakeToken, IsName

\* One token more at the end.
LEMMA ConcatAppend ==
    ASSUME NEW S, NEW s \in Seq(S), NEW a \in Seq(S), NEW x \in S
    PROVE  s \o Append(a, x) = Append(s \o a, x)
OBVIOUS

\* Reading a path and then tokens leads where the tokens that led to the path and these do.
LEMMA TokensLead ==
    ASSUME NEW s, NEW path, Leads(s, path), NEW r \in Seq(Token)
    PROVE  Leads(s \o r, TakeTokens(path \o r))
<1>. DEFINE q == path \o r
            p == Len(path)
<1>1. /\ s \in Seq(Token) /\ path \in Seq(Token) /\ q \in Seq(Token)
      /\ p \in Nat /\ Len(r) \in Nat /\ Len(q) = p + Len(r)
      /\ \A k \in 1 .. p : q[k] = path[k]
      /\ \A k \in 1 .. Len(r) : q[p + k] = r[k]
  <2>1. s \in Seq(Token) /\ path \in Seq(Token)
    BY DEF Leads
  <2>. QED
    BY <2>1, ConcatProperties, LenProperties
<1>. HIDE DEF q
<1>2. PICK g : /\ TakeTokens(q) = g[Len(q)] /\ g[0] = <<>>
               /\ \A k \in 1 .. Len(q) : g[k] = TakeToken(g[k - 1], q[k])
    BY <1>1, TokenSteps, Zenon
<1>3. g[p] = path
  <2>. DEFINE T == {k \in Nat : k <= p => g[k] = SubSeq(path, 1, k)}
  <2>1. 0 \in T
    <3>1. SubSeq(path, 1, 0) = <<>>
      BY <1>1
    <3>. QED
      BY <1>2, <3>1, Zenon
  <2>2. ASSUME NEW k \in T
        PROVE  k + 1 \in T
    <3>. SUFFICES ASSUME k + 1 <= p PROVE g[k + 1] = SubSeq(path, 1, k + 1)
      OBVIOUS
    <3>1. /\ k \in Nat /\ k + 1 \in 1 .. p /\ k + 1 \in 1 .. Len(q) /\ (k + 1) - 1 = k
          /\ g[k] = SubSeq(path, 1, k) /\ q[k + 1] = path[k + 1]
      BY <1>1
    <3>2. g[k + 1] = TakeToken(g[k], path[k + 1])
      BY <1>2, <3>1, Zenon
    <3>3. g[k + 1] = Append(SubSeq(path, 1, k), path[k + 1])
      BY <3>1, <3>2, PathIsNames, Zenon
    <3>4. SubSeq(path, 1, k + 1) = Append(SubSeq(path, 1, k), path[k + 1])
      BY <1>1, <3>1
    <3>. QED
      BY <3>3, <3>4
  <2>3. p \in T
    BY <1>1, <2>1, <2>2, NatSet, Zenon
  <2>4. SubSeq(path, 1, p) = path
    BY <1>1
  <2>. QED
    BY <1>1, <2>3, <2>4
<1>4. Leads(s \o r, g[p + Len(r)])
  <2>. DEFINE u(k) == s \o SubSeq(r, 1, k)
              T == {k \in Nat : k <= Len(r) => Leads(u(k), g[p + k])}
  <2>0. ASSUME NEW k \in Nat, k + 1 \in 1 .. Len(r)
        PROVE  r[k + 1] \in Token /\ u(k + 1) = Append(u(k), r[k + 1])
    <3>1. SubSeq(r, 1, k + 1) = Append(SubSeq(r, 1, k), r[k + 1])
      BY <1>1, <2>0
    <3>2. s \in Seq(Token) /\ SubSeq(r, 1, k) \in Seq(Token) /\ r[k + 1] \in Token
      BY <1>1, <2>0
    <3>3. s \o Append(SubSeq(r, 1, k), r[k + 1]) = Append(s \o SubSeq(r, 1, k), r[k + 1])
      BY <3>2, ConcatAppend
    <3>. QED
      BY <3>1, <3>2, <3>3
  <2>1. 0 \in T
    <3>1. u(0) = s /\ p + 0 = p
      BY <1>1
    <3>. HIDE DEF u
    <3>. QED
      BY <1>3, <3>1
  <2>2. ASSUME NEW k \in T
        PROVE  k + 1 \in T
    <3>. SUFFICES ASSUME k + 1 <= Len(r) PROVE Leads(u(k + 1), g[p + (k + 1)])
      OBVIOUS
    <3>1. /\ k \in Nat /\ k + 1 \in 1 .. Len(r) /\ p + (k + 1) \in 1 .. Len(q)
          /\ (p + (k + 1)) - 1 = p + k
          /\ Leads(u(k), g[p + k]) /\ q[p + (k + 1)] = r[k + 1]
      BY <1>1
    <3>2. g[p + (k + 1)] = TakeToken(g[p + k], r[k + 1])
      BY <1>2, <3>1
    <3>3. r[k + 1] \in Token /\ u(k + 1) = Append(u(k), r[k + 1])
      BY <2>0, <3>1
    <3>. HIDE DEF u
    <3>4. /\ u(k) \in Seq(Token) /\ g[p + k] \in Seq(Token)
          /\ \E order : Traces(order, u(k), g[p + k])
      BY <3>1 DEF Leads
    <3>5. Append(u(k), r[k + 1]) \in Seq(Token)
      BY <3>3, <3>4, AppendProperties
    <3>6. PICK order : Traces(order, u(k), g[p + k])
      BY <3>4
    <3>7. /\ TakeToken(g[p + k], r[k + 1]) \in Seq(Token)
          /\ \E o : Traces(o, Append(u(k), r[k + 1]), TakeToken(g[p + k], r[k + 1]))
      BY <3>3, <3>4, <3>6, TraceStep
    <3>. QED
      BY <3>2, <3>3, <3>5, <3>7, Zenon DEF Leads
  <2>3. Len(r) \in T
    <3>. HIDE DEF u
    <3>. QED
      BY <1>1, <2>1, <2>2, NatSet, Zenon
  <2>4. u(Len(r)) = s \o r
    <3>1. SubSeq(r, 1, Len(r)) = r
      BY <1>1
    <3>. QED
      BY <3>1
  <2>. HIDE DEF u
  <2>5. Leads(u(Len(r)), g[p + Len(r)])
    BY <1>1, <2>3
  <2>. QED
    BY <2>4, <2>5
<1>. QED
    BY <1>1, <1>2, <1>4, Zenon DEF q

\* The traced names are the ones LeadsTo asks for.
LEMMA LeadsIsReference ==
    ASSUME NEW s, NEW path, Leads(s, path)
    PROVE  LeadsTo(s, path)
<1>1. PICK order : Traces(order, s, path)
    BY DEF Leads
<1>2. DOMAIN path = 1 .. Len(path)
    BY LenProperties DEF Leads
<1>. QED
    BY <1>1, <1>2 DEF Traces, LeadsTo

\* Nothing leads to the root.
LEMMA RootLeads == Leads(<<>>, RootDir)
<1>. DEFINE order == [n \in 1 .. 0 |-> 0]
<1>1. Kept(<<>>) = {} /\ Len(<<>>) = 0 /\ \A n \in 1 .. 0 : FALSE
    BY DEF Kept
<1>2. Traces(order, <<>>, <<>>)
    BY <1>1 DEF Traces
<1>. HIDE DEF order
<1>. QED
    BY <1>2 DEF Leads, RootDir

-----------------------------------------------------------------------------
(* What normalize_cd_path computes, for every argument.                    *)

Orders(o, K, D) ==
    /\ o \in [D -> K]
    /\ \A m, n \in D : m < n => o[m] < o[n]
    /\ \A i \in K : \E n \in D : o[n] = i

Same(o, u, D) == \A i \in D : o[i] = u[i]

\* A set of numbers has one order.
LEMMA OrdersAgree ==
    ASSUME NEW K, K \subseteq Int, NEW a \in Nat, NEW b \in Nat,
           NEW o, Orders(o, K, 1 .. a), NEW u, Orders(u, K, 1 .. b)
    PROVE  a <= b /\ Same(o, u, 1 .. a)
<1>. USE DEF Orders
<1>. DEFINE T == {k \in Nat : \A i \in 1 .. k : i <= a => i <= b /\ o[i] = u[i]}
<1>1. 0 \in T
    OBVIOUS
<1>2. ASSUME NEW k \in Nat, \A i \in 1 .. k : i <= a => i <= b /\ o[i] = u[i], k + 1 <= a
      PROVE  k + 1 <= b /\ o[k + 1] = u[k + 1]
  <2>1. k + 1 \in 1 .. a /\ o[k + 1] \in K
    BY <1>2
  <2>2. PICK j \in 1 .. b : u[j] = o[k + 1]
    BY <2>1, Zenon
  <2>3. ~(j <= k)
    <3>. SUFFICES ASSUME j <= k PROVE FALSE
      OBVIOUS
    <3>1. j \in 1 .. k /\ j \in 1 .. a /\ j < k + 1
      BY <1>2
    <3>2. o[j] < o[k + 1]
      BY <2>1, <3>1
    <3>3. o[j] = u[j]
      BY <1>2, <3>1
    <3>4. o[j] \in Int
      BY <3>1, Zenon
    <3>. QED
      BY <2>2, <3>2, <3>3, <3>4
  <2>4. j >= k + 1 /\ k + 1 \in 1 .. b
    BY <1>2, <2>3
  <2>5. u[k + 1] \in K /\ (k + 1 = j \/ u[k + 1] < u[j])
    BY <2>4
  <2>6. PICK m \in 1 .. a : o[m] = u[k + 1]
    BY <2>5, Zenon
  <2>7. ~(m <= k)
    <3>. SUFFICES ASSUME m <= k PROVE FALSE
      OBVIOUS
    <3>1. m \in 1 .. k /\ m <= b /\ m \in 1 .. b /\ m < k + 1
      BY <1>2
    <3>2. u[m] < u[k + 1]
      BY <2>4, <3>1
    <3>3. o[m] = u[m]
      BY <1>2, <3>1
    <3>4. u[m] \in Int
      BY <3>1, Zenon
    <3>. QED
      BY <2>6, <3>2, <3>3, <3>4
  <2>8. m = k + 1 \/ o[k + 1] < o[m]
    BY <1>2, <2>1, <2>7
  <2>9. o[k + 1] \in Int /\ u[k + 1] \in Int
    BY <2>1, <2>5, Zenon
  <2>. QED
    BY <2>2, <2>4, <2>5, <2>6, <2>8, <2>9
<1>3. ASSUME NEW k \in T
      PROVE  k + 1 \in T
  <2>1. k \in Nat /\ \A i \in 1 .. k : i <= a => i <= b /\ o[i] = u[i]
    OBVIOUS
  <2>2. \A i \in 1 .. k + 1 : i \in 1 .. k \/ i = k + 1
    BY <2>1
  <2>3. \A i \in 1 .. k + 1 : i <= a => i <= b /\ o[i] = u[i]
    BY <1>2, <2>1, <2>2, Zenon
  <2>. QED
    BY <2>1, <2>3
<1>4. a \in T
    BY <1>1, <1>3, NatSet, Zenon
<1>. QED
    BY <1>4 DEF Same

\* Tokens lead to one path.
LEMMA OnePath ==
    ASSUME NEW s \in Seq(Token), NEW p \in Seq(Token), NEW q \in Seq(Token),
           LeadsTo(s, p), LeadsTo(s, q)
    PROVE  p = q
<1>1. /\ DOMAIN p = 1 .. Len(p) /\ DOMAIN q = 1 .. Len(q) /\ Len(p) \in Nat /\ Len(q) \in Nat
      /\ DOMAIN s = 1 .. Len(s) /\ Len(s) \in Nat
    BY LenProperties
<1>2. Kept(s) \subseteq Int
    BY <1>1 DEF Kept
<1>3. PICK o : Orders(o, Kept(s), DOMAIN p) /\ \A n \in DOMAIN p : p[n] = s[o[n]]
    BY Zenon DEF LeadsTo, Orders
<1>4. PICK u : Orders(u, Kept(s), DOMAIN q) /\ \A n \in DOMAIN q : q[n] = s[u[n]]
    BY Zenon DEF LeadsTo, Orders
<1>5. Orders(o, Kept(s), 1 .. Len(p)) /\ Orders(u, Kept(s), 1 .. Len(q))
    BY <1>1, <1>3, <1>4, Zenon
<1>. DEFINE a == Len(p)
            b == Len(q)
<1>6. a \in Nat /\ b \in Nat /\ Orders(o, Kept(s), 1 .. a) /\ Orders(u, Kept(s), 1 .. b)
    BY <1>1, <1>5
<1>. HIDE DEF a, b
<1>7. \A n \in 1 .. a : o[n] = u[n]
  <2>1. Same(o, u, 1 .. a)
    BY <1>2, <1>6, OrdersAgree
  <2>. QED
    BY <2>1 DEF Same
<1>8. a <= b /\ b <= a
    BY <1>2, <1>6, OrdersAgree
<1>9. a = b
    BY <1>6, <1>8
<1>10. DOMAIN p = 1 .. a /\ DOMAIN q = 1 .. a
    BY <1>1, <1>9 DEF a, b
<1>11. \A n \in 1 .. a : p[n] = q[n]
    BY <1>3, <1>4, <1>7, <1>10
<1>. QED
    BY <1>9, <1>11, SeqEqual DEF a, b

\* normalize_cd_path leads, from wherever the path so far leads and the argument's tokens
\* from there, exactly where all of them lead, taken together; an absolute argument leads
\* there from the root.  It is the only such path.
THEOREM NormalizeIsReference ==
    ASSUME NEW s \in Seq(STRING), NEW cwd \in Seq(STRING), LeadsTo(s, cwd),
           NEW tokens \in Seq(STRING), NEW absolute \in BOOLEAN, NEW path \in Seq(STRING)
    PROVE  LeadsTo((IF absolute THEN <<>> ELSE s) \o tokens, path)
           <=> path = normalize_cd_path(cwd, [absolute |-> absolute, tokens |-> tokens])
<1>. DEFINE arg == [absolute |-> absolute, tokens |-> tokens]
            from == IF absolute THEN <<>> ELSE s
            goal == normalize_cd_path(cwd, arg)
<1>1. /\ s \in Seq(Token) /\ cwd \in Seq(Token) /\ tokens \in Seq(Token) /\ path \in Seq(Token)
    BY DEF Token
<1>2. Leads(s, cwd)
  <2>1. Leads(<<>> \o s, TakeTokens(<<>> \o s))
    BY <1>1, RootLeads, TokensLead, Zenon DEF RootDir
  <2>2. <<>> \o s = s
    BY <1>1
  <2>3. Leads(s, TakeTokens(s))
    BY <2>1, <2>2
  <2>4. TakeTokens(s) \in Seq(Token) /\ LeadsTo(s, TakeTokens(s))
    BY <2>3, LeadsIsReference DEF Leads
  <2>5. cwd = TakeTokens(s)
    BY <1>1, <2>4, OnePath
  <2>. QED
    BY <2>3, <2>5
<1>3. Leads(from \o tokens, goal)
  <2>1. CASE absolute
    <3>1. Leads(<<>> \o tokens, TakeTokens(<<>> \o tokens))
      BY <1>1, RootLeads, TokensLead, Zenon DEF RootDir
    <3>2. <<>> \o tokens = tokens
      BY <1>1
    <3>3. goal = TakeTokens(tokens)
      BY <2>1 DEF normalize_cd_path
    <3>. QED
      BY <2>1, <3>1, <3>2, <3>3
  <2>2. CASE ~absolute
    <3>1. Leads(s \o tokens, TakeTokens(cwd \o tokens))
      BY <1>1, <1>2, TokensLead
    <3>2. goal = TakeTokens(cwd \o tokens)
      BY <2>2 DEF normalize_cd_path
    <3>. QED
      BY <2>2, <3>1, <3>2
  <2>. QED
    BY <2>1, <2>2
<1>. HIDE DEF from, goal
<1>4. /\ from \o tokens \in Seq(Token) /\ goal \in Seq(Token)
      /\ LeadsTo(from \o tokens, goal)
    BY <1>3, LeadsIsReference, Zenon DEF Leads
<1>5. LeadsTo(from \o tokens, path) <=> path = goal
    BY <1>1, <1>4, OnePath, Zenon
<1>. QED
    BY <1>5 DEF from, goal
=============================================================================
