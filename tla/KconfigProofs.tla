--------------------------- MODULE KconfigProofs ---------------------------
(***************************************************************************)
(* Proofs about kconfig, for any set of symbols, any types and any values. *)
(*                                                                         *)
(* First the rules of expr.c for one operand or two: what a rule puts in   *)
(* their place has their value; and AutoConf: kbuild is told of every      *)
(* change by a sync.  Then the expressions as trees.  The functions of     *)
(* KExpr are recursive, so each has a lemma (...Def) that the recursion    *)
(* has a solution, by induction over the depth, and one (...Equations)     *)
(* with what it says of each kind of expression.  Two devices carry the    *)
(* rest: an expression "reaches" a value (Up), by which a level of many    *)
(* operands is a conjunction or a disjunction (All, PartWorth) whatever    *)
(* the shape of its tree; and what expr_transform leaves is settled, only  *)
(* symbols are negated in it, so that it nests no deeper than it has       *)
(* leaves and an operand can be replaced anywhere (PartReplaced).  Last,   *)
(* the passes of menu_finalize keep what an expression means.              *)
(***************************************************************************)
EXTENDS AutoConf, KPasses, WellFoundedInduction, TLAPS

\* What the rules are about.
Operand == Leaf \cup ({"not"} \X Leaf)

\* The value of an operand.
OperandValue(e, val) == IF e[1] = "not" THEN Yes - LeafValue(e[2], val) ELSE LeafValue(e, val)

\* Values are the same if and only if they have the same place in Ascii.
LEMMA RankTells ==
    ASSUME NEW v, NEW w, \E i \in 1..Len(Ascii) : v = Ascii[i], \E i \in 1..Len(Ascii) : w = Ascii[i]
    PROVE  Rank(v) \in Int /\ Rank(w) \in Int /\ (Rank(v) = Rank(w) <=> v = w)
<1>1. Rank(v) \in 1..Len(Ascii) /\ Ascii[Rank(v)] = v
  BY DEF Rank
<1>2. Rank(w) \in 1..Len(Ascii) /\ Ascii[Rank(w)] = w
  BY DEF Rank
<1> QED BY <1>1, <1>2

\* Both sides of a comparison are integers, whichever way it is made.
LEMMA ComparedAsIntegers ==
    ASSUME NEW val, Valuation(val), NEW s \in Symbols, NEW numeric \in BOOLEAN,
           numeric => Type[s] \in DOMAIN Number /\ Numeric(s, val)
    PROVE  AsNumber(s, numeric, val) \in Int
<1>1. CASE numeric
  BY <1>1, KLeafAssumption DEF AsNumber, Numeric
<1>2. CASE ~numeric
  <2>1. \E i \in 1..Len(Ascii) : val[s] = Ascii[i]
    BY DEF Valuation
  <2>2. Rank(val[s]) \in Int
    BY <2>1, RankTells
  <2> QED BY <1>2, <2>2 DEF AsNumber
<1> QED BY <1>1, <1>2

\* A symbol is compared with a constant as the strings they are.
LEMMA EqualToConstant ==
    ASSUME NEW val, Valuation(val), NEW s \in Symbols, NEW c \in Constants
    PROVE  /\ Compare("=", s, c, val) <=> val[s] = c
           /\ Compare("!=", s, c, val) <=> val[s] # c
<1>1. c \in Symbols /\ val[c] = c /\ ~Numeric(c, val)
  BY KLeafAssumption DEF Symbols, Constants, Valuation, Numeric
<1>2. Rank(val[s]) = Rank(c) <=> val[s] = c
  <2>1. (\E i \in 1..Len(Ascii) : val[s] = Ascii[i]) /\ (\E i \in 1..Len(Ascii) : c = Ascii[i])
    BY <1>1 DEF Valuation
  <2> QED BY <2>1, RankTells
<1>3. \A o : Compare(o, s, c, val) <=> Holds(o, Rank(val[s]), Rank(c))
  BY <1>1, Zenon DEF Compare, CompareAs, AsNumber
<1> QED BY <1>2, <1>3 DEF Holds

\* What the operands the rules look for are worth.
LEMMA LeafValues ==
    ASSUME NEW val, Valuation(val), NEW s \in Symbols, Type[s] \in Tristates
    PROVE  /\ LeafValue(Sym(s), val) = Tri(val[s])
           /\ \A c \in Constants :
                 /\ LeafValue(<<"=", s, c>>, val) = IF val[s] = c THEN Yes ELSE No
                 /\ LeafValue(<<"!=", s, c>>, val) = IF val[s] = c THEN No ELSE Yes
           /\ val[s] \in Constants
<1>1. LeafValue(Sym(s), val) = Tri(val[s])
  BY DEF LeafValue, Sym, TriOf
<1>2. ASSUME NEW c \in Constants
      PROVE  /\ LeafValue(<<"=", s, c>>, val) = IF val[s] = c THEN Yes ELSE No
             /\ LeafValue(<<"!=", s, c>>, val) = IF val[s] = c THEN No ELSE Yes
  BY EqualToConstant DEF LeafValue
<1>3. val[s] \in Constants
  BY DEF Valuation, Constants, Tristates
<1> QED BY <1>1, <1>2, <1>3

\* A tristate symbol never equals a literal that reads as the number of none of its values.
LEMMA LiteralValues ==
    ASSUME NEW val, Valuation(val), NEW s \in Symbols, Type[s] = "tristate",
           NEW q \in DOMAIN Quoted, ~SpellsAValue(s, q)
    PROVE  LeafValue(<<"=", s, q>>, val) = No /\ LeafValue(<<"!=", s, q>>, val) = Yes
<1>1. q \in Symbols /\ Type[q] = "unknown" /\ Quoted[q] \notin Constants /\ val[q] = Quoted[q]
  BY KLeafAssumption DEF Symbols, Constants, Valuation
<1>2. val[s] \in Constants
  BY DEF Valuation, Constants
<1> DEFINE numeric == Numeric(s, val) /\ Numeric(q, val)
<1>3. AsNumber(s, numeric, val) # AsNumber(q, numeric, val)
  <2>1. CASE numeric
    BY <1>1, <1>2, <2>1 DEF Numeric, AsNumber, SpellsAValue
  <2>2. CASE ~numeric
    <3>1. (\E i \in 1..Len(Ascii) : val[s] = Ascii[i]) /\ (\E i \in 1..Len(Ascii) : val[q] = Ascii[i])
      BY <1>1 DEF Valuation
    <3>2. Rank(val[s]) # Rank(val[q])
      BY <1>1, <1>2, <3>1, RankTells
    <3> QED BY <2>2, <3>2 DEF AsNumber
  <2> QED BY <2>1, <2>2
<1>4. \A o : Compare(o, s, q, val) <=> Holds(o, AsNumber(s, numeric, val), AsNumber(q, numeric, val))
  <2>1. Type[s] # "string"
    OBVIOUS
  <2> QED BY <2>1 DEF Compare, CompareAs
<1> HIDE DEF numeric
<1> QED BY <1>3, <1>4 DEF Holds, LeafValue

\* What the constants y and n are worth.
LEMMA ConstantValues ==
    ASSUME NEW val, Valuation(val)
    PROVE  LeafValue(Y, val) = Yes /\ LeafValue(N, val) = No
BY DEF LeafValue, Y, N, Sym, TriOf, Tri, Constants, Valuation

\* The constant that is neither of two.
LEMMA ThirdConstant ==
    ASSUME NEW x \in Constants, NEW y \in Constants, x # y
    PROVE  /\ Third(x, y) \in Constants
           /\ \A z \in Constants : z = Third(x, y) <=> z \notin {x, y}
<1>1. \E z \in Constants : z \notin {x, y}
  BY DEF Constants
<1>2. Third(x, y) \in Constants /\ Third(x, y) \notin {x, y}
  BY <1>1 DEF Third
<1> QED BY <1>2 DEF Constants

\* Two plain operands about one symbol, or a plain one and a negated symbol.
LEMMA OneSubject ==
    ASSUME NEW e \in Operand, NEW f \in Operand, SameSubject(e, f), NEW s, s = SubjectL(e)
    PROVE  /\ s \in Symbols /\ Type[s] \in Tristates
           /\ e[1] \in {"=", "!="} => e = <<e[1], s, e[3]>>
           /\ f[1] \in {"=", "!="} => f = <<f[1], s, f[3]>>
<1>1. ASSUME NEW l \in Leaf, Plain(l)
      PROVE  /\ l[2] \in Symbols
             /\ l[1] \in {"=", "!="} => l = <<l[1], l[2], l[3]>>
  BY <1>1 DEF Leaf, Plain
<1>2. ASSUME NEW l \in Operand, Plain(l) PROVE l \in Leaf
  BY <1>2 DEF Operand, Plain
<1>3. s \in Symbols
  <2>1. CASE Plain(e)
    BY <1>1, <1>2, <2>1 DEF SubjectL
  <2>2. CASE ~Plain(e)
    <3>1. e[1] = "not" /\ Plain(e[2]) /\ s = e[2][2]
      BY <2>2 DEF SameSubject, SubjectL
    <3>2. \A l \in Leaf : l[1] # "not"
      BY DEF Leaf, Comparisons
    <3>3. PICK l \in Leaf : e = <<"not", l>>
      BY <3>1, <3>2 DEF Operand
    <3>4. e[2] \in Leaf
      BY <3>3
    <3> QED BY <1>1, <3>1, <3>4
  <2> QED BY <2>1, <2>2
<1>4. e[1] \in {"=", "!="} => e = <<e[1], s, e[3]>>
  BY <1>1, <1>2 DEF Plain, SubjectL
<1>5. f[1] \in {"=", "!="} => f = <<f[1], s, f[3]>>
  BY <1>1, <1>2 DEF Plain, SubjectR, SameSubject
<1> QED BY <1>3, <1>4, <1>5 DEF SameSubject

\* expr_join_or: the operand that replaces two different ones about one symbol has the value
\* of their disjunction.
THEOREM JoinOrKeepsMeaning ==
    ASSUME NEW val, Valuation(val), NEW e \in Operand, NEW f \in Operand, e # f,
           SameSubject(e, f), JoinOr(e, f) # Null
    PROVE  LeafValue(JoinOr(e, f), val) = AtLeast(OperandValue(e, val), OperandValue(f, val))
<1> DEFINE s == SubjectL(e)
<1>1. /\ s \in Symbols /\ Type[s] \in Tristates
      /\ e[1] \in {"=", "!="} => e = <<e[1], s, e[3]>>
      /\ f[1] \in {"=", "!="} => f = <<f[1], s, f[3]>>
  BY OneSubject
<1> DEFINE both == Type[s] = "tristate" /\ e[1] = "=" /\ f[1] = "=" /\ {e[3], f[3]} \subseteq Constants
           opposite == Type[s] = "bool" /\ OneOfEach(e, f, Sym(s), <<"not", Sym(s)>>)
<1>2. /\ both => JoinOr(e, f) = <<"!=", s, Third(e[3], f[3])>>
      /\ ~both /\ opposite => JoinOr(e, f) = Y
      /\ both \/ opposite
  BY Zenon DEF JoinOr
<1> HIDE DEF s
<1>3. CASE both
  <2>1. e = <<"=", s, e[3]>> /\ f = <<"=", s, f[3]>> /\ e[3] \in Constants /\ f[3] \in Constants
    BY <1>1, <1>3
  <2>2. e[3] # f[3]
    BY <2>1
  <2> DEFINE x == e[3]
             y == f[3]
  <2>3. x \in Constants /\ y \in Constants /\ x # y /\ e = <<"=", s, x>> /\ f = <<"=", s, y>>
    BY <2>1, <2>2
  <2> HIDE DEF x, y
  <2>4. OperandValue(e, val) = (IF val[s] = x THEN Yes ELSE No)
        /\ OperandValue(f, val) = (IF val[s] = y THEN Yes ELSE No)
    BY <1>1, <2>3, LeafValues DEF OperandValue
  <2>5. JoinOr(e, f) = <<"!=", s, Third(x, y)>>
    BY <1>2, <1>3 DEF x, y
  <2>6. LeafValue(JoinOr(e, f), val) = (IF val[s] = Third(x, y) THEN No ELSE Yes)
    <3>1. Third(x, y) \in Constants
      BY <2>3, ThirdConstant
    <3> QED BY <1>1, <2>5, <3>1, LeafValues
  <2>7. val[s] = Third(x, y) <=> val[s] \notin {x, y}
    BY <1>1, <2>3, LeafValues, ThirdConstant
  <2> QED BY <2>3, <2>4, <2>6, <2>7 DEF AtLeast, Yes, No
<1>4. CASE ~both /\ opposite
  <2>1. LeafValue(JoinOr(e, f), val) = Yes
    BY <1>2, <1>4, ConstantValues
  <2>2. OperandValue(Sym(s), val) = Tri(val[s])
        /\ OperandValue(<<"not", Sym(s)>>, val) = Yes - Tri(val[s])
    <3>1. LeafValue(Sym(s), val) = Tri(val[s])
      BY <1>1, LeafValues
    <3> QED BY <3>1 DEF OperandValue, Sym
  <2>3. val[s] \in {"n", "y"}
    BY <1>1, <1>4 DEF Valuation
  <2>4. Tri(val[s]) \in {No, Yes}
    BY <2>3 DEF Tri
  <2> QED BY <1>4, <2>1, <2>2, <2>4 DEF OneOfEach, AtLeast, Yes, No
<1> QED BY <1>2, <1>3, <1>4

\* expr_join_and: the operand that replaces two different ones about one symbol has the value
\* of their conjunction, unless one of them is misleading.
THEOREM JoinAndKeepsMeaning ==
    ASSUME NEW val, Valuation(val), NEW e \in Operand, NEW f \in Operand, e # f,
           SameSubject(e, f), JoinAnd(e, f) # Null, ~Misleading(e), ~Misleading(f)
    PROVE  LeafValue(JoinAnd(e, f), val) = AtMost(OperandValue(e, val), OperandValue(f, val))
<1> DEFINE s == SubjectL(e)
           Eqn(x) == <<"=", s, x>>
           Neq(x) == <<"!=", s, x>>
           r1 == OneOfEach(e, f, Sym(s), Eqn("y"))
           r2 == OneOfEach(e, f, Sym(s), Neq("n"))
           r3 == OneOfEach(e, f, Sym(s), Neq("m"))
           r4 == /\ Type[s] = "tristate" /\ {e[1], f[1]} = {"=", "!="}
                 /\ {e[3], f[3]} \subseteq Flagged
           r5 == /\ Type[s] = "tristate" /\ e[1] = "!=" /\ f[1] = "!="
                 /\ {e[3], f[3]} \subseteq Constants
           j == JoinAnd(e, f)
<1>1. /\ s \in Symbols /\ Type[s] \in Tristates
      /\ e[1] \in {"=", "!="} => e = <<e[1], s, e[3]>>
      /\ f[1] \in {"=", "!="} => f = <<f[1], s, f[3]>>
  BY OneSubject
<1>2. /\ r1 => j = Eqn("y")
      /\ ~r1 /\ r2 => j = Sym(s)
      /\ ~r1 /\ ~r2 /\ r3 => j = Eqn("y")
      /\ ~r1 /\ ~r2 /\ ~r3 /\ r4 => j = IF e[3] = f[3] THEN N ELSE IF e[1] = "=" THEN e ELSE f
      /\ ~r1 /\ ~r2 /\ ~r3 /\ ~r4 /\ r5 => j = Eqn(Third(e[3], f[3]))
      /\ r1 \/ r2 \/ r3 \/ r4 \/ r5
  <2> DEFINE j4 == IF e[3] = f[3] THEN N ELSE IF e[1] = "=" THEN e ELSE f
             j5 == Eqn(Third(e[3], f[3]))
  <2>1. j = CASE r1 -> Eqn("y") [] r2 -> Sym(s) [] r3 -> Eqn("y") [] r4 -> j4 [] r5 -> j5 [] OTHER -> Null
    BY DEF JoinAnd
  <2>2. j # Null
    OBVIOUS
  <2>0. /\ r1 => ~r2 /\ ~r3 /\ ~r4 /\ ~r5
        /\ r2 => ~r3 /\ ~r4 /\ ~r5
        /\ r3 => ~r4 /\ ~r5
        /\ r4 => ~r5
    <3> HIDE DEF s
    <3> QED BY SMT DEF OneOfEach, Sym
  <2> HIDE DEF s, Eqn, Neq, j, r1, r2, r3, r4, r5, j4, j5
  <2>3. r1 => j = Eqn("y")
    BY <2>0, <2>1, Zenon
  <2>4. ~r1 /\ r2 => j = Sym(s)
    BY <2>0, <2>1, Zenon
  <2>5. ~r1 /\ ~r2 /\ r3 => j = Eqn("y")
    BY <2>0, <2>1, Zenon
  <2>6. ~r1 /\ ~r2 /\ ~r3 /\ r4 => j = j4
    BY <2>0, <2>1, Zenon
  <2>7. ~r1 /\ ~r2 /\ ~r3 /\ ~r4 /\ r5 => j = j5
    BY <2>0, <2>1, Zenon
  <2>8. r1 \/ r2 \/ r3 \/ r4 \/ r5
    BY <2>1, <2>2, Zenon
  <2> QED BY <2>3, <2>4, <2>5, <2>6, <2>7, <2>8, Zenon DEF j4, j5
<1> HIDE DEF s, j
<1>3. /\ LeafValue(Sym(s), val) = Tri(val[s])
      /\ \A c \in Constants :
            /\ LeafValue(Eqn(c), val) = IF val[s] = c THEN Yes ELSE No
            /\ LeafValue(Neq(c), val) = IF val[s] = c THEN No ELSE Yes
      /\ val[s] \in Constants
  BY <1>1, LeafValues
<1>4. /\ OperandValue(Sym(s), val) = LeafValue(Sym(s), val)
      /\ \A c :
            /\ OperandValue(Eqn(c), val) = LeafValue(Eqn(c), val)
            /\ OperandValue(Neq(c), val) = LeafValue(Neq(c), val)
  BY DEF OperandValue, Sym
<1>5. Tri("y") = Yes /\ Tri("m") = Mod /\ Tri("n") = No
  BY DEF Tri
<1>6. {"y", "m", "n"} = Constants
  BY DEF Constants
<1>7. Tri(val[s]) = (IF val[s] = "y" THEN Yes ELSE IF val[s] = "m" THEN Mod ELSE No)
  BY DEF Tri
<1>8. ASSUME NEW p, NEW q, OneOfEach(e, f, p, q), OperandValue(p, val) \in Int, OperandValue(q, val) \in Int
      PROVE  AtMost(OperandValue(e, val), OperandValue(f, val))
             = AtMost(OperandValue(p, val), OperandValue(q, val))
  BY <1>8 DEF OneOfEach, AtMost
<1> HIDE DEF Eqn, Neq
<1>9. \A c \in Constants : OperandValue(Eqn(c), val) \in Int /\ OperandValue(Neq(c), val) \in Int
  BY <1>3, <1>4 DEF Yes, No
<1>10. OperandValue(Sym(s), val) \in Int
  BY <1>3, <1>4, <1>7 DEF Yes, Mod, No
<1>11. CASE r1
  <2>1. LeafValue(j, val) = IF val[s] = "y" THEN Yes ELSE No
    BY <1>2, <1>3, <1>6, <1>11
  <2>2. AtMost(OperandValue(e, val), OperandValue(f, val))
        = AtMost(Tri(val[s]), IF val[s] = "y" THEN Yes ELSE No)
    BY <1>3, <1>4, <1>6, <1>8, <1>9, <1>10, <1>11
  <2> QED BY <1>7, <2>1, <2>2 DEF AtMost, Yes, Mod, No, j
<1>12. CASE ~r1 /\ r2
  <2>1. LeafValue(j, val) = Tri(val[s])
    BY <1>2, <1>3, <1>12
  <2>2. AtMost(OperandValue(e, val), OperandValue(f, val))
        = AtMost(Tri(val[s]), IF val[s] = "n" THEN No ELSE Yes)
    BY <1>3, <1>4, <1>6, <1>8, <1>9, <1>10, <1>12
  <2> QED BY <1>3, <1>6, <1>7, <2>1, <2>2 DEF AtMost, Yes, Mod, No, j
<1>13. CASE ~r1 /\ ~r2 /\ r3
  <2>1. LeafValue(j, val) = IF val[s] = "y" THEN Yes ELSE No
    BY <1>2, <1>3, <1>6, <1>13
  <2>2. AtMost(OperandValue(e, val), OperandValue(f, val))
        = AtMost(Tri(val[s]), IF val[s] = "m" THEN No ELSE Yes)
    BY <1>3, <1>4, <1>6, <1>8, <1>9, <1>10, <1>13
  <2> QED BY <1>3, <1>6, <1>7, <2>1, <2>2 DEF AtMost, Yes, Mod, No, j
<1>14. CASE ~r1 /\ ~r2 /\ ~r3 /\ r4
  <2> DEFINE x == e[3]
             y == f[3]
  <2>1. /\ x \in Flagged /\ y \in Flagged
        /\ \/ e = Eqn(x) /\ f = Neq(y) /\ e[1] = "="
           \/ e = Neq(x) /\ f = Eqn(y) /\ e[1] # "="
    BY <1>1, <1>14 DEF Eqn, Neq
  <2>6. \A z \in {x, y} : /\ LeafValue(Eqn(z), val) = IF val[s] = z THEN Yes ELSE No
                         /\ LeafValue(Neq(z), val) = IF val[s] = z THEN No ELSE Yes
    <3>1. ASSUME NEW z \in {x, y}, z \in DOMAIN Quoted
          PROVE  LeafValue(Eqn(z), val) = No /\ LeafValue(Neq(z), val) = Yes
      <4>1. /\ (z = x \/ z = y) /\ Type[s] = "tristate"
            /\ e = <<e[1], s, x>> /\ f = <<f[1], s, y>> /\ e[1] \in {"=", "!="} /\ f[1] \in {"=", "!="}
        BY <1>1, <1>14
      <4>2. ~SpellsAValue(s, z)
        <5> HIDE DEF x, y
        <5>1. e[2] = s /\ e[3] = x /\ f[2] = s /\ f[3] = y
          BY <4>1
        <5> QED BY <3>1, <4>1, <5>1 DEF Misleading
      <4> QED BY <1>1, <3>1, <4>1, <4>2, LiteralValues DEF Eqn, Neq
    <3>2. \A z \in DOMAIN Quoted : z # val[s]
      BY <1>3, KLeafAssumption DEF Constants
    <3> QED BY <1>3, <2>1, <3>1, <3>2 DEF Flagged
  <2>2. j = IF x = y THEN N ELSE IF e[1] = "=" THEN e ELSE f
    BY <1>2, <1>14
  <2> HIDE DEF x, y
  <2>3. LeafValue(N, val) = No
    BY ConstantValues
  <2>4. CASE e = Eqn(x) /\ f = Neq(y) /\ e[1] = "="
    <3>1. j = IF x = y THEN N ELSE Eqn(x)
      BY <2>2, <2>4
    <3>2. LeafValue(j, val) = IF x = y THEN No ELSE IF val[s] = x THEN Yes ELSE No
      BY <2>3, <2>6, <3>1
    <3>3. OperandValue(e, val) = (IF val[s] = x THEN Yes ELSE No)
          /\ OperandValue(f, val) = (IF val[s] = y THEN No ELSE Yes)
      BY <1>4, <2>4, <2>6
    <3> QED BY <3>2, <3>3 DEF AtMost, Yes, No, j
  <2>5. CASE e = Neq(x) /\ f = Eqn(y) /\ e[1] # "="
    <3>1. j = IF x = y THEN N ELSE Eqn(y)
      BY <2>2, <2>5
    <3>2. LeafValue(j, val) = IF x = y THEN No ELSE IF val[s] = y THEN Yes ELSE No
      BY <2>3, <2>6, <3>1
    <3>3. OperandValue(e, val) = (IF val[s] = x THEN No ELSE Yes)
          /\ OperandValue(f, val) = (IF val[s] = y THEN Yes ELSE No)
      BY <1>4, <2>5, <2>6
    <3> QED BY <3>2, <3>3 DEF AtMost, Yes, No, j
  <2> QED BY <2>1, <2>4, <2>5
<1>15. CASE ~r1 /\ ~r2 /\ ~r3 /\ ~r4 /\ r5
  <2> DEFINE x == e[3]
             y == f[3]
  <2>1. x \in Constants /\ y \in Constants /\ e = Neq(x) /\ f = Neq(y)
    BY <1>1, <1>15 DEF Neq
  <2>2. j = Eqn(Third(x, y))
    BY <1>2, <1>15
  <2> HIDE DEF x, y
  <2>3. x # y
    BY <2>1
  <2>4. Third(x, y) \in Constants /\ (val[s] = Third(x, y) <=> val[s] \notin {x, y})
    BY <1>3, <2>1, <2>3, ThirdConstant
  <2>5. LeafValue(j, val) = IF val[s] = Third(x, y) THEN Yes ELSE No
    BY <1>3, <2>2, <2>4
  <2>6. OperandValue(e, val) = (IF val[s] = x THEN No ELSE Yes)
        /\ OperandValue(f, val) = (IF val[s] = y THEN No ELSE Yes)
    BY <1>3, <1>4, <2>1
  <2> QED BY <2>3, <2>4, <2>5, <2>6 DEF AtMost, Yes, No, j
<1> QED BY <1>2, <1>11, <1>12, <1>13, <1>14, <1>15 DEF j

\* The opposite of a comparison holds when the comparison does not, however it is made.
THEOREM OppositeNegates ==
    ASSUME NEW val, Valuation(val), NEW c \in Comparisons, NEW s \in Symbols, NEW t \in Symbols,
           NEW e, e = <<c, s, t>>
    PROVE  LeafValue(Opposite(e), val) = Yes - LeafValue(e, val)
<1> DEFINE numeric == /\ Type[s] # "string" \/ Type[t] # "string"
                      /\ Numeric(s, val) /\ Numeric(t, val)
           a == AsNumber(s, numeric, val)
           b == AsNumber(t, numeric, val)
<1>1. numeric \in BOOLEAN
  BY Zenon
<1>2. numeric => Type[s] \in DOMAIN Number /\ Numeric(s, val) /\ Type[t] \in DOMAIN Number /\ Numeric(t, val)
  BY KLeafAssumption, Zenon DEF Symbols
<1>3. a \in Int /\ b \in Int
  <2> HIDE DEF numeric
  <2> QED BY <1>1, <1>2, ComparedAsIntegers
<1>4. \A o : Compare(o, s, t, val) <=> Holds(o, a, b)
  BY Zenon DEF Compare, CompareAs
<1> HIDE DEF a, b
<1>5. Holds(Negated[c], a, b) <=> ~Holds(c, a, b)
  <2>1. \/ c = "="  /\ Negated[c] = "!="
        \/ c = "!=" /\ Negated[c] = "="
        \/ c = "<"  /\ Negated[c] = ">="
        \/ c = "<=" /\ Negated[c] = ">"
        \/ c = ">"  /\ Negated[c] = "<="
        \/ c = ">=" /\ Negated[c] = "<"
    BY DEF Comparisons, Negated
  <2>2. /\ Holds("=", a, b) <=> a = b
        /\ Holds("!=", a, b) <=> a # b
        /\ Holds("<", a, b) <=> a < b
        /\ Holds("<=", a, b) <=> a <= b
        /\ Holds(">", a, b) <=> a > b
        /\ Holds(">=", a, b) <=> a >= b
    BY Zenon DEF Holds
  <2>3. (a < b <=> ~(a >= b)) /\ (a <= b <=> ~(a > b))
    BY <1>3
  <2> QED BY <2>1, <2>2, <2>3, Zenon
<1>6. Negated[c] # "sym" /\ c # "sym"
  BY DEF Negated, Comparisons
<1>7. LeafValue(e, val) = IF Holds(c, a, b) THEN Yes ELSE No
  BY <1>4, <1>6 DEF LeafValue
<1>8. LeafValue(Opposite(e), val) = IF Holds(Negated[c], a, b) THEN Yes ELSE No
  <2>1. Opposite(e) = <<Negated[c], s, t>>
    BY DEF Opposite
  <2> QED BY <1>4, <1>6, <2>1 DEF LeafValue
<1> QED BY <1>5, <1>7, <1>8 DEF Yes, No

\* The opposite of y is n, of m m and of n y.
THEOREM ConstantNegates ==
    ASSUME NEW val, Valuation(val), NEW c \in Constants
    PROVE  LeafValue(OppositeConstant(c), val) = Yes - LeafValue(Sym(c), val)
<1>1. LeafValue(Sym(c), val) = Tri(c)
  BY DEF LeafValue, Sym, TriOf, Valuation
<1>2. TriName(Yes - Tri(c)) \in Constants /\ Tri(TriName(Yes - Tri(c))) = Yes - Tri(c)
  BY DEF Constants, Tri, TriName, Yes, Mod, No
<1> DEFINE d == TriName(Yes - Tri(c))
<1>3. OppositeConstant(c) = Sym(d)
  BY DEF OppositeConstant
<1> HIDE DEF d
<1>4. LeafValue(Sym(d), val) = Tri(d)
  BY <1>2 DEF LeafValue, Sym, TriOf, Valuation, d
<1> QED BY <1>1, <1>2, <1>3, <1>4 DEF d

\* expr_transform asks a bool symbol itself instead of comparing it with a constant.
THEOREM TestKeepsMeaning ==
    ASSUME NEW val, Valuation(val), NEW e \in Leaf, TestsBool(e)
    PROVE  OperandValue(TestedBool(e), val) = LeafValue(e, val)
<1> DEFINE s == e[2]
           c == e[3]
<1>1. /\ e[1] \in {"=", "!="} /\ c \in Constants /\ Type[s] = "bool"
      /\ s \in Symbols /\ e = <<e[1], s, c>>
  BY DEF TestsBool, Leaf
<1>2. TestedBool(e) = IF c = "m" THEN IF e[1] = "=" THEN N ELSE Y
                 ELSE IF (e[1] = "=" /\ c = "y") \/ (e[1] = "!=" /\ c = "n") THEN Sym(s)
                 ELSE <<"not", Sym(s)>>
  BY DEF TestedBool
<1> HIDE DEF s, c
<1>3. /\ LeafValue(Sym(s), val) = Tri(val[s])
      /\ LeafValue(<<"=", s, c>>, val) = IF val[s] = c THEN Yes ELSE No
      /\ LeafValue(<<"!=", s, c>>, val) = IF val[s] = c THEN No ELSE Yes
      /\ LeafValue(Y, val) = Yes /\ LeafValue(N, val) = No
  BY <1>1, LeafValues, ConstantValues DEF Tristates
<1>4. val[s] \in {"n", "y"} /\ Tri(val[s]) = IF val[s] = "y" THEN Yes ELSE No
  BY <1>1 DEF Valuation, Tri
<1>5. /\ OperandValue(Sym(s), val) = Tri(val[s])
      /\ OperandValue(<<"not", Sym(s)>>, val) = Yes - Tri(val[s])
      /\ OperandValue(Y, val) = Yes /\ OperandValue(N, val) = No
  BY <1>3 DEF OperandValue, Sym, Y, N
<1>6. LeafValue(e, val) = IF e[1] = "=" THEN IF val[s] = c THEN Yes ELSE No
                          ELSE IF val[s] = c THEN No ELSE Yes
  BY <1>1, <1>3
<1> QED BY <1>1, <1>2, <1>4, <1>5, <1>6 DEF Yes, No, Constants

\* expr_trans_bool takes FOO!=n for FOO, which keeps whether it is n.
THEOREM NotNoKeepsNo ==
    ASSUME NEW val, Valuation(val), NEW e \in Leaf, IsNotNo(e)
    PROVE  LeafValue(Sym(e[2]), val) = No <=> LeafValue(e, val) = No
<1> DEFINE s == e[2]
<1>1. s \in Symbols /\ Type[s] = "tristate" /\ e = <<"!=", s, "n">>
  BY DEF IsNotNo, Leaf
<1> HIDE DEF s
<1>2. "n" \in Constants
  BY DEF Constants
<1>3. /\ LeafValue(Sym(s), val) = Tri(val[s]) /\ val[s] \in Constants
      /\ LeafValue(e, val) = IF val[s] = "n" THEN No ELSE Yes
  BY <1>1, <1>2, LeafValues DEF Tristates
<1> QED BY <1>3 DEF Tri, Constants, Yes, Mod, No, s
-----------------------------------------------------------------------------
(* conf_write_autoconf *)

\* The symbols that are due are those about which kbuild is told something new, apart from a
\* number without a value.
LEMMA TouchesTells ==
    ASSUME NEW old, NEW new, Written(new), NEW s \in Symbols,
           s \in DOMAIN old /\ Type[s] \in Tristates => old[s] # "n"
    PROVE  /\ Says(AutoOf(new), s) # Says(old, s) => Touches(s, old, new)
           /\ Touches(s, old, new) => \/ Says(AutoOf(new), s) # Says(old, s)
                                      \/ s \in DOMAIN new /\ ~Settable(s, new[s])
<1>1. Says(old, s) = IF Gives(old, s) THEN {old[s]} ELSE {}
  BY DEF Says
<1>2. Says(AutoOf(new), s) = IF HasLine(s, new) /\ Settable(s, new[s]) THEN {new[s]} ELSE {}
  <2>1. s \in DOMAIN AutoOf(new) <=> HasLine(s, new)
    BY DEF AutoOf, HasLine
  <2>2. HasLine(s, new) => AutoOf(new)[s] = new[s]
    BY DEF AutoOf, HasLine
  <2> QED BY <2>1, <2>2 DEF Says, Gives
<1>3. s \in DOMAIN new /\ Type[s] \in Tristates => /\ Settable(s, new[s])
                                                 /\ Tri(new[s]) = No <=> new[s] = "n"
  BY DEF Written, Settable, Tristates, Tri, Yes, Mod, No
<1>4. Gives(old, s) => Settable(s, old[s])
  BY DEF Gives
<1>5. Gives(old, s) /\ Type[s] \in Tristates => old[s] # "n"
  BY DEF Gives
<1> QED
  BY <1>1, <1>2, <1>3, <1>4, <1>5 DEF Touches, HasLine

\* Between the touching and the renaming every symbol about which auto.conf will say something
\* new is touched.
SyncInv ==
    /\ OldIsNeverNo
    /\ stage \in {"none", "split", "auto"}
    /\ stage # "none" => Written(config)
    /\ stage = "auto" => Due \subseteq touched

\* Every step of conf_write_autoconf keeps the invariant.
LEMMA SyncStep == ASSUME SyncInv, [Next]_vars PROVE SyncInv'
<1>1. CASE Configure
  BY <1>1 DEF SyncInv, Configure, OldIsNeverNo
<1>2. CASE Begin
  BY <1>2 DEF SyncInv, Begin, OldIsNeverNo
<1>3. CASE Split
  <2>1. PICK some \in SUBSET Due : /\ touched' = touched \cup some
                                  /\ stage' \in {"none"} \cup {go \in {"auto"} : some = Due}
    BY <1>3 DEF Split
  <2>2. stage' \in {"none", "auto"} /\ (stage' = "auto" => some = Due)
    BY <2>1
  <2>3. Due' = Due
    BY <1>3 DEF Split, Due
  <2> QED
    BY <1>3, <2>1, <2>2, <2>3 DEF SyncInv, Split, OldIsNeverNo, Written
<1>4. CASE WriteAuto
  <2>1. \A s \in DOMAIN AutoOf(config) : HasLine(s, config) /\ AutoOf(config)[s] = config[s]
    BY DEF AutoOf
  <2>2. OldIsNeverNo'
    BY <1>4, <2>1 DEF WriteAuto, OldIsNeverNo, HasLine
  <2> QED
    BY <1>4, <2>2 DEF SyncInv, WriteAuto
<1>5. CASE Interrupt
  BY <1>5 DEF SyncInv, Interrupt, OldIsNeverNo
<1>6. CASE UNCHANGED vars
  BY <1>6 DEF SyncInv, vars, OldIsNeverNo, Due, Written
<1> QED
  BY <1>1, <1>2, <1>3, <1>4, <1>5, <1>6 DEF Next

\* The invariant holds at every step of a sync.
LEMMA SyncAlways == Spec => []SyncInv
<1>1. Init => SyncInv
  BY DEF Init, SyncInv, OldIsNeverNo, Empty
<1> QED
  BY <1>1, SyncStep, PTL DEF Spec

\* conf_split_config may take an old value for one that is not 'no', as its comment says.
THEOREM OldNeverNoAlways == Spec => []OldIsNeverNo
<1>1. SyncInv => OldIsNeverNo
  BY DEF SyncInv
<1> QED
  BY <1>1, SyncAlways, PTL

\* Before auto.conf is renamed, the file of every symbol about which it says something new has
\* been touched, by this sync or by one that broke off.
THEOREM ChangesTouched == Spec => TouchedInTime
<1>1. ASSUME SyncInv, [Next]_vars, auto' # auto, NEW s \in Symbols, Says(auto', s) # Says(auto, s)
      PROVE  s \in touched
  <2>1. WriteAuto
    BY <1>1 DEF Next, vars, Configure, Begin, Split, Interrupt
  <2>2. auto' = AutoOf(config) /\ Written(config) /\ Due \subseteq touched
    BY <1>1, <2>1 DEF WriteAuto, SyncInv
  <2>3. Touches(s, auto, config)
    BY <1>1, <2>2, TouchesTells DEF SyncInv, OldIsNeverNo
  <2> QED
    BY <2>2, <2>3 DEF Due
<1>2. SyncInv /\ [Next]_vars =>
        [auto' # auto => \A s \in Symbols : Says(auto', s) # Says(auto, s) => s \in touched]_vars
  BY <1>1
<1> QED
  BY <1>2, SyncAlways, PTL DEF Spec, TouchedInTime

\* A sync makes kbuild rebuild nothing without reason.
THEOREM OnlyChangesTouched == Spec => NothingElseTouched
<1>1. ASSUME SyncInv, [Next]_vars, NEW s \in touched' \ touched
      PROVE  \/ Says(AutoOf(config), s) # Says(auto, s)
             \/ s \in DOMAIN config /\ ~Settable(s, config[s])
  <2>1. Split
    BY <1>1 DEF Next, vars, Configure, Begin, WriteAuto, Interrupt
  <2>2. s \in Due /\ Written(config)
    BY <1>1, <2>1 DEF Split, SyncInv
  <2> QED
    BY <1>1, <2>2, TouchesTells DEF Due, SyncInv, OldIsNeverNo
<1>2. SyncInv /\ [Next]_vars =>
        [\A s \in touched' \ touched :
            \/ Says(AutoOf(config), s) # Says(auto, s)
            \/ s \in DOMAIN config /\ ~Settable(s, config[s])]_vars
  BY <1>1
<1> QED
  BY <1>2, SyncAlways, PTL DEF Spec, NothingElseTouched

-----------------------------------------------------------------------------
(* Induction, as a fact about sets *)

\* What holds at first and passes from each number to the next holds as far as it passes.
LEMMA Induct ==
    ASSUME NEW K \in Nat, NEW S, 0 \in S, \A n \in 0..K : n \in S /\ n < K => n + 1 \in S
    PROVE  \A n \in 0..K : n \in S
<1> DEFINE R == OpToRel(<, Nat)
           U == {n \in 0..K : n \notin S}
<1>1. IsWellFoundedOn(R, Nat)
  BY NatLessThanWellFounded
<1>2. \A x, y \in Nat : x < y => <<x, y>> \in R
  BY DEF OpToRel
<1>3. U \subseteq Nat
  OBVIOUS
<1> HIDE DEF R
<1>4. ASSUME U # {} PROVE FALSE
  <2> HIDE DEF U
  <2>1. PICK i \in U : \A j \in U : ~(<<j, i>> \in R)
    BY <1>1, <1>3, <1>4, WFMin
  <2>2. i \in 0..K /\ i \notin S /\ i # 0
    BY <2>1 DEF U
  <2>3. i - 1 \in 0..K /\ i - 1 < K /\ i - 1 < i /\ (i - 1) + 1 = i
    BY <2>2
  <2>4. i - 1 \in S
    BY <1>2, <1>3, <2>1, <2>2, <2>3 DEF U
  <2> QED BY <2>2, <2>3, <2>4
<1> QED BY <1>4
-----------------------------------------------------------------------------
(* Expressions *)

\* The expressions are built depth by depth: the recursion has a solution.
LEMMA ExprsDef ==
    Exprs = [d \in 0..MaxDepth |-> Deeper(IF d = 0 THEN {} ELSE Exprs[d - 1])]
<1> DEFINE Made(f, K) == f = [d \in 0..K |-> Deeper(IF d = 0 THEN {} ELSE f[d - 1])]
           S == {K \in 0..MaxDepth : \E f : Made(f, K)}
<1>1. 0 \in S
  <2>1. Made([d \in 0..0 |-> Deeper({})], 0)
    OBVIOUS
  <2>2. 0 \in 0..MaxDepth
    BY KExprAssumption
  <2> HIDE DEF Made
  <2> QED BY <2>1, <2>2
<1>2. ASSUME NEW K \in 0..MaxDepth, K \in S, K < MaxDepth PROVE K + 1 \in S
  <2>1. PICK f : Made(f, K)
    BY <1>2
  <2> DEFINE g == [d \in 0..(K + 1) |-> IF d = K + 1 THEN Deeper(f[K]) ELSE f[d]]
  <2>2. \A d \in 0..K : g[d] = f[d]
    OBVIOUS
  <2>3. g[K + 1] = Deeper(f[K])
    OBVIOUS
  <2>4. ASSUME NEW d \in 0..(K + 1)
        PROVE  g[d] = Deeper(IF d = 0 THEN {} ELSE g[d - 1])
    <3>1. CASE d = K + 1
      <4>1. d # 0 /\ d - 1 = K /\ K \in 0..K
        BY <3>1
      <4> QED BY <2>2, <2>3, <3>1, <4>1
    <3>2. CASE d # K + 1
      <4>1. d \in 0..K /\ (d # 0 => d - 1 \in 0..K)
        BY <3>2
      <4>2. f[d] = Deeper(IF d = 0 THEN {} ELSE f[d - 1])
        BY <2>1, <4>1
      <4>3. (IF d = 0 THEN {} ELSE g[d - 1]) = (IF d = 0 THEN {} ELSE f[d - 1])
        BY <2>2, <4>1
      <4> HIDE DEF g
      <4> QED BY <2>2, <4>1, <4>2, <4>3
    <3> QED BY <3>1, <3>2
  <2>5. Made(g, K + 1)
    <3> g = [d \in 0..(K + 1) |-> g[d]]
      OBVIOUS
    <3> HIDE DEF g
    <3> QED BY <2>4
  <2>6. K + 1 \in 0..MaxDepth
    BY <1>2, KExprAssumption
  <2> HIDE DEF Made, g
  <2> QED BY <2>5, <2>6
<1>3. MaxDepth \in S
  <2> HIDE DEF S
  <2>1. \A K \in 0..MaxDepth : K \in S
    BY <1>1, <1>2, KExprAssumption, Induct
  <2> QED BY <2>1, KExprAssumption
<1> QED BY <1>3 DEF Exprs

\* How deep expressions may nest.
Depths == 0..MaxDepth

\* The expressions of each depth, from those of the depth below.
LEMMA ExprsAt ==
    /\ MaxDepth \in Depths /\ 0 \in Depths
    /\ Exprs[0] = Leaf
    /\ \A d \in Depths : d # 0 =>
          /\ d - 1 \in Depths
          /\ Exprs[d] = Leaf \cup ({"not"} \X Exprs[d - 1]) \cup (Levels \X Exprs[d - 1] \X Exprs[d - 1])
<1>1. MaxDepth \in Depths /\ 0 \in Depths /\ \A d \in Depths : d # 0 => d - 1 \in Depths
  BY KExprAssumption DEF Depths
<1>2. Exprs[0] = Deeper({}) /\ \A d \in Depths : d # 0 => Exprs[d] = Deeper(Exprs[d - 1])
  BY <1>1, ExprsDef DEF Depths
<1> QED BY <1>1, <1>2 DEF Deeper

\* The heads of the expressions tell them apart.
LEMMA Heads ==
    /\ \A e \in Leaf : /\ e[1] \in Comparisons \cup {"sym"}
                       /\ e[1] = "sym" => e = <<"sym", e[2]>> /\ e[2] \in Symbols
                       /\ e[1] \in Comparisons => e = <<e[1], e[2], e[3]>> /\ e[2] \in Symbols /\ e[3] \in Symbols
    /\ \A t \in Comparisons \cup {"sym"} : t \notin Levels \cup {"not"} /\ t # "null"
    /\ "sym" \notin Comparisons /\ "not" \notin Levels
BY DEF Leaf, Comparisons, Levels

\* The smaller expressions are among the larger.
LEMMA ExprsGrow ==
    ASSUME NEW d \in Depths, NEW c \in 0..d
    PROVE  Exprs[c] \subseteq Exprs[d] /\ Exprs[d] \subseteq Expr
<1> DEFINE S == {k \in Depths : \A j \in 0..k : Exprs[j] \subseteq Exprs[k]}
<1>1. 0 \in S
  BY KExprAssumption DEF Depths
<1>2. ASSUME NEW k \in Depths, k \in S, k < MaxDepth PROVE k + 1 \in S
  <2>1. k + 1 \in Depths /\ k + 1 # 0 /\ (k + 1) - 1 = k
    BY <1>2, KExprAssumption DEF Depths
  <2>2. Exprs[k + 1] = Leaf \cup ({"not"} \X Exprs[k]) \cup (Levels \X Exprs[k] \X Exprs[k])
    BY <2>1, ExprsAt
  <2>3. Exprs[k] \subseteq Exprs[k + 1]
    <3>1. CASE k = 0
      BY <3>1, <2>2, ExprsAt
    <3>2. CASE k # 0
      <4>1. k - 1 \in 0..k
        BY <3>2 DEF Depths
      <4>2. Exprs[k - 1] \subseteq Exprs[k]
        BY <1>2, <4>1
      <4>3. Exprs[k] = Leaf \cup ({"not"} \X Exprs[k - 1]) \cup (Levels \X Exprs[k - 1] \X Exprs[k - 1])
        BY <3>2, ExprsAt
      <4> QED BY <2>2, <4>2, <4>3
    <3> QED BY <3>1, <3>2
  <2>4. ASSUME NEW j \in 0..(k + 1) PROVE Exprs[j] \subseteq Exprs[k + 1]
    <3>1. j \in 0..k \/ j = k + 1
      BY DEF Depths
    <3> QED BY <1>2, <2>3, <3>1
  <2> QED BY <2>1, <2>4
<1>3. \A k \in Depths : k \in S
  <2> HIDE DEF S
  <2> QED BY <1>1, <1>2, KExprAssumption, Induct DEF Depths
<1>4. d \in 0..MaxDepth /\ MaxDepth \in Depths
  BY KExprAssumption DEF Depths
<1> QED BY <1>3, <1>4 DEF Expr

\* An expression is a leaf, or made of ones that nest less deep.
LEMMA ExprCases ==
    ASSUME NEW d \in Depths, NEW e \in Exprs[d]
    PROVE  /\ e \in Expr
           /\ \/ e \in Leaf /\ e[1] \notin Levels \cup {"not"}
              \/ /\ d # 0 /\ d - 1 \in Depths /\ e[1] = "not" /\ e = <<"not", e[2]>>
                 /\ e[2] \in Exprs[d - 1] /\ e[2] \in Expr
              \/ /\ d # 0 /\ d - 1 \in Depths /\ e[1] \in Levels /\ e = <<e[1], e[2], e[3]>>
                 /\ e[2] \in Exprs[d - 1] /\ e[2] \in Expr
                 /\ e[3] \in Exprs[d - 1] /\ e[3] \in Expr
<1>1. e \in Expr
  <2>1. 0 \in 0..d
    BY DEF Depths
  <2> QED BY <2>1, ExprsGrow
<1>2. CASE e \in Leaf
  BY <1>1, <1>2, Heads
<1>3. CASE e \notin Leaf
  <2>1. d # 0
    BY <1>3, ExprsAt
  <2>2. d - 1 \in Depths
    BY <2>1, ExprsAt
  <2>3. e \in ({"not"} \X Exprs[d - 1]) \cup (Levels \X Exprs[d - 1] \X Exprs[d - 1])
    BY <1>3, <2>1, ExprsAt
  <2>4. Exprs[d - 1] \subseteq Expr
    <3>1. 0 \in 0..(d - 1)
      BY <2>1 DEF Depths
    <3> QED BY <2>2, <3>1, ExprsGrow
  <2> QED BY <1>1, <2>1, <2>2, <2>3, <2>4
<1> QED BY <1>2, <1>3

\* The three kinds of expressions.
LEMMA ExprKinds ==
    ASSUME NEW e \in Expr
    PROVE  \/ e \in Leaf /\ e[1] \notin Levels \cup {"not"}
           \/ e[1] = "not" /\ e = <<"not", e[2]>> /\ e[2] \in Expr
           \/ e[1] \in Levels /\ e = <<e[1], e[2], e[3]>> /\ e[2] \in Expr /\ e[3] \in Expr
BY ExprCases, ExprsAt DEF Expr

\* Induction over the expressions.
LEMMA ExprInduct ==
    ASSUME NEW S, Leaf \subseteq S,
           \A e \in Expr : (e[1] = "not" /\ e[2] \in Expr /\ e[2] \in S) => e \in S,
           \A e \in Expr : (/\ e[1] \in Levels
                            /\ e[2] \in Expr /\ e[2] \in S
                            /\ e[3] \in Expr /\ e[3] \in S) => e \in S
    PROVE  \A e \in Expr : e \in S
<1> DEFINE T == {d \in Depths : Exprs[d] \subseteq S}
<1>1. 0 \in T
  BY ExprsAt
<1>2. ASSUME NEW d \in Depths, d \in T, d < MaxDepth PROVE d + 1 \in T
  <2>1. d + 1 \in Depths /\ (d + 1) - 1 = d
    BY <1>2, KExprAssumption DEF Depths
  <2>2. ASSUME NEW e \in Exprs[d + 1] PROVE e \in S
    BY <1>2, <2>1, ExprCases
  <2> QED BY <2>1, <2>2
<1>3. \A d \in Depths : d \in T
  <2> HIDE DEF T
  <2> QED BY <1>1, <1>2, KExprAssumption, Induct DEF Depths
<1> QED BY <1>3, ExprsAt DEF Expr

\* What a function on the smaller expressions makes of the operands of e is what it makes of them.
LEMMA SmallerOperands ==
    ASSUME NEW d \in Depths, d < MaxDepth, NEW e \in Exprs[d + 1]
    PROVE  /\ e[1] = "not" => e[2] \in Exprs[d]
           /\ e[1] \in Levels => e[2] \in Exprs[d] /\ e[3] \in Exprs[d]
<1>1. d + 1 \in Depths /\ (d + 1) - 1 = d
  BY KExprAssumption DEF Depths
<1> QED BY <1>1, ExprCases, Heads

\* expr_calc_value for one assignment of values.
Worth(val) == CHOOSE worth : worth = [f \in Expr |->
    CASE f[1] = "and" -> AtMost(worth[f[2]], worth[f[3]])
      [] f[1] = "or"  -> AtLeast(worth[f[2]], worth[f[3]])
      [] f[1] = "not" -> Yes - worth[f[2]]
      [] f[1] \in Comparisons \cup {"sym"} -> LeafValue(f, val)]

\* expr_calc_value is defined for every expression.
LEMMA WorthDef ==
    ASSUME NEW val
    PROVE  Worth(val) = [f \in Expr |->
              CASE f[1] = "and" -> AtMost(Worth(val)[f[2]], Worth(val)[f[3]])
                [] f[1] = "or"  -> AtLeast(Worth(val)[f[2]], Worth(val)[f[3]])
                [] f[1] = "not" -> Yes - Worth(val)[f[2]]
                [] f[1] \in Comparisons \cup {"sym"} -> LeafValue(f, val)]
<1> DEFINE B(w, f) == CASE f[1] = "and" -> AtMost(w[f[2]], w[f[3]])
                        [] f[1] = "or"  -> AtLeast(w[f[2]], w[f[3]])
                        [] f[1] = "not" -> Yes - w[f[2]]
                        [] f[1] \in Comparisons \cup {"sym"} -> LeafValue(f, val)
           S == {d \in Depths : \E w : w = [f \in Exprs[d] |-> B(w, f)]}
<1>1. ASSUME NEW w, NEW x, NEW f \in Expr,
             f[1] = "not" => w[f[2]] = x[f[2]],
             f[1] \in Levels => w[f[2]] = x[f[2]] /\ w[f[3]] = x[f[3]]
      PROVE  B(w, f) = B(x, f)
  <2>1. CASE f[1] = "and"
    BY <1>1, <2>1 DEF Levels
  <2>2. CASE f[1] = "or"
    BY <1>1, <2>2 DEF Levels
  <2>3. CASE f[1] = "not"
    BY <1>1, <2>3
  <2>4. CASE f[1] \in Comparisons \cup {"sym"}
    BY <2>4, Heads DEF Levels
  <2> QED BY <2>1, <2>2, <2>3, <2>4, ExprKinds, Heads DEF Levels
<1> HIDE DEF B
<1>2. 0 \in S
  <2> DEFINE w == [f \in Leaf |-> B(<<>>, f)]
  <2>1. \A f \in Leaf : B(w, f) = B(<<>>, f)
    BY <1>1, Heads, ExprCases, ExprsAt
  <2>2. w = [f \in Exprs[0] |-> B(w, f)]
    BY <2>1, ExprsAt
  <2> HIDE DEF w
  <2> QED BY <2>2, ExprsAt
<1>3. ASSUME NEW d \in Depths, d \in S, d < MaxDepth PROVE d + 1 \in S
  <2>1. PICK w : w = [f \in Exprs[d] |-> B(w, f)]
    BY <1>3
  <2> DEFINE x == [f \in Exprs[d + 1] |-> B(w, f)]
  <2>2. d + 1 \in Depths /\ d \in 0..(d + 1)
    BY <1>3, KExprAssumption DEF Depths
  <2>3. \A f \in Exprs[d] : w[f] = x[f]
    BY <2>1, <2>2, ExprsGrow
  <2>4. ASSUME NEW f \in Exprs[d + 1] PROVE B(w, f) = B(x, f)
    <3>1. /\ f \in Expr
          /\ f[1] = "not" => f[2] \in Exprs[d]
          /\ f[1] \in Levels => f[2] \in Exprs[d] /\ f[3] \in Exprs[d]
      BY <1>3, <2>2, SmallerOperands, ExprCases
    <3> HIDE DEF x
    <3> QED BY <1>1, <2>3, <3>1
  <2>5. x = [f \in Exprs[d + 1] |-> B(x, f)]
    BY <2>4
  <2> HIDE DEF x
  <2> QED BY <2>2, <2>5
<1>4. \E w : w = [f \in Expr |-> B(w, f)]
  <2>1. \A d \in Depths : d \in S
    <3> HIDE DEF S
    <3> QED BY <1>2, <1>3, KExprAssumption, Induct DEF Depths
  <2> QED BY <2>1, ExprsAt DEF Expr
<1> QED BY <1>4 DEF Worth, B

\* Calc is that function.
LEMMA CalcIsWorth ==
    ASSUME NEW val, NEW e, e # Null
    PROVE  Calc(e, val) = Worth(val)[e]
BY DEF Calc, Worth

\* expr_eliminate_yn
LEMMA EliminateYNDef ==
    EliminateYN = [f \in Expr |-> IF f[1] \in Levels THEN WithoutYN(f[1], EliminateYN[f[2]], EliminateYN[f[3]]) ELSE f]
<1> DEFINE B(w, f) == IF f[1] \in Levels THEN WithoutYN(f[1], w[f[2]], w[f[3]]) ELSE f
           S == {d \in Depths : \E w : w = [f \in Exprs[d] |-> B(w, f)]}
<1>1. ASSUME NEW w, NEW x, NEW f \in Expr,
             f[1] = "not" => w[f[2]] = x[f[2]],
             f[1] \in Levels => w[f[2]] = x[f[2]] /\ w[f[3]] = x[f[3]]
      PROVE  B(w, f) = B(x, f)
  <2>1. CASE f[1] \in Levels
    BY <1>1, <2>1, Heads
  <2>2. CASE f[1] = "not"
    BY <1>1, <2>2, Heads
  <2>3. CASE f[1] \in Comparisons \cup {"sym"}
    BY <2>3, Heads
  <2> QED BY <2>1, <2>2, <2>3, ExprKinds, Heads
<1> HIDE DEF B
<1>2. 0 \in S
  <2> DEFINE w == [f \in Leaf |-> B(<<>>, f)]
  <2>1. \A f \in Leaf : B(w, f) = B(<<>>, f)
    BY <1>1, Heads, ExprCases, ExprsAt
  <2>2. w = [f \in Exprs[0] |-> B(w, f)]
    BY <2>1, ExprsAt
  <2> HIDE DEF w
  <2> QED BY <2>2, ExprsAt
<1>3. ASSUME NEW d \in Depths, d \in S, d < MaxDepth PROVE d + 1 \in S
  <2>1. PICK w : w = [f \in Exprs[d] |-> B(w, f)]
    BY <1>3
  <2> DEFINE x == [f \in Exprs[d + 1] |-> B(w, f)]
  <2>2. d + 1 \in Depths /\ d \in 0..(d + 1)
    BY <1>3, KExprAssumption DEF Depths
  <2>3. \A f \in Exprs[d] : w[f] = x[f]
    BY <2>1, <2>2, ExprsGrow
  <2>4. ASSUME NEW f \in Exprs[d + 1] PROVE B(w, f) = B(x, f)
    <3>1. /\ f \in Expr
          /\ f[1] = "not" => f[2] \in Exprs[d]
          /\ f[1] \in Levels => f[2] \in Exprs[d] /\ f[3] \in Exprs[d]
      BY <1>3, <2>2, SmallerOperands, ExprCases
    <3> HIDE DEF x
    <3> QED BY <1>1, <2>3, <3>1
  <2>5. x = [f \in Exprs[d + 1] |-> B(x, f)]
    BY <2>4
  <2> HIDE DEF x
  <2> QED BY <2>2, <2>5
<1>4. \E w : w = [f \in Expr |-> B(w, f)]
  <2>1. \A d \in Depths : d \in S
    <3> HIDE DEF S
    <3> QED BY <1>2, <1>3, KExprAssumption, Induct DEF Depths
  <2> QED BY <2>1, ExprsAt DEF Expr
<1> QED BY <1>4 DEF EliminateYN, B

\* expr_trans_bool
LEMMA TransBoolDef ==
    TransBool = [f \in Expr |-> CASE f[1] \in Levels -> <<f[1], TransBool[f[2]], TransBool[f[3]]>>
                           [] f[1] = "not"    -> <<"not", TransBool[f[2]]>>
                           [] IsNotNo(f)      -> Sym(f[2])
                           [] OTHER -> f]
<1> DEFINE B(w, f) == CASE f[1] \in Levels -> <<f[1], w[f[2]], w[f[3]]>>
                           [] f[1] = "not"    -> <<"not", w[f[2]]>>
                           [] IsNotNo(f)      -> Sym(f[2])
                           [] OTHER -> f
           S == {d \in Depths : \E w : w = [f \in Exprs[d] |-> B(w, f)]}
<1>1. ASSUME NEW w, NEW x, NEW f \in Expr,
             f[1] = "not" => w[f[2]] = x[f[2]],
             f[1] \in Levels => w[f[2]] = x[f[2]] /\ w[f[3]] = x[f[3]]
      PROVE  B(w, f) = B(x, f)
  <2>1. CASE f[1] \in Levels
    BY <1>1, <2>1, Heads
  <2>2. CASE f[1] = "not"
    BY <1>1, <2>2, Heads
  <2>3. CASE f[1] \in Comparisons \cup {"sym"}
    BY <2>3, Heads
  <2> QED BY <2>1, <2>2, <2>3, ExprKinds, Heads
<1> HIDE DEF B
<1>2. 0 \in S
  <2> DEFINE w == [f \in Leaf |-> B(<<>>, f)]
  <2>1. \A f \in Leaf : B(w, f) = B(<<>>, f)
    BY <1>1, Heads, ExprCases, ExprsAt
  <2>2. w = [f \in Exprs[0] |-> B(w, f)]
    BY <2>1, ExprsAt
  <2> HIDE DEF w
  <2> QED BY <2>2, ExprsAt
<1>3. ASSUME NEW d \in Depths, d \in S, d < MaxDepth PROVE d + 1 \in S
  <2>1. PICK w : w = [f \in Exprs[d] |-> B(w, f)]
    BY <1>3
  <2> DEFINE x == [f \in Exprs[d + 1] |-> B(w, f)]
  <2>2. d + 1 \in Depths /\ d \in 0..(d + 1)
    BY <1>3, KExprAssumption DEF Depths
  <2>3. \A f \in Exprs[d] : w[f] = x[f]
    BY <2>1, <2>2, ExprsGrow
  <2>4. ASSUME NEW f \in Exprs[d + 1] PROVE B(w, f) = B(x, f)
    <3>1. /\ f \in Expr
          /\ f[1] = "not" => f[2] \in Exprs[d]
          /\ f[1] \in Levels => f[2] \in Exprs[d] /\ f[3] \in Exprs[d]
      BY <1>3, <2>2, SmallerOperands, ExprCases
    <3> HIDE DEF x
    <3> QED BY <1>1, <2>3, <3>1
  <2>5. x = [f \in Exprs[d + 1] |-> B(x, f)]
    BY <2>4
  <2> HIDE DEF x
  <2> QED BY <2>2, <2>5
<1>4. \E w : w = [f \in Expr |-> B(w, f)]
  <2>1. \A d \in Depths : d \in S
    <3> HIDE DEF S
    <3> QED BY <1>2, <1>3, KExprAssumption, Induct DEF Depths
  <2> QED BY <2>1, ExprsAt DEF Expr
<1> QED BY <1>4 DEF TransBool, B

\* expr_transform
LEMMA OpposedDef ==
    Opposed = [f \in Expr |-> CASE f[1] \in Levels      -> <<Swapped(f[1]), Opposed[f[2]], Opposed[f[3]]>>
                           [] f[1] = "not"         -> f[2]
                           [] f[1] \in Comparisons -> Opposite(f)
                           [] f[1] = "sym"         -> IF f[2] \in Constants THEN OppositeConstant(f[2]) ELSE <<"not", f>>]
<1> DEFINE B(w, f) == CASE f[1] \in Levels      -> <<Swapped(f[1]), w[f[2]], w[f[3]]>>
                           [] f[1] = "not"         -> f[2]
                           [] f[1] \in Comparisons -> Opposite(f)
                           [] f[1] = "sym"         -> IF f[2] \in Constants THEN OppositeConstant(f[2]) ELSE <<"not", f>>
           S == {d \in Depths : \E w : w = [f \in Exprs[d] |-> B(w, f)]}
<1>1. ASSUME NEW w, NEW x, NEW f \in Expr,
             f[1] = "not" => w[f[2]] = x[f[2]],
             f[1] \in Levels => w[f[2]] = x[f[2]] /\ w[f[3]] = x[f[3]]
      PROVE  B(w, f) = B(x, f)
  <2>1. CASE f[1] \in Levels
    BY <1>1, <2>1, Heads
  <2>2. CASE f[1] = "not"
    BY <1>1, <2>2, Heads
  <2>3. CASE f[1] \in Comparisons \cup {"sym"}
    BY <2>3, Heads
  <2> QED BY <2>1, <2>2, <2>3, ExprKinds, Heads
<1> HIDE DEF B
<1>2. 0 \in S
  <2> DEFINE w == [f \in Leaf |-> B(<<>>, f)]
  <2>1. \A f \in Leaf : B(w, f) = B(<<>>, f)
    BY <1>1, Heads, ExprCases, ExprsAt
  <2>2. w = [f \in Exprs[0] |-> B(w, f)]
    BY <2>1, ExprsAt
  <2> HIDE DEF w
  <2> QED BY <2>2, ExprsAt
<1>3. ASSUME NEW d \in Depths, d \in S, d < MaxDepth PROVE d + 1 \in S
  <2>1. PICK w : w = [f \in Exprs[d] |-> B(w, f)]
    BY <1>3
  <2> DEFINE x == [f \in Exprs[d + 1] |-> B(w, f)]
  <2>2. d + 1 \in Depths /\ d \in 0..(d + 1)
    BY <1>3, KExprAssumption DEF Depths
  <2>3. \A f \in Exprs[d] : w[f] = x[f]
    BY <2>1, <2>2, ExprsGrow
  <2>4. ASSUME NEW f \in Exprs[d + 1] PROVE B(w, f) = B(x, f)
    <3>1. /\ f \in Expr
          /\ f[1] = "not" => f[2] \in Exprs[d]
          /\ f[1] \in Levels => f[2] \in Exprs[d] /\ f[3] \in Exprs[d]
      BY <1>3, <2>2, SmallerOperands, ExprCases
    <3> HIDE DEF x
    <3> QED BY <1>1, <2>3, <3>1
  <2>5. x = [f \in Exprs[d + 1] |-> B(x, f)]
    BY <2>4
  <2> HIDE DEF x
  <2> QED BY <2>2, <2>5
<1>4. \E w : w = [f \in Expr |-> B(w, f)]
  <2>1. \A d \in Depths : d \in S
    <3> HIDE DEF S
    <3> QED BY <1>2, <1>3, KExprAssumption, Induct DEF Depths
  <2> QED BY <2>1, ExprsAt DEF Expr
<1> QED BY <1>4 DEF Opposed, B

\* expr_transform
LEMMA TransformedDef ==
    Transformed = [f \in Expr |-> CASE f[1] \in Levels -> <<f[1], Transformed[f[2]], Transformed[f[3]]>>
                           [] f[1] = "not"    -> Opposed[Transformed[f[2]]]
                           [] TestsBool(f)    -> TestedBool(f)
                           [] OTHER -> f]
<1> DEFINE B(w, f) == CASE f[1] \in Levels -> <<f[1], w[f[2]], w[f[3]]>>
                           [] f[1] = "not"    -> Opposed[w[f[2]]]
                           [] TestsBool(f)    -> TestedBool(f)
                           [] OTHER -> f
           S == {d \in Depths : \E w : w = [f \in Exprs[d] |-> B(w, f)]}
<1>1. ASSUME NEW w, NEW x, NEW f \in Expr,
             f[1] = "not" => w[f[2]] = x[f[2]],
             f[1] \in Levels => w[f[2]] = x[f[2]] /\ w[f[3]] = x[f[3]]
      PROVE  B(w, f) = B(x, f)
  <2>1. CASE f[1] \in Levels
    BY <1>1, <2>1, Heads
  <2>2. CASE f[1] = "not"
    BY <1>1, <2>2, Heads
  <2>3. CASE f[1] \in Comparisons \cup {"sym"}
    BY <2>3, Heads
  <2> QED BY <2>1, <2>2, <2>3, ExprKinds, Heads
<1> HIDE DEF B
<1>2. 0 \in S
  <2> DEFINE w == [f \in Leaf |-> B(<<>>, f)]
  <2>1. \A f \in Leaf : B(w, f) = B(<<>>, f)
    BY <1>1, Heads, ExprCases, ExprsAt
  <2>2. w = [f \in Exprs[0] |-> B(w, f)]
    BY <2>1, ExprsAt
  <2> HIDE DEF w
  <2> QED BY <2>2, ExprsAt
<1>3. ASSUME NEW d \in Depths, d \in S, d < MaxDepth PROVE d + 1 \in S
  <2>1. PICK w : w = [f \in Exprs[d] |-> B(w, f)]
    BY <1>3
  <2> DEFINE x == [f \in Exprs[d + 1] |-> B(w, f)]
  <2>2. d + 1 \in Depths /\ d \in 0..(d + 1)
    BY <1>3, KExprAssumption DEF Depths
  <2>3. \A f \in Exprs[d] : w[f] = x[f]
    BY <2>1, <2>2, ExprsGrow
  <2>4. ASSUME NEW f \in Exprs[d + 1] PROVE B(w, f) = B(x, f)
    <3>1. /\ f \in Expr
          /\ f[1] = "not" => f[2] \in Exprs[d]
          /\ f[1] \in Levels => f[2] \in Exprs[d] /\ f[3] \in Exprs[d]
      BY <1>3, <2>2, SmallerOperands, ExprCases
    <3> HIDE DEF x
    <3> QED BY <1>1, <2>3, <3>1
  <2>5. x = [f \in Exprs[d + 1] |-> B(x, f)]
    BY <2>4
  <2> HIDE DEF x
  <2> QED BY <2>2, <2>5
<1>4. \E w : w = [f \in Expr |-> B(w, f)]
  <2>1. \A d \in Depths : d \in S
    <3> HIDE DEF S
    <3> QED BY <1>2, <1>3, KExprAssumption, Induct DEF Depths
  <2> QED BY <2>1, ExprsAt DEF Expr
<1> QED BY <1>4 DEF Transformed, B

\* How many leaves
LEMMA SizeDef ==
    Size = [f \in Expr |-> CASE f[1] \in Levels -> Size[f[2]] + Size[f[3]] [] f[1] = "not" -> Size[f[2]] [] OTHER -> 1]
<1> DEFINE B(w, f) == CASE f[1] \in Levels -> w[f[2]] + w[f[3]] [] f[1] = "not" -> w[f[2]] [] OTHER -> 1
           S == {d \in Depths : \E w : w = [f \in Exprs[d] |-> B(w, f)]}
<1>1. ASSUME NEW w, NEW x, NEW f \in Expr,
             f[1] = "not" => w[f[2]] = x[f[2]],
             f[1] \in Levels => w[f[2]] = x[f[2]] /\ w[f[3]] = x[f[3]]
      PROVE  B(w, f) = B(x, f)
  <2>1. CASE f[1] \in Levels
    BY <1>1, <2>1, Heads
  <2>2. CASE f[1] = "not"
    BY <1>1, <2>2, Heads
  <2>3. CASE f[1] \in Comparisons \cup {"sym"}
    BY <2>3, Heads
  <2> QED BY <2>1, <2>2, <2>3, ExprKinds, Heads
<1> HIDE DEF B
<1>2. 0 \in S
  <2> DEFINE w == [f \in Leaf |-> B(<<>>, f)]
  <2>1. \A f \in Leaf : B(w, f) = B(<<>>, f)
    BY <1>1, Heads, ExprCases, ExprsAt
  <2>2. w = [f \in Exprs[0] |-> B(w, f)]
    BY <2>1, ExprsAt
  <2> HIDE DEF w
  <2> QED BY <2>2, ExprsAt
<1>3. ASSUME NEW d \in Depths, d \in S, d < MaxDepth PROVE d + 1 \in S
  <2>1. PICK w : w = [f \in Exprs[d] |-> B(w, f)]
    BY <1>3
  <2> DEFINE x == [f \in Exprs[d + 1] |-> B(w, f)]
  <2>2. d + 1 \in Depths /\ d \in 0..(d + 1)
    BY <1>3, KExprAssumption DEF Depths
  <2>3. \A f \in Exprs[d] : w[f] = x[f]
    BY <2>1, <2>2, ExprsGrow
  <2>4. ASSUME NEW f \in Exprs[d + 1] PROVE B(w, f) = B(x, f)
    <3>1. /\ f \in Expr
          /\ f[1] = "not" => f[2] \in Exprs[d]
          /\ f[1] \in Levels => f[2] \in Exprs[d] /\ f[3] \in Exprs[d]
      BY <1>3, <2>2, SmallerOperands, ExprCases
    <3> HIDE DEF x
    <3> QED BY <1>1, <2>3, <3>1
  <2>5. x = [f \in Exprs[d + 1] |-> B(x, f)]
    BY <2>4
  <2> HIDE DEF x
  <2> QED BY <2>2, <2>5
<1>4. \E w : w = [f \in Expr |-> B(w, f)]
  <2>1. \A d \in Depths : d \in S
    <3> HIDE DEF S
    <3> QED BY <1>2, <1>3, KExprAssumption, Induct DEF Depths
  <2> QED BY <2>1, ExprsAt DEF Expr
<1> QED BY <1>4 DEF Size, B

\* The operands of a level, as a function of the expression.
LeavesOf(t) == CHOOSE leaves : leaves = [f \in Expr |-> IF f[1] = t THEN leaves[f[2]] \o leaves[f[3]] ELSE <<f>>]

\* The operands of a level
LEMMA LeavesOfDef ==
    ASSUME NEW t \in Levels
    PROVE  LeavesOf(t) = [f \in Expr |-> IF f[1] = t THEN LeavesOf(t)[f[2]] \o LeavesOf(t)[f[3]] ELSE <<f>>]
<1> DEFINE B(w, f) == IF f[1] = t THEN w[f[2]] \o w[f[3]] ELSE <<f>>
           S == {d \in Depths : \E w : w = [f \in Exprs[d] |-> B(w, f)]}
<1>1. ASSUME NEW w, NEW x, NEW f \in Expr,
             f[1] = "not" => w[f[2]] = x[f[2]],
             f[1] \in Levels => w[f[2]] = x[f[2]] /\ w[f[3]] = x[f[3]]
      PROVE  B(w, f) = B(x, f)
  <2>1. CASE f[1] \in Levels
    BY <1>1, <2>1, Heads
  <2>2. CASE f[1] = "not"
    BY <1>1, <2>2, Heads
  <2>3. CASE f[1] \in Comparisons \cup {"sym"}
    BY <2>3, Heads
  <2> QED BY <2>1, <2>2, <2>3, ExprKinds, Heads
<1> HIDE DEF B
<1>2. 0 \in S
  <2> DEFINE w == [f \in Leaf |-> B(<<>>, f)]
  <2>1. \A f \in Leaf : B(w, f) = B(<<>>, f)
    BY <1>1, Heads, ExprCases, ExprsAt
  <2>2. w = [f \in Exprs[0] |-> B(w, f)]
    BY <2>1, ExprsAt
  <2> HIDE DEF w
  <2> QED BY <2>2, ExprsAt
<1>3. ASSUME NEW d \in Depths, d \in S, d < MaxDepth PROVE d + 1 \in S
  <2>1. PICK w : w = [f \in Exprs[d] |-> B(w, f)]
    BY <1>3
  <2> DEFINE x == [f \in Exprs[d + 1] |-> B(w, f)]
  <2>2. d + 1 \in Depths /\ d \in 0..(d + 1)
    BY <1>3, KExprAssumption DEF Depths
  <2>3. \A f \in Exprs[d] : w[f] = x[f]
    BY <2>1, <2>2, ExprsGrow
  <2>4. ASSUME NEW f \in Exprs[d + 1] PROVE B(w, f) = B(x, f)
    <3>1. /\ f \in Expr
          /\ f[1] = "not" => f[2] \in Exprs[d]
          /\ f[1] \in Levels => f[2] \in Exprs[d] /\ f[3] \in Exprs[d]
      BY <1>3, <2>2, SmallerOperands, ExprCases
    <3> HIDE DEF x
    <3> QED BY <1>1, <2>3, <3>1
  <2>5. x = [f \in Exprs[d + 1] |-> B(x, f)]
    BY <2>4
  <2> HIDE DEF x
  <2> QED BY <2>2, <2>5
<1>4. \E w : w = [f \in Expr |-> B(w, f)]
  <2>1. \A d \in Depths : d \in S
    <3> HIDE DEF S
    <3> QED BY <1>2, <1>3, KExprAssumption, Induct DEF Depths
  <2> QED BY <2>1, ExprsAt DEF Expr
<1> QED BY <1>4 DEF LeavesOf, B

\* Leaves is that function.
LEMMA LeavesIsLeavesOf ==
    ASSUME NEW t, NEW e
    PROVE  Leaves(t, e) = LeavesOf(t)[e]
BY DEF Leaves, LeavesOf

\* A level with other operands, as a function of the expression and of where its operands start.
Grown(t, s) == CHOOSE grown : grown = [f \in Expr |-> [i \in Nat |->
                  IF f[1] = t
                  THEN <<t, grown[f[2]][i], grown[f[3]][i + Len(Leaves(t, f[2]))]>>
                  ELSE s[i]]]

\* The level with other operands
LEMMA GrownDef ==
    ASSUME NEW t \in Levels, NEW s
    PROVE  Grown(t, s) = [f \in Expr |-> [i \in Nat |->
                  IF f[1] = t
                  THEN <<t, Grown(t, s)[f[2]][i], Grown(t, s)[f[3]][i + Len(Leaves(t, f[2]))]>>
                  ELSE s[i]]]
<1> DEFINE B(w, f) == [i \in Nat |->
                  IF f[1] = t
                  THEN <<t, w[f[2]][i], w[f[3]][i + Len(Leaves(t, f[2]))]>>
                  ELSE s[i]]
           S == {d \in Depths : \E w : w = [f \in Exprs[d] |-> B(w, f)]}
<1>1. ASSUME NEW w, NEW x, NEW f \in Expr,
             f[1] = "not" => w[f[2]] = x[f[2]],
             f[1] \in Levels => w[f[2]] = x[f[2]] /\ w[f[3]] = x[f[3]]
      PROVE  B(w, f) = B(x, f)
  <2>1. CASE f[1] \in Levels
    BY <1>1, <2>1, Heads
  <2>2. CASE f[1] = "not"
    BY <1>1, <2>2, Heads
  <2>3. CASE f[1] \in Comparisons \cup {"sym"}
    BY <2>3, Heads
  <2> QED BY <2>1, <2>2, <2>3, ExprKinds, Heads
<1> HIDE DEF B
<1>2. 0 \in S
  <2> DEFINE w == [f \in Leaf |-> B(<<>>, f)]
  <2>1. \A f \in Leaf : B(w, f) = B(<<>>, f)
    BY <1>1, Heads, ExprCases, ExprsAt
  <2>2. w = [f \in Exprs[0] |-> B(w, f)]
    BY <2>1, ExprsAt
  <2> HIDE DEF w
  <2> QED BY <2>2, ExprsAt
<1>3. ASSUME NEW d \in Depths, d \in S, d < MaxDepth PROVE d + 1 \in S
  <2>1. PICK w : w = [f \in Exprs[d] |-> B(w, f)]
    BY <1>3
  <2> DEFINE x == [f \in Exprs[d + 1] |-> B(w, f)]
  <2>2. d + 1 \in Depths /\ d \in 0..(d + 1)
    BY <1>3, KExprAssumption DEF Depths
  <2>3. \A f \in Exprs[d] : w[f] = x[f]
    BY <2>1, <2>2, ExprsGrow
  <2>4. ASSUME NEW f \in Exprs[d + 1] PROVE B(w, f) = B(x, f)
    <3>1. /\ f \in Expr
          /\ f[1] = "not" => f[2] \in Exprs[d]
          /\ f[1] \in Levels => f[2] \in Exprs[d] /\ f[3] \in Exprs[d]
      BY <1>3, <2>2, SmallerOperands, ExprCases
    <3> HIDE DEF x
    <3> QED BY <1>1, <2>3, <3>1
  <2>5. x = [f \in Exprs[d + 1] |-> B(x, f)]
    BY <2>4
  <2> HIDE DEF x
  <2> QED BY <2>2, <2>5
<1>4. \E w : w = [f \in Expr |-> B(w, f)]
  <2>1. \A d \in Depths : d \in S
    <3> HIDE DEF S
    <3> QED BY <1>2, <1>3, KExprAssumption, Induct DEF Depths
  <2> QED BY <2>1, ExprsAt DEF Expr
<1> QED BY <1>4 DEF Grown, B

\* WithLeaves is that function, from the first place on.
LEMMA WithLeavesIsGrown ==
    ASSUME NEW t, NEW e, NEW s
    PROVE  WithLeaves(t, e, s) = Grown(t, s)[e][1]
BY DEF WithLeaves, Grown

\* An expression in which only symbols are negated, as expr_transform leaves it, and no leaf is
\* among M.
Settled(M) == CHOOSE settled : settled = [f \in Expr |->
                  CASE f[1] \in Levels -> settled[f[2]] /\ settled[f[3]]
                    [] f[1] = "not"    -> f[2][1] = "sym"
                    [] OTHER -> f \notin M]

\* What it is to be settled
LEMMA SettledDef ==
    ASSUME NEW M
    PROVE  Settled(M) = [f \in Expr |->
                  CASE f[1] \in Levels -> Settled(M)[f[2]] /\ Settled(M)[f[3]]
                    [] f[1] = "not"    -> f[2][1] = "sym"
                    [] OTHER -> f \notin M]
<1> DEFINE B(w, f) == CASE f[1] \in Levels -> w[f[2]] /\ w[f[3]]
                        [] f[1] = "not"    -> f[2][1] = "sym"
                        [] OTHER -> f \notin M
           S == {d \in Depths : \E w : w = [f \in Exprs[d] |-> B(w, f)]}
<1>1. ASSUME NEW w, NEW x, NEW f \in Expr,
             f[1] = "not" => w[f[2]] = x[f[2]],
             f[1] \in Levels => w[f[2]] = x[f[2]] /\ w[f[3]] = x[f[3]]
      PROVE  B(w, f) = B(x, f)
  <2>1. CASE f[1] \in Levels
    BY <1>1, <2>1, Heads
  <2>2. CASE f[1] = "not"
    BY <1>1, <2>2, Heads
  <2>3. CASE f[1] \in Comparisons \cup {"sym"}
    BY <2>3, Heads
  <2> QED BY <2>1, <2>2, <2>3, ExprKinds, Heads
<1> HIDE DEF B
<1>2. 0 \in S
  <2> DEFINE w == [f \in Leaf |-> B(<<>>, f)]
  <2>1. \A f \in Leaf : B(w, f) = B(<<>>, f)
    BY <1>1, Heads, ExprCases, ExprsAt
  <2>2. w = [f \in Exprs[0] |-> B(w, f)]
    BY <2>1, ExprsAt
  <2> HIDE DEF w
  <2> QED BY <2>2, ExprsAt
<1>3. ASSUME NEW d \in Depths, d \in S, d < MaxDepth PROVE d + 1 \in S
  <2>1. PICK w : w = [f \in Exprs[d] |-> B(w, f)]
    BY <1>3
  <2> DEFINE x == [f \in Exprs[d + 1] |-> B(w, f)]
  <2>2. d + 1 \in Depths /\ d \in 0..(d + 1)
    BY <1>3, KExprAssumption DEF Depths
  <2>3. \A f \in Exprs[d] : w[f] = x[f]
    BY <2>1, <2>2, ExprsGrow
  <2>4. ASSUME NEW f \in Exprs[d + 1] PROVE B(w, f) = B(x, f)
    <3>1. /\ f \in Expr
          /\ f[1] = "not" => f[2] \in Exprs[d]
          /\ f[1] \in Levels => f[2] \in Exprs[d] /\ f[3] \in Exprs[d]
      BY <1>3, <2>2, SmallerOperands, ExprCases
    <3> HIDE DEF x
    <3> QED BY <1>1, <2>3, <3>1
  <2>5. x = [f \in Exprs[d + 1] |-> B(x, f)]
    BY <2>4
  <2> HIDE DEF x
  <2> QED BY <2>2, <2>5
<1>4. \E w : w = [f \in Expr |-> B(w, f)]
  <2>1. \A d \in Depths : d \in S
    <3> HIDE DEF S
    <3> QED BY <1>2, <1>3, KExprAssumption, Induct DEF Depths
  <2> QED BY <2>1, ExprsAt DEF Expr
<1> QED BY <1>4 DEF Settled, B

\* Uses, as a function of the expression.
Users(M) == CHOOSE uses : uses = [f \in Expr |->
                CASE f[1] \in Levels -> uses[f[2]] \/ uses[f[3]]
                  [] f[1] = "not"    -> uses[f[2]]
                  [] OTHER           -> f \in M]

\* What it is to use a leaf.
LEMMA UsersDef ==
    ASSUME NEW M
    PROVE  Users(M) = [f \in Expr |->
                CASE f[1] \in Levels -> Users(M)[f[2]] \/ Users(M)[f[3]]
                  [] f[1] = "not"    -> Users(M)[f[2]]
                  [] OTHER           -> f \in M]
<1> DEFINE B(w, f) == CASE f[1] \in Levels -> w[f[2]] \/ w[f[3]]
                        [] f[1] = "not"    -> w[f[2]]
                        [] OTHER           -> f \in M
           S == {d \in Depths : \E w : w = [f \in Exprs[d] |-> B(w, f)]}
<1>1. ASSUME NEW w, NEW x, NEW f \in Expr,
             f[1] = "not" => w[f[2]] = x[f[2]],
             f[1] \in Levels => w[f[2]] = x[f[2]] /\ w[f[3]] = x[f[3]]
      PROVE  B(w, f) = B(x, f)
  <2>1. CASE f[1] \in Levels
    BY <1>1, <2>1, Heads
  <2>2. CASE f[1] = "not"
    BY <1>1, <2>2, Heads
  <2>3. CASE f[1] \in Comparisons \cup {"sym"}
    BY <2>3, Heads
  <2> QED BY <2>1, <2>2, <2>3, ExprKinds, Heads
<1> HIDE DEF B
<1>2. 0 \in S
  <2> DEFINE w == [f \in Leaf |-> B(<<>>, f)]
  <2>1. \A f \in Leaf : B(w, f) = B(<<>>, f)
    BY <1>1, Heads, ExprCases, ExprsAt
  <2>2. w = [f \in Exprs[0] |-> B(w, f)]
    BY <2>1, ExprsAt
  <2> HIDE DEF w
  <2> QED BY <2>2, ExprsAt
<1>3. ASSUME NEW d \in Depths, d \in S, d < MaxDepth PROVE d + 1 \in S
  <2>1. PICK w : w = [f \in Exprs[d] |-> B(w, f)]
    BY <1>3
  <2> DEFINE x == [f \in Exprs[d + 1] |-> B(w, f)]
  <2>2. d + 1 \in Depths /\ d \in 0..(d + 1)
    BY <1>3, KExprAssumption DEF Depths
  <2>3. \A f \in Exprs[d] : w[f] = x[f]
    BY <2>1, <2>2, ExprsGrow
  <2>4. ASSUME NEW f \in Exprs[d + 1] PROVE B(w, f) = B(x, f)
    <3>1. /\ f \in Expr
          /\ f[1] = "not" => f[2] \in Exprs[d]
          /\ f[1] \in Levels => f[2] \in Exprs[d] /\ f[3] \in Exprs[d]
      BY <1>3, <2>2, SmallerOperands, ExprCases
    <3> HIDE DEF x
    <3> QED BY <1>1, <2>3, <3>1
  <2>5. x = [f \in Exprs[d + 1] |-> B(x, f)]
    BY <2>4
  <2> HIDE DEF x
  <2> QED BY <2>2, <2>5
<1>4. \E w : w = [f \in Expr |-> B(w, f)]
  <2>1. \A d \in Depths : d \in S
    <3> HIDE DEF S
    <3> QED BY <1>2, <1>3, KExprAssumption, Induct DEF Depths
  <2> QED BY <2>1, ExprsAt DEF Expr
<1> QED BY <1>4 DEF Users, B

-----------------------------------------------------------------------------
(* What expressions are worth *)

\* The missing expression is not among the expressions.
LEMMA NullIsNone == \A e \in Expr : e # Null
<1>1. ASSUME NEW e \in Expr PROVE e # Null
  <2>1. e[1] \in Comparisons \cup {"sym", "not"} \cup Levels
    BY ExprKinds, Heads
  <2>2. "null" \notin Comparisons \cup {"sym", "not"} \cup Levels
    BY DEF Comparisons, Levels
  <2>3. Null[1] = "null"
    BY DEF Null
  <2> QED BY <2>1, <2>2, <2>3
<1> QED BY <1>1

\* A leaf is worth n, m or y.
LEMMA LeafValueType ==
    ASSUME NEW val, NEW e
    PROVE  LeafValue(e, val) \in 0..2
BY DEF LeafValue, TriOf, Tri, Yes, Mod, No

\* What an expression is worth, from what its operands are.
LEMMA CalcEquations ==
    ASSUME NEW val, NEW e \in Expr
    PROVE  /\ e \in Leaf => Calc(e, val) = LeafValue(e, val)
           /\ e[1] = "not" => Calc(e, val) = 2 - Calc(e[2], val)
           /\ e[1] = "and" => Calc(e, val) = AtMost(Calc(e[2], val), Calc(e[3], val))
           /\ e[1] = "or" => Calc(e, val) = AtLeast(Calc(e[2], val), Calc(e[3], val))
<1>1. Calc(e, val) = CASE e[1] = "and" -> AtMost(Worth(val)[e[2]], Worth(val)[e[3]])
                [] e[1] = "or"  -> AtLeast(Worth(val)[e[2]], Worth(val)[e[3]])
                [] e[1] = "not" -> Yes - Worth(val)[e[2]]
                [] e[1] \in Comparisons \cup {"sym"} -> LeafValue(e, val)
  <2>1. Worth(val)[e] = CASE e[1] = "and" -> AtMost(Worth(val)[e[2]], Worth(val)[e[3]])
                [] e[1] = "or"  -> AtLeast(Worth(val)[e[2]], Worth(val)[e[3]])
                [] e[1] = "not" -> Yes - Worth(val)[e[2]]
                [] e[1] \in Comparisons \cup {"sym"} -> LeafValue(e, val)
    BY WorthDef, Zenon
  <2> QED BY <2>1, CalcIsWorth, NullIsNone, Zenon
<1>2. e[1] \in Levels \cup {"not"} => Worth(val)[e[2]] = Calc(e[2], val)
  BY ExprKinds, CalcIsWorth, NullIsNone, Heads
<1>3. e[1] \in Levels => Worth(val)[e[3]] = Calc(e[3], val)
  BY ExprKinds, CalcIsWorth, NullIsNone, Heads
<1>4. CASE e \in Leaf
  <2>1. e[1] \in Comparisons \cup {"sym"} /\ e[1] \notin {"and", "or", "not"}
    BY <1>4, Heads DEF Levels
  <2> QED BY <1>1, <2>1
<1>5. CASE e[1] = "not"
  BY <1>1, <1>2, <1>5, Heads DEF Yes
<1>6. CASE e[1] = "and"
  BY <1>1, <1>2, <1>3, <1>6, Heads DEF Levels
<1>7. CASE e[1] = "or"
  BY <1>1, <1>2, <1>3, <1>7, Heads DEF Levels
<1> QED BY <1>4, <1>5, <1>6, <1>7, Heads DEF Levels

\* An expression is worth n, m or y.
LEMMA CalcType ==
    ASSUME NEW val, NEW e \in Expr
    PROVE  Calc(e, val) \in 0..2
<1> DEFINE S == {f \in Expr : Calc(f, val) \in 0..2}
<1>1. Leaf \subseteq S
  BY CalcEquations, LeafValueType, ExprsAt, ExprCases
<1>2. ASSUME NEW f \in Expr, f[1] = "not", f[2] \in Expr, f[2] \in S PROVE f \in S
  BY <1>2, CalcEquations
<1>3. ASSUME NEW f \in Expr, f[1] \in Levels, f[2] \in Expr, f[2] \in S, f[3] \in Expr, f[3] \in S
      PROVE  f \in S
  BY <1>3, CalcEquations DEF Levels, AtMost, AtLeast
<1>4. \A f \in Expr : f \in S
  <2> HIDE DEF S
  <2> QED BY <1>1, <1>2, <1>3, ExprInduct
<1> QED BY <1>4

\* Does the expression reach a value?  Values are compared by what they reach.
Up(e, val, k) == Calc(e, val) >= k

\* What a level makes of two operands that do or do not reach a value.
Two(t, a, b) == IF t = "or" THEN a \/ b ELSE a /\ b

\* A level reaches a value as its operands do.
LEMMA UpLevel ==
    ASSUME NEW val, NEW k \in 1..2, NEW e \in Expr, e[1] \in Levels
    PROVE  Up(e, val, k) = Two(e[1], Up(e[2], val, k), Up(e[3], val, k))
<1>1. e[2] \in Expr /\ e[3] \in Expr
  BY ExprKinds, Heads
<1>2. Calc(e[2], val) \in 0..2 /\ Calc(e[3], val) \in 0..2
  BY <1>1, CalcType
<1>3. CASE e[1] = "and"
  BY <1>2, <1>3, CalcEquations DEF Up, Two, AtMost
<1>4. CASE e[1] = "or"
  BY <1>2, <1>4, CalcEquations DEF Up, Two, AtLeast
<1> QED BY <1>3, <1>4 DEF Levels

\* Values are compared by what they reach.
LEMMA UpTells ==
    ASSUME NEW val, NEW e \in Expr, NEW f \in Expr
    PROVE  /\ (\A k \in 1..2 : Up(e, val, k) = Up(f, val, k)) <=> Calc(e, val) = Calc(f, val)
           /\ (\A k \in 1..2 : Up(e, val, k) => Up(f, val, k)) <=> Calc(e, val) <= Calc(f, val)
<1>1. Calc(e, val) \in 0..2 /\ Calc(f, val) \in 0..2
  BY CalcType
<1>2. \A k \in 1..2 : k = 1 \/ k = 2
  OBVIOUS
<1>3. 1 \in 1..2 /\ 2 \in 1..2
  OBVIOUS
<1> QED BY <1>1, <1>2, <1>3 DEF Up

\* y reaches every value, n none.
LEMMA Constants01 ==
    /\ Y \in Leaf /\ N \in Leaf /\ Y \in Expr /\ N \in Expr /\ Y # N
    /\ \A val : Valuation(val) => \A k \in 1..2 : Up(Y, val, k) = TRUE /\ Up(N, val, k) = FALSE
<1>1. Y \in Leaf /\ N \in Leaf
  BY KLeafAssumption DEF Leaf, Y, N, Sym, Symbols
<1>2. Y \in Expr /\ N \in Expr
  BY <1>1, ExprsAt, ExprCases
<1>3. Y # N
  BY DEF Y, N, Sym
<1>4. ASSUME NEW val, Valuation(val), NEW k \in 1..2 PROVE Up(Y, val, k) = TRUE /\ Up(N, val, k) = FALSE
  <2>1. Calc(Y, val) = 2 /\ Calc(N, val) = 0
    BY <1>1, <1>2, <1>4, CalcEquations, ConstantValues DEF Yes, No
  <2> QED BY <2>1 DEF Up
<1> QED BY <1>1, <1>2, <1>3, <1>4

\* Built expressions.
LEMMA Builds ==
    ASSUME NEW d \in Depths, d # 0, NEW e \in Exprs[d - 1], NEW f \in Exprs[d - 1], NEW t \in Levels
    PROVE  /\ <<"not", e>> \in Exprs[d] /\ <<t, e, f>> \in Exprs[d]
           /\ <<"not", e>> \in Expr /\ <<t, e, f>> \in Expr
<1>1. <<"not", e>> \in Exprs[d] /\ <<t, e, f>> \in Exprs[d]
  BY ExprsAt
<1> QED BY <1>1, ExprCases

\* One expression nests no deeper than another.
NoDeeper(e, f) == \A d \in Depths : f \in Exprs[d] => e \in Exprs[d]

\* What nests no deeper than an expression is one.
LEMMA NoDeeperExpr ==
    ASSUME NEW f \in Expr, NEW e, NoDeeper(e, f)
    PROVE  e \in Expr
BY ExprsAt DEF NoDeeper, Expr

\* A leaf nests no deeper than anything, and levels no deeper than ones of deeper operands.
LEMMA NoDeeperBuilt ==
    /\ \A l \in Leaf, f \in Expr : NoDeeper(l, f)
    /\ \A f \in Expr : NoDeeper(f, f)
BY ExprsAt, ExprsGrow DEF NoDeeper, Depths

\* A level of what nests no deeper than the operands of another nests no deeper than it.
LEMMA NoDeeperLevel ==
    ASSUME NEW f \in Expr, f[1] \in Levels, NEW t \in Levels,
           NEW l, NEW r, NoDeeper(l, f[2]), NoDeeper(r, f[3])
    PROVE  NoDeeper(<<t, l, r>>, f) /\ NoDeeper(l, f) /\ NoDeeper(r, f)
<1>1. ASSUME NEW d \in Depths, f \in Exprs[d]
      PROVE  <<t, l, r>> \in Exprs[d] /\ l \in Exprs[d] /\ r \in Exprs[d]
  <2>1. d # 0 /\ d - 1 \in Depths /\ f[2] \in Exprs[d - 1] /\ f[3] \in Exprs[d - 1]
    BY <1>1, ExprCases, Heads
  <2>2. l \in Exprs[d - 1] /\ r \in Exprs[d - 1]
    BY <2>1 DEF NoDeeper
  <2>3. d - 1 \in 0..d
    BY <2>1 DEF Depths
  <2> QED BY <2>1, <2>2, <2>3, Builds, ExprsGrow
<1> QED BY <1>1 DEF NoDeeper

\* Nesting no deeper passes on.
LEMMA NoDeeperTrans ==
    ASSUME NEW e, NEW f, NEW g, NoDeeper(e, f), NoDeeper(f, g)
    PROVE  NoDeeper(e, g)
BY DEF NoDeeper

-----------------------------------------------------------------------------
(* How many leaves an expression has, and whether only symbols are negated in it *)
LEMMA SizeEquations ==
    ASSUME NEW e \in Expr
    PROVE  /\ e \in Leaf => Size[e] = 1
           /\ e[1] = "not" => Size[e] = Size[e[2]]
           /\ e[1] \in Levels => Size[e] = Size[e[2]] + Size[e[3]]
BY SizeDef, Heads

\* An expression has one leaf or more.
LEMMA SizeType ==
    ASSUME NEW e \in Expr
    PROVE  Size[e] \in Nat /\ Size[e] >= 1
<1> DEFINE S == {f \in Expr : Size[f] \in Nat /\ Size[f] >= 1}
<1>1. Leaf \subseteq S
  BY SizeEquations, ExprsAt, ExprCases
<1>2. ASSUME NEW f \in Expr, f[1] = "not", f[2] \in Expr, f[2] \in S PROVE f \in S
  BY <1>2, SizeEquations
<1>3. ASSUME NEW f \in Expr, f[1] \in Levels, f[2] \in Expr, f[2] \in S, f[3] \in Expr, f[3] \in S
      PROVE  f \in S
  BY <1>3, SizeEquations
<1>4. \A f \in Expr : f \in S
  <2> HIDE DEF S
  <2> QED BY <1>1, <1>2, <1>3, ExprInduct
<1> QED BY <1>4

\* What is settled, from its operands.
LEMMA SettledEquations ==
    ASSUME NEW M, NEW e \in Expr
    PROVE  /\ e \in Leaf => (Settled(M)[e] <=> e \notin M)
           /\ e[1] = "not" => (Settled(M)[e] <=> e[2][1] = "sym")
           /\ e[1] \in Levels => (Settled(M)[e] <=> Settled(M)[e[2]] /\ Settled(M)[e[3]])
<1> DEFINE settled == Settled(M)
<1>0. settled = [f \in Expr |-> CASE f[1] \in Levels -> settled[f[2]] /\ settled[f[3]]
                                 [] f[1] = "not"    -> f[2][1] = "sym"
                                 [] OTHER -> f \notin M]
  BY SettledDef
<1> HIDE DEF settled
<1>1. CASE e \in Leaf
  BY <1>0, <1>1, Heads DEF settled
<1>2. CASE e[1] = "not"
  BY <1>0, <1>2, Heads DEF settled
<1>3. CASE e[1] \in Levels
  <2>1. settled[e] = CASE e[1] \in Levels -> settled[e[2]] /\ settled[e[3]]
                          [] e[1] = "not"    -> e[2][1] = "sym"
                          [] OTHER -> e \notin M
    BY <1>0, Zenon
  <2>2. e[1] # "not" /\ e \notin Leaf
    BY <1>3, Heads
  <2> QED BY <1>3, <2>1, <2>2, Zenon DEF settled
<1> QED BY <1>1, <1>2, <1>3, ExprKinds, Heads

\* What an expression uses, from its operands.
LEMMA UsesEquations ==
    ASSUME NEW M, NEW e \in Expr
    PROVE  /\ e \in Leaf => (Uses(e, M) <=> e \in M)
           /\ e[1] = "not" => (Uses(e, M) <=> Uses(e[2], M))
           /\ e[1] \in Levels => (Uses(e, M) <=> Uses(e[2], M) \/ Uses(e[3], M))
<1>0. \A f : Uses(f, M) = Users(M)[f]
  BY DEF Uses, Users
<1>4. Users(M)[e] = CASE e[1] \in Levels -> Users(M)[e[2]] \/ Users(M)[e[3]]
                      [] e[1] = "not"    -> Users(M)[e[2]]
                      [] OTHER           -> e \in M
  BY UsersDef, Zenon
<1>1. CASE e \in Leaf
  BY <1>0, <1>1, <1>4, Heads
<1>2. CASE e[1] = "not"
  BY <1>0, <1>2, <1>4, Heads
<1>3. CASE e[1] \in Levels
  <2>1. e[1] # "not" /\ e \notin Leaf
    BY <1>3, Heads
  <2> QED BY <1>0, <1>3, <1>4, <2>1, Zenon
<1> QED BY <1>1, <1>2, <1>3, ExprKinds, Heads

\* An expression uses none of no leaves.
LEMMA UsesNone == \A e \in Expr : ~Uses(e, {})
<1> DEFINE S == {f \in Expr : ~Uses(f, {})}
<1>1. Leaf \subseteq S
  BY UsesEquations, ExprsAt, ExprCases
<1>2. ASSUME NEW f \in Expr, f[1] = "not", f[2] \in Expr, f[2] \in S PROVE f \in S
  BY <1>2, UsesEquations
<1>3. ASSUME NEW f \in Expr, f[1] \in Levels, f[2] \in Expr, f[2] \in S, f[3] \in Expr, f[3] \in S
      PROVE  f \in S
  BY <1>3, UsesEquations
<1>4. \A f \in Expr : f \in S
  <2> HIDE DEF S
  <2> QED BY <1>1, <1>2, <1>3, ExprInduct
<1> QED BY <1>4

\* Leaves that no pass makes: they are no symbol and no comparison with a constant, nor the
\* opposite of another leaf.
Foreign(M) ==
    /\ M \subseteq Leaf
    /\ \A s \in Symbols : Sym(s) \notin M
    /\ \A s \in Symbols, c \in Constants : <<"=", s, c>> \notin M /\ <<"!=", s, c>> \notin M
    /\ \A l \in Leaf : (l[1] \in Comparisons /\ Opposite(l) \in M) => l \in M

\* Without the leaves of M nothing is misleading.
Fit(M, val) == Valuation(val) /\ MisleadingLeaves \subseteq M

\* What expr_eliminate_yn may make of an expression.
KeepsAll(x, e) ==
    /\ x \in Expr
    /\ \A val : Valuation(val) => Calc(x, val) = Calc(e, val)
    /\ \A M : (Foreign(M) /\ Settled(M)[e]) => Settled(M)[x]
    /\ Size[x] <= Size[e]

\* What a pass may make of an expression without making it less.
Keeps(M, x, e) ==
    /\ x \in Expr
    /\ \A val : Fit(M, val) => Calc(x, val) = Calc(e, val)
    /\ Settled(M)[e] => Settled(M)[x]
    /\ Size[x] <= Size[e]

\* What expr_eliminate_yn may make of a level.
LEMMA WithoutYNCases ==
    ASSUME NEW t \in Levels, NEW l, NEW r
    PROVE  \/ t = "and" /\ N \in {l, r} /\ WithoutYN(t, l, r) = N
           \/ t = "or" /\ Y \in {l, r} /\ WithoutYN(t, l, r) = Y
           \/ t = "and" /\ l = Y /\ WithoutYN(t, l, r) = r
           \/ t = "or" /\ l = N /\ WithoutYN(t, l, r) = r
           \/ t = "and" /\ r = Y /\ WithoutYN(t, l, r) = l
           \/ t = "or" /\ r = N /\ WithoutYN(t, l, r) = l
           \/ WithoutYN(t, l, r) = <<t, l, r>>
<1>1. CASE t = "and"
  BY <1>1, Constants01 DEF WithoutYN
<1>2. CASE t = "or"
  BY <1>2, Constants01 DEF WithoutYN
<1> QED BY <1>1, <1>2 DEF Levels

\* Two operands, as a level and without the constants that decide it.
LEMMA WithoutYNWorth ==
    ASSUME NEW val, Valuation(val), NEW k \in 1..2, NEW t \in Levels, NEW l, NEW r, <<t, l, r>> \in Expr
    PROVE  Up(WithoutYN(t, l, r), val, k) = Two(t, Up(l, val, k), Up(r, val, k))
<1>1. Up(Y, val, k) = TRUE /\ Up(N, val, k) = FALSE
  BY Constants01
<1>2. Up(<<t, l, r>>, val, k) = Two(t, Up(l, val, k), Up(r, val, k))
  BY UpLevel
<1>3. Up(l, val, k) \in BOOLEAN /\ Up(r, val, k) \in BOOLEAN
  BY DEF Up
<1> HIDE DEF Up
<1> QED BY <1>1, <1>2, <1>3, WithoutYNCases, Zenon DEF Two

\* y and n are no such leaves.
LEMMA ConstantsForeign ==
    ASSUME NEW M, Foreign(M)
    PROVE  Y \notin M /\ N \notin M
BY KLeafAssumption DEF Foreign, Y, N, Symbols

\* expr_eliminate_yn keeps the value, the depth and what is settled.
LEMMA EliminateYNKeeps ==
    ASSUME NEW e \in Expr
    PROVE  KeepsAll(EliminateYN[e], e) /\ NoDeeper(EliminateYN[e], e)
<1> DEFINE S == {f \in Expr : KeepsAll(EliminateYN[f], f) /\ NoDeeper(EliminateYN[f], f)}
<1>1. ASSUME NEW f \in Expr, f[1] \notin Levels PROVE f \in S
  <2>1. EliminateYN[f] = f
    BY <1>1, EliminateYNDef
  <2>2. Size[f] <= Size[f]
    BY SizeType
  <2> QED BY <2>1, <2>2, NoDeeperBuilt DEF KeepsAll
<1>2. ASSUME NEW f \in Expr, f[1] \in Levels, f[2] \in Expr, f[2] \in S, f[3] \in Expr, f[3] \in S
      PROVE  f \in S
  <2> DEFINE t == f[1]
             l == EliminateYN[f[2]]
             r == EliminateYN[f[3]]
             x == WithoutYN(t, l, r)
  <2>1. EliminateYN[f] = x
    BY <1>2, EliminateYNDef
  <2>2. /\ l \in Expr /\ r \in Expr /\ t \in Levels
        /\ NoDeeper(l, f[2]) /\ NoDeeper(r, f[3])
        /\ Size[l] <= Size[f[2]] /\ Size[r] <= Size[f[3]]
        /\ \A M : (Foreign(M) /\ Settled(M)[f[2]]) => Settled(M)[l]
        /\ \A M : (Foreign(M) /\ Settled(M)[f[3]]) => Settled(M)[r]
    BY <1>2 DEF KeepsAll
  <2>3. NoDeeper(<<t, l, r>>, f) /\ NoDeeper(l, f) /\ NoDeeper(r, f) /\ NoDeeper(Y, f) /\ NoDeeper(N, f)
    BY <1>2, <2>2, NoDeeperLevel, NoDeeperBuilt, Constants01
  <2>4. x \in {Y, N, l, r, <<t, l, r>>}
    BY <2>2, WithoutYNCases, Zenon
  <2>5. NoDeeper(x, f) /\ x \in Expr /\ <<t, l, r>> \in Expr
    <3> HIDE DEF l, r, x, t
    <3> QED BY <2>3, <2>4, NoDeeperExpr
  <2>6. ASSUME NEW val, Valuation(val) PROVE Calc(x, val) = Calc(f, val)
    <3>1. Calc(l, val) = Calc(f[2], val) /\ Calc(r, val) = Calc(f[3], val)
      BY <1>2, <2>6 DEF KeepsAll
    <3>2. ASSUME NEW k \in 1..2 PROVE Up(x, val, k) = Up(f, val, k)
      <4>1. Up(x, val, k) = Two(t, Up(l, val, k), Up(r, val, k))
        <5> HIDE DEF l, r, t
        <5> QED BY <2>2, <2>5, <2>6, WithoutYNWorth
      <4>2. Up(f, val, k) = Two(t, Up(f[2], val, k), Up(f[3], val, k))
        BY <1>2, UpLevel
      <4> QED BY <3>1, <4>1, <4>2 DEF Up
    <3> HIDE DEF x
    <3> QED BY <2>5, <3>2, UpTells
  <2>7. /\ Size[f] = Size[f[2]] + Size[f[3]]
        /\ Size[Y] = 1 /\ Size[N] = 1
        /\ Size[<<t, l, r>>] = Size[l] + Size[r]
    <3> HIDE DEF l, r, t
    <3> QED BY <1>2, <2>2, <2>5, SizeEquations, Constants01 DEF t
  <2>8. /\ Size[l] \in Nat /\ Size[r] \in Nat /\ Size[f[2]] \in Nat /\ Size[f[3]] \in Nat
        /\ Size[l] >= 1 /\ Size[r] >= 1
    BY <1>2, <2>2, SizeType
  <2>9. Size[x] <= Size[f]
    <3> HIDE DEF l, r, t, x
    <3> QED BY <2>2, <2>4, <2>7, <2>8
  <2>10. ASSUME NEW M, Foreign(M), Settled(M)[f] PROVE Settled(M)[x]
    <3>1. Settled(M)[f[2]] /\ Settled(M)[f[3]]
      BY <1>2, <2>10, SettledEquations
    <3>2. (Settled(M)[<<t, l, r>>] <=> Settled(M)[l] /\ Settled(M)[r]) /\ Settled(M)[Y] /\ Settled(M)[N]
      <4> HIDE DEF l, r, t
      <4>1. Y \notin M /\ N \notin M
        BY <2>10, ConstantsForeign
      <4> QED BY <2>2, <2>5, <4>1, SettledEquations, Constants01
    <3> HIDE DEF l, r, t, x
    <3> QED BY <2>2, <2>4, <2>10, <3>1, <3>2
  <2> QED BY <2>1, <2>5, <2>6, <2>9, <2>10 DEF KeepsAll
<1>3. Leaf \subseteq S
  BY <1>1, ExprsAt, ExprCases
<1>4. \A f \in Expr : f \in S
  <2>1. \A f \in Expr : f[1] = "not" => f \in S
    BY <1>1, Heads
  <2> HIDE DEF S
  <2> QED BY <1>2, <1>3, <2>1, ExprInduct
<1> QED BY <1>4

\* What is settled nests no deeper than it has leaves.
LEMMA SettledDepth ==
    ASSUME NEW M, NEW e \in Expr, Settled(M)[e], NEW d \in Depths, Size[e] <= d
    PROVE  e \in Exprs[d]
<1> DEFINE S == {f \in Expr : Settled(M)[f] => \A c \in Depths : Size[f] <= c => f \in Exprs[c]}
<1>1. Leaf \subseteq S
  BY ExprsAt, ExprCases
<1>2. ASSUME NEW f \in Expr, f[1] = "not", f[2] \in Expr, f[2] \in S PROVE f \in S
  <2> SUFFICES ASSUME Settled(M)[f], NEW c \in Depths, Size[f] <= c PROVE f \in Exprs[c]
    OBVIOUS
  <2>1. f[2] \in Leaf /\ f = <<"not", f[2]>>
    BY <1>2, SettledEquations, ExprKinds, Heads
  <2>2. c # 0
    BY SizeType DEF Depths
  <2> QED BY <2>1, <2>2, ExprsAt
<1>3. ASSUME NEW f \in Expr, f[1] \in Levels, f[2] \in Expr, f[2] \in S, f[3] \in Expr, f[3] \in S
      PROVE  f \in S
  <2> SUFFICES ASSUME Settled(M)[f], NEW c \in Depths, Size[f] <= c PROVE f \in Exprs[c]
    OBVIOUS
  <2>1. Settled(M)[f[2]] /\ Settled(M)[f[3]] /\ f = <<f[1], f[2], f[3]>>
    BY <1>3, SettledEquations, ExprKinds, Heads
  <2>2. Size[f] = Size[f[2]] + Size[f[3]] /\ Size[f[2]] \in Nat /\ Size[f[3]] \in Nat
        /\ Size[f[2]] >= 1 /\ Size[f[3]] >= 1
    BY <1>3, SizeEquations, SizeType
  <2>3. c # 0 /\ c - 1 \in Depths /\ Size[f[2]] <= c - 1 /\ Size[f[3]] <= c - 1
    BY <2>2, KExprAssumption DEF Depths
  <2>4. f[2] \in Exprs[c - 1] /\ f[3] \in Exprs[c - 1]
    BY <1>3, <2>1, <2>3
  <2> QED BY <1>3, <2>1, <2>3, <2>4, Builds
<1>4. \A f \in Expr : f \in S
  <2> HIDE DEF S
  <2> QED BY <1>1, <1>2, <1>3, ExprInduct
<1> QED BY <1>4

\* Two settled expressions with few leaves make a level.
LEMMA SettledLevel ==
    ASSUME NEW M, NEW t \in Levels, NEW l \in Expr, NEW r \in Expr, Settled(M)[l], Settled(M)[r],
           Size[l] + Size[r] <= MaxDepth
    PROVE  <<t, l, r>> \in Expr /\ Settled(M)[<<t, l, r>>] /\ Size[<<t, l, r>>] = Size[l] + Size[r]
<1>1. Size[l] \in Nat /\ Size[r] \in Nat /\ Size[l] >= 1 /\ Size[r] >= 1
  BY SizeType
<1>2. MaxDepth \in Depths /\ MaxDepth # 0 /\ MaxDepth - 1 \in Depths
      /\ Size[l] <= MaxDepth - 1 /\ Size[r] <= MaxDepth - 1
  BY <1>1, KExprAssumption DEF Depths
<1>3. l \in Exprs[MaxDepth - 1] /\ r \in Exprs[MaxDepth - 1]
  BY <1>2, SettledDepth
<1>4. <<t, l, r>> \in Expr
  BY <1>2, <1>3, Builds
<1> QED BY <1>4, SettledEquations, SizeEquations

-----------------------------------------------------------------------------
(* The operands of a level *)
LEMMA LeavesEquations ==
    ASSUME NEW t \in Levels, NEW e \in Expr
    PROVE  Leaves(t, e) = IF e[1] = t THEN Leaves(t, e[2]) \o Leaves(t, e[3]) ELSE <<e>>
BY LeavesOfDef, LeavesIsLeavesOf

\* A level has one operand or more.
LEMMA LeavesType ==
    ASSUME NEW t \in Levels, NEW e \in Expr
    PROVE  Leaves(t, e) \in Seq(Expr) /\ Len(Leaves(t, e)) \in Nat /\ Len(Leaves(t, e)) >= 1
<1> DEFINE S == {f \in Expr : Leaves(t, f) \in Seq(Expr) /\ Len(Leaves(t, f)) >= 1}
<1>1. ASSUME NEW f \in Expr, f[1] # t PROVE f \in S
  <2>1. Leaves(t, f) = <<f>>
    BY <1>1, LeavesEquations
  <2>2. <<f>> \in Seq(Expr) /\ Len(<<f>>) = 1
    OBVIOUS
  <2>3. Leaves(t, f) \in Seq(Expr) /\ Len(Leaves(t, f)) >= 1
    BY <2>1, <2>2
  <2> QED BY <2>3
<1>2. ASSUME NEW f \in Expr, f[1] = t, f[2] \in Expr, f[2] \in S, f[3] \in Expr, f[3] \in S
      PROVE  f \in S
  <2>1. Leaves(t, f) = Leaves(t, f[2]) \o Leaves(t, f[3])
    BY <1>2, LeavesEquations
  <2>2. /\ Leaves(t, f[2]) \in Seq(Expr) /\ Len(Leaves(t, f[2])) >= 1
        /\ Leaves(t, f[3]) \in Seq(Expr) /\ Len(Leaves(t, f[3])) >= 1
    BY <1>2
  <2> HIDE DEF S
  <2>3. \A a, b \in Seq(Expr) : Len(a) >= 1 /\ Len(b) >= 1 => a \o b \in Seq(Expr) /\ Len(a \o b) >= 1
    OBVIOUS
  <2> QED BY <2>1, <2>2, <2>3 DEF S
<1>3. \A f \in Expr : f \in S
  <2>1. Leaf \subseteq S /\ \A f \in Expr : f[1] = "not" => f \in S
    <3> HIDE DEF S
    <3>1. \A f \in Leaf : f \in Expr /\ f[1] # t
      BY ExprsAt, ExprCases
    <3> QED BY <1>1, <3>1, Heads
  <2>2. \A f \in Expr : (f[1] \in Levels /\ f[2] \in Expr /\ f[2] \in S /\ f[3] \in Expr /\ f[3] \in S) => f \in S
    BY <1>1, <1>2
  <2> HIDE DEF S
  <2> QED BY <2>1, <2>2, ExprInduct
<1> QED BY <1>3

\* The operands of a level are those of its left half, then those of its right half.
LEMMA LeavesOfLevel ==
    ASSUME NEW t \in Levels, NEW e \in Expr, e[1] = t
    PROVE  /\ Len(Leaves(t, e)) = Len(Leaves(t, e[2])) + Len(Leaves(t, e[3]))
           /\ \A j \in 1..Len(Leaves(t, e[2])) : Leaves(t, e)[j] = Leaves(t, e[2])[j]
           /\ \A j \in 1..Len(Leaves(t, e[3])) : Leaves(t, e)[Len(Leaves(t, e[2])) + j] = Leaves(t, e[3])[j]
<1>1. e[2] \in Expr /\ e[3] \in Expr
  BY ExprKinds, Heads
<1>2. Leaves(t, e) = Leaves(t, e[2]) \o Leaves(t, e[3])
  BY LeavesEquations
<1>3. Leaves(t, e[2]) \in Seq(Expr) /\ Leaves(t, e[3]) \in Seq(Expr)
  BY <1>1, LeavesType
<1> QED BY <1>2, <1>3

\* A level with other operands, from its halves.
LEMMA GrownEquations ==
    ASSUME NEW t \in Levels, NEW s, NEW e \in Expr, NEW i \in Nat
    PROVE  Grown(t, s)[e][i] =
              IF e[1] = t THEN <<t, Grown(t, s)[e[2]][i], Grown(t, s)[e[3]][i + Len(Leaves(t, e[2]))]>>
              ELSE s[i]
<1> DEFINE grown == Grown(t, s)
<1>1. grown = [f \in Expr |-> [j \in Nat |->
                  IF f[1] = t THEN <<t, grown[f[2]][j], grown[f[3]][j + Len(Leaves(t, f[2]))]>> ELSE s[j]]]
  BY GrownDef
<1> HIDE DEF grown
<1>2. grown[e] = [j \in Nat |->
                  IF e[1] = t THEN <<t, grown[e[2]][j], grown[e[3]][j + Len(Leaves(t, e[2]))]>> ELSE s[j]]
  BY <1>1
<1>3. grown[e][i] = IF e[1] = t THEN <<t, grown[e[2]][i], grown[e[3]][i + Len(Leaves(t, e[2]))]>> ELSE s[i]
  BY <1>2
<1> QED BY <1>3 DEF grown

\* The part of a level whose operands start at place i of s.
Part(t, s, f, i) == Grown(t, s)[f][i]
Places(t, f, i)  == i..(i + Len(Leaves(t, f)) - 1)

\* Where its right half starts.
Half(t, f, i) == i + Len(Leaves(t, f[2]))

\* The part of a level that is one operand.
LEMMA PartOfOperand ==
    ASSUME NEW t \in Levels, NEW s, NEW f \in Expr, f[1] # t, NEW i \in Nat
    PROVE  Part(t, s, f, i) = s[i] /\ Leaves(t, f) = <<f>> /\ Places(t, f, i) = {i}
<1>1. Leaves(t, f) = <<f>>
  BY LeavesEquations
<1>2. Len(<<f>>) = 1
  OBVIOUS
<1>3. Part(t, s, f, i) = s[i]
  <2>1. Part(t, s, f, i) = IF f[1] = t THEN <<t, Grown(t, s)[f[2]][i], Grown(t, s)[f[3]][i + Len(Leaves(t, f[2]))]>>
                           ELSE s[i]
    BY ONLY GrownEquations, t \in Levels, f \in Expr, i \in Nat DEF Part
  <2> QED BY <2>1, Zenon
<1>4. i..(i + 1 - 1) = {i}
  OBVIOUS
<1> QED BY <1>1, <1>2, <1>3, <1>4 DEF Places

\* The part of a level that is made of two.
LEMMA PartOfLevel ==
    ASSUME NEW t \in Levels, NEW s, NEW f \in Expr, f[1] = t, NEW i \in Nat
    PROVE  /\ f[2] \in Expr /\ f[3] \in Expr /\ f = <<t, f[2], f[3]>>
           /\ Half(t, f, i) \in Nat
           /\ Part(t, s, f, i) = <<t, Part(t, s, f[2], i), Part(t, s, f[3], Half(t, f, i))>>
           /\ Places(t, f, i) = Places(t, f[2], i) \cup Places(t, f[3], Half(t, f, i))
           /\ Places(t, f[2], i) \cap Places(t, f[3], Half(t, f, i)) = {}
           /\ Places(t, f[2], i) # {} /\ Places(t, f[3], Half(t, f, i)) # {}
<1>1. f[2] \in Expr /\ f[3] \in Expr /\ f = <<t, f[2], f[3]>>
  BY ExprKinds, Heads
<1> DEFINE n == Len(Leaves(t, f[2]))
           m == Len(Leaves(t, f[3]))
<1>2. n \in Nat /\ n >= 1 /\ m \in Nat /\ m >= 1
  BY <1>1, LeavesType
<1>3. Len(Leaves(t, f)) = n + m
  BY LeavesOfLevel
<1>4. Half(t, f, i) = i + n /\ i + n \in Nat
  BY <1>2 DEF Half
<1>5. Part(t, s, f, i) = <<t, Part(t, s, f[2], i), Part(t, s, f[3], i + n)>>
  <2>1. Part(t, s, f, i) = IF f[1] = t THEN <<t, Grown(t, s)[f[2]][i], Grown(t, s)[f[3]][i + Len(Leaves(t, f[2]))]>>
                           ELSE s[i]
    BY ONLY GrownEquations, t \in Levels, f \in Expr, i \in Nat DEF Part
  <2> QED BY <2>1, Zenon DEF Part
<1>6. /\ i..(i + (n + m) - 1) = i..(i + n - 1) \cup (i + n)..(i + n + m - 1)
      /\ i..(i + n - 1) \cap (i + n)..(i + n + m - 1) = {}
      /\ i \in i..(i + n - 1) /\ i + n \in (i + n)..(i + n + m - 1)
  <2> HIDE DEF n, m
  <2> QED BY <1>2
<1>7. /\ Places(t, f, i) = i..(i + (n + m) - 1)
      /\ Places(t, f[2], i) = i..(i + n - 1)
      /\ Places(t, f[3], i + n) = (i + n)..(i + n + m - 1)
  BY <1>3 DEF Places
<1> QED BY <1>1, <1>4, <1>5, <1>6, <1>7

\* The operand at place p of a part that starts at place i.
OperandAt(t, f, i, p) == Leaves(t, f)[p - i + 1]

\* An operand is the only one of itself.
LEMMA OperandOfOperand ==
    ASSUME NEW t \in Levels, NEW f \in Expr, f[1] # t, NEW i \in Nat
    PROVE  OperandAt(t, f, i, i) = f
<1>1. Leaves(t, f) = <<f>> /\ i - i + 1 = 1
  BY LeavesEquations
<1> QED BY <1>1 DEF OperandAt

\* The operands of a part are those of its halves.
LEMMA OperandOfLevel ==
    ASSUME NEW t \in Levels, NEW f \in Expr, f[1] = t, NEW i \in Nat
    PROVE  /\ \A p \in Places(t, f[2], i) : OperandAt(t, f, i, p) = OperandAt(t, f[2], i, p)
           /\ \A p \in Places(t, f[3], Half(t, f, i)) :
                 OperandAt(t, f, i, p) = OperandAt(t, f[3], Half(t, f, i), p)
<1> DEFINE n == Len(Leaves(t, f[2]))
<1>1. f[2] \in Expr /\ f[3] \in Expr
  BY ExprKinds, Heads
<1>2. n \in Nat /\ n >= 1 /\ Len(Leaves(t, f[3])) \in Nat /\ Len(Leaves(t, f[3])) >= 1
  BY <1>1, LeavesType
<1>3. /\ \A j \in 1..n : Leaves(t, f)[j] = Leaves(t, f[2])[j]
      /\ \A j \in 1..Len(Leaves(t, f[3])) : Leaves(t, f)[n + j] = Leaves(t, f[3])[j]
  BY LeavesOfLevel
<1>4. ASSUME NEW p \in Places(t, f[2], i) PROVE OperandAt(t, f, i, p) = OperandAt(t, f[2], i, p)
  <2>1. p - i + 1 \in 1..n
    BY <1>2 DEF Places
  <2> QED BY <1>3, <2>1 DEF OperandAt
<1>5. ASSUME NEW p \in Places(t, f[3], Half(t, f, i))
      PROVE  OperandAt(t, f, i, p) = OperandAt(t, f[3], Half(t, f, i), p)
  <2> DEFINE j == p - (i + n) + 1
  <2>1. j \in 1..Len(Leaves(t, f[3])) /\ n + j = p - i + 1
    BY <1>2 DEF Places, Half
  <2>2. Leaves(t, f)[n + j] = Leaves(t, f[3])[j]
    BY <1>3, <2>1
  <2> QED BY <2>1, <2>2 DEF OperandAt, Half
<1> QED BY <1>4, <1>5

\* With operands that nest no deeper a level does not.
LEMMA PartNoDeeper ==
    ASSUME NEW t \in Levels, NEW s, NEW e \in Expr, NEW i \in Nat,
           \A p \in Places(t, e, i) : NoDeeper(s[p], OperandAt(t, e, i, p))
    PROVE  NoDeeper(Part(t, s, e, i), e)
<1> DEFINE Fits(f, j) == \A p \in Places(t, f, j) : NoDeeper(s[p], OperandAt(t, f, j, p))
           S == {f \in Expr : \A j \in Nat : Fits(f, j) => NoDeeper(Part(t, s, f, j), f)}
<1>1. ASSUME NEW f \in Expr, f[1] # t PROVE f \in S
  <2>1. ASSUME NEW j \in Nat, Fits(f, j) PROVE NoDeeper(Part(t, s, f, j), f)
    <3>1. Part(t, s, f, j) = s[j] /\ j \in Places(t, f, j) /\ OperandAt(t, f, j, j) = f
      BY <1>1, PartOfOperand, OperandOfOperand
    <3> QED BY <2>1, <3>1
  <2> QED BY <2>1
<1>2. ASSUME NEW f \in Expr, f[1] = t, f[2] \in Expr, f[2] \in S, f[3] \in Expr, f[3] \in S PROVE f \in S
  <2>1. ASSUME NEW j \in Nat, Fits(f, j) PROVE NoDeeper(Part(t, s, f, j), f)
    <3> DEFINE h == Half(t, f, j)
    <3>1. /\ Places(t, f, j) = Places(t, f[2], j) \cup Places(t, f[3], h)
          /\ h \in Nat
          /\ Part(t, s, f, j) = <<t, Part(t, s, f[2], j), Part(t, s, f[3], h)>>
      BY ONLY <1>2, PartOfLevel, t \in Levels, j \in Nat
    <3>2. /\ \A p \in Places(t, f[2], j) : OperandAt(t, f, j, p) = OperandAt(t, f[2], j, p)
          /\ \A p \in Places(t, f[3], h) : OperandAt(t, f, j, p) = OperandAt(t, f[3], h, p)
      BY <1>2, OperandOfLevel
    <3> HIDE DEF h
    <3>3. Fits(f[2], j) /\ Fits(f[3], h)
      BY <2>1, <3>1, <3>2
    <3>4. NoDeeper(Part(t, s, f[2], j), f[2]) /\ NoDeeper(Part(t, s, f[3], h), f[3])
      <4> HIDE DEF Fits
      <4> QED BY <1>2, <3>1, <3>3
    <3> QED BY <1>2, <3>1, <3>4, NoDeeperLevel
  <2> QED BY <2>1
<1>3. \A f \in Expr : f \in S
  <2> HIDE DEF S
  <2>1. \A f \in Leaf : f \in Expr /\ f[1] # t
    BY ExprsAt, ExprCases
  <2>2. \A f \in Expr : f[1] = "not" => f \in S
    BY <1>1, Heads
  <2>3. \A f \in Expr : (f[1] \in Levels /\ f[2] \in Expr /\ f[2] \in S /\ f[3] \in Expr /\ f[3] \in S) => f \in S
    BY <1>1, <1>2
  <2> QED BY <1>1, <2>1, <2>2, <2>3, ExprInduct
<1> QED BY <1>3

\* Induction over the parts of a level.
LEMMA LevelInduct ==
    ASSUME NEW t \in Levels, NEW S,
           \A f \in Expr : f[1] # t => f \in S,
           \A f \in Expr : (f[1] = t /\ f[2] \in Expr /\ f[2] \in S /\ f[3] \in Expr /\ f[3] \in S) => f \in S
    PROVE  \A f \in Expr : f \in S
<1>1. \A f \in Leaf : f \in Expr /\ f[1] # t
  BY ExprsAt, ExprCases
<1>2. \A f \in Expr : f[1] = "not" => f \in S
  BY Heads
<1>3. \A f \in Expr : (f[1] \in Levels /\ f[2] \in Expr /\ f[2] \in S /\ f[3] \in Expr /\ f[3] \in S) => f \in S
  OBVIOUS
<1> QED BY <1>1, <1>2, <1>3, ExprInduct

\* A level with the operands it has is what it was.
LEMMA PartSame ==
    ASSUME NEW t \in Levels, NEW s, NEW e \in Expr, NEW i \in Nat,
           \A p \in Places(t, e, i) : s[p] = OperandAt(t, e, i, p)
    PROVE  Part(t, s, e, i) = e
<1> DEFINE Has(f, j) == \A p \in Places(t, f, j) : s[p] = OperandAt(t, f, j, p)
           S == {f \in Expr : \A j \in Nat : Has(f, j) => Part(t, s, f, j) = f}
<1>1. ASSUME NEW f \in Expr, f[1] # t PROVE f \in S
  <2>1. ASSUME NEW j \in Nat, Has(f, j) PROVE Part(t, s, f, j) = f
    <3>1. Part(t, s, f, j) = s[j] /\ j \in Places(t, f, j) /\ OperandAt(t, f, j, j) = f
      BY <1>1, PartOfOperand, OperandOfOperand
    <3> QED BY <2>1, <3>1
  <2> QED BY <2>1
<1>2. ASSUME NEW f \in Expr, f[1] = t, f[2] \in Expr, f[2] \in S, f[3] \in Expr, f[3] \in S PROVE f \in S
  <2>1. ASSUME NEW j \in Nat, Has(f, j) PROVE Part(t, s, f, j) = f
    <3> DEFINE h == Half(t, f, j)
    <3>1. /\ Places(t, f, j) = Places(t, f[2], j) \cup Places(t, f[3], h)
          /\ h \in Nat /\ f = <<t, f[2], f[3]>>
          /\ Part(t, s, f, j) = <<t, Part(t, s, f[2], j), Part(t, s, f[3], h)>>
      BY ONLY <1>2, PartOfLevel, t \in Levels, j \in Nat
    <3>2. /\ \A p \in Places(t, f[2], j) : OperandAt(t, f, j, p) = OperandAt(t, f[2], j, p)
          /\ \A p \in Places(t, f[3], h) : OperandAt(t, f, j, p) = OperandAt(t, f[3], h, p)
      BY <1>2, OperandOfLevel
    <3> HIDE DEF h
    <3>3. Has(f[2], j) /\ Has(f[3], h)
      BY <2>1, <3>1, <3>2
    <3>4. Part(t, s, f[2], j) = f[2] /\ Part(t, s, f[3], h) = f[3]
      <4> HIDE DEF Has
      <4> QED BY <1>2, <3>1, <3>3
    <3> QED BY <3>1, <3>4
  <2> QED BY <2>1
<1>3. \A f \in Expr : f \in S
  <2> HIDE DEF S
  <2> QED BY <1>1, <1>2, LevelInduct
<1> QED BY <1>3

\* What the operands at some places make together.
All(t, s, P, val, k) == IF t = "or" THEN \E p \in P : Up(s[p], val, k) ELSE \A p \in P : Up(s[p], val, k)

\* A level reaches a value as its operands do, however many they are.
LEMMA PartWorth ==
    ASSUME NEW t \in Levels, NEW s, NEW e \in Expr, NEW i \in Nat, NEW val, NEW k \in 1..2,
           Part(t, s, e, i) \in Expr
    PROVE  Up(Part(t, s, e, i), val, k) <=> All(t, s, Places(t, e, i), val, k)
<1> DEFINE Worth1(f, j) == Up(Part(t, s, f, j), val, k) <=> All(t, s, Places(t, f, j), val, k)
           S == {f \in Expr : \A j \in Nat : Part(t, s, f, j) \in Expr => Worth1(f, j)}
<1>1. ASSUME NEW f \in Expr, f[1] # t PROVE f \in S
  <2>1. ASSUME NEW j \in Nat PROVE Worth1(f, j)
    <3>1. Part(t, s, f, j) = s[j] /\ Places(t, f, j) = {j}
      BY <1>1, PartOfOperand
    <3> QED BY <3>1, Zenon DEF All
  <2> QED BY <2>1
<1>2. ASSUME NEW f \in Expr, f[1] = t, f[2] \in Expr, f[2] \in S, f[3] \in Expr, f[3] \in S PROVE f \in S
  <2>1. ASSUME NEW j \in Nat, Part(t, s, f, j) \in Expr PROVE Worth1(f, j)
    <3> DEFINE h == Half(t, f, j)
               a == Part(t, s, f[2], j)
               b == Part(t, s, f[3], h)
    <3>1. /\ Places(t, f, j) = Places(t, f[2], j) \cup Places(t, f[3], h)
          /\ h \in Nat
          /\ Part(t, s, f, j) = <<t, a, b>>
      BY ONLY <1>2, PartOfLevel, t \in Levels, j \in Nat
    <3> HIDE DEF h, a, b
    <3>2. a \in Expr /\ b \in Expr
      BY <2>1, <3>1, ExprKinds, Heads
    <3>3. Worth1(f[2], j) /\ Worth1(f[3], h)
      <4> HIDE DEF Worth1
      <4> QED BY <1>2, <3>1, <3>2 DEF a, b
    <3>4. Up(<<t, a, b>>, val, k) = Two(t, Up(a, val, k), Up(b, val, k))
      BY <2>1, <3>1, UpLevel
    <3>5. All(t, s, Places(t, f, j), val, k)
            <=> Two(t, All(t, s, Places(t, f[2], j), val, k), All(t, s, Places(t, f[3], h), val, k))
      BY <3>1 DEF All, Two
    <3> QED BY <3>1, <3>3, <3>4, <3>5 DEF Two, a, b
  <2> QED BY <2>1
<1>3. \A f \in Expr : f \in S
  <2> HIDE DEF S
  <2> QED BY <1>1, <1>2, LevelInduct
<1> QED BY <1>3

\* In a settled level with operands s, the one at q becomes the settled x: r has the operands then.
Swaps(M, t, e, i, s, r, q, x) ==
    /\ x \in Expr /\ Settled(M)[x] /\ r[q] = x /\ s[q] \in Expr
    /\ \A p \in Places(t, e, i) : p # q => r[p] = s[p]
    /\ Part(t, s, e, i) \in Expr /\ Settled(M)[Part(t, s, e, i)]

\* One operand of a settled level is replaced: as long as there are few leaves, the rest stays.
LEMMA PartReplaced ==
    ASSUME NEW M, NEW t \in Levels, NEW e \in Expr, NEW i \in Nat, NEW s, NEW r, NEW q, NEW x,
           Swaps(M, t, e, i, s, r, q, x)
    PROVE  /\ q \notin Places(t, e, i) => Part(t, r, e, i) = Part(t, s, e, i)
           /\ (q \in Places(t, e, i) /\ Size[Part(t, s, e, i)] - Size[s[q]] + Size[x] <= MaxDepth) =>
                /\ Part(t, r, e, i) \in Expr /\ Settled(M)[Part(t, r, e, i)]
                /\ Size[Part(t, r, e, i)] = Size[Part(t, s, e, i)] - Size[s[q]] + Size[x]
<1> DEFINE Old(f, j) == Part(t, s, f, j)
           New(f, j) == Part(t, r, f, j)
           Pre(f, j) == /\ \A p \in Places(t, f, j) : p # q => r[p] = s[p]
                        /\ Old(f, j) \in Expr /\ Settled(M)[Old(f, j)]
           Out(f, j) == q \notin Places(t, f, j) => New(f, j) = Old(f, j)
           In(f, j)  == (q \in Places(t, f, j) /\ Size[Old(f, j)] - Size[s[q]] + Size[x] <= MaxDepth) =>
                           /\ New(f, j) \in Expr /\ Settled(M)[New(f, j)]
                           /\ Size[New(f, j)] = Size[Old(f, j)] - Size[s[q]] + Size[x]
           S == {f \in Expr : \A j \in Nat : Pre(f, j) => Out(f, j) /\ In(f, j)}
<1> USE DEF Swaps
<1>0. Size[x] \in Nat /\ Size[s[q]] \in Nat
  BY SizeType
<1>1. ASSUME NEW f \in Expr, f[1] # t PROVE f \in S
  <2>1. ASSUME NEW j \in Nat, Pre(f, j) PROVE Out(f, j) /\ In(f, j)
    <3>1. Old(f, j) = s[j] /\ New(f, j) = r[j] /\ Places(t, f, j) = {j}
      BY <1>1, PartOfOperand
    <3>2. j = q => Size[x] = Size[s[j]] - Size[s[q]] + Size[x]
      BY <1>0
    <3> QED BY <2>1, <3>1, <3>2
  <2> QED BY <2>1
<1>2. ASSUME NEW f \in Expr, f[1] = t, f[2] \in Expr, f[2] \in S, f[3] \in Expr, f[3] \in S PROVE f \in S
  <2>1. ASSUME NEW j \in Nat, Pre(f, j) PROVE Out(f, j) /\ In(f, j)
    <3> DEFINE h == Half(t, f, j)
               a == Old(f[2], j)
               b == Old(f[3], h)
               c == New(f[2], j)
               d == New(f[3], h)
               A == Places(t, f[2], j)
               B == Places(t, f[3], h)
    <3>1. /\ Places(t, f, j) = A \cup B /\ A \cap B = {}
          /\ h \in Nat
          /\ Old(f, j) = <<t, a, b>> /\ New(f, j) = <<t, c, d>>
      <4>0. h \in Nat
        BY ONLY <1>2, PartOfLevel, t \in Levels, j \in Nat
      <4>1. Places(t, f, j) = A \cup B
        BY ONLY <1>2, PartOfLevel, t \in Levels, j \in Nat
      <4>4. Part(t, s, f, j) = <<t, Part(t, s, f[2], j), Part(t, s, f[3], h)>>
        BY ONLY f \in Expr, f[1] = t, PartOfLevel, t \in Levels, j \in Nat
      <4>2. A \cap B = {}
        BY ONLY <1>2, PartOfLevel, t \in Levels, j \in Nat
      <4>3. Part(t, r, f, j) = <<t, Part(t, r, f[2], j), Part(t, r, f[3], h)>>
        BY ONLY f \in Expr, f[1] = t, PartOfLevel, t \in Levels, j \in Nat
      <4> QED BY <4>0, <4>1, <4>2, <4>3, <4>4
    <3>2. <<t, a, b>> \in Expr /\ a \in Expr /\ b \in Expr /\ Settled(M)[a] /\ Settled(M)[b]
          /\ Size[<<t, a, b>>] = Size[a] + Size[b]
      <4> HIDE DEF h, a, b, c, d, A, B
      <4>1. <<t, a, b>> \in Expr /\ Settled(M)[<<t, a, b>>]
        BY <2>1, <3>1
      <4>2. a \in Expr /\ b \in Expr
        BY <4>1, ExprKinds, Heads
      <4> QED BY <4>1, <4>2, SettledEquations, SizeEquations
    <3>3. Size[a] \in Nat /\ Size[b] \in Nat /\ Size[a] >= 1 /\ Size[b] >= 1
      BY <3>2, SizeType
    <3>4. Pre(f[2], j) /\ Pre(f[3], h)
      BY <2>1, <3>1, <3>2
    <3>5. Out(f[2], j) /\ In(f[2], j) /\ Out(f[3], h) /\ In(f[3], h)
      <4> HIDE DEF Pre, Out, In, h
      <4> QED BY <1>2, <3>1, <3>4
    <3>6. Out(f, j)
      BY <3>1, <3>5
    <3>7. ASSUME q \in Places(t, f, j), Size[<<t, a, b>>] - Size[s[q]] + Size[x] <= MaxDepth
          PROVE  /\ <<t, c, d>> \in Expr /\ Settled(M)[<<t, c, d>>]
                 /\ Size[<<t, c, d>>] = Size[<<t, a, b>>] - Size[s[q]] + Size[x]
      <4>1. CASE q \in A
        <5>1. d = b
          BY <3>1, <3>5, <4>1
        <5>2. Size[a] - Size[s[q]] + Size[x] <= MaxDepth
          BY <1>0, <3>2, <3>3, <3>7, KExprAssumption
        <5>3. c \in Expr /\ Settled(M)[c] /\ Size[c] = Size[a] - Size[s[q]] + Size[x]
          BY <3>5, <4>1, <5>2
        <5> HIDE DEF a, b, c, d
        <5> QED BY <1>0, <3>2, <3>3, <3>7, <5>1, <5>3, SettledLevel
      <4>2. CASE q \in B
        <5>1. c = a
          BY <3>1, <3>5, <4>2
        <5>2. Size[b] - Size[s[q]] + Size[x] <= MaxDepth
          BY <1>0, <3>2, <3>3, <3>7, KExprAssumption
        <5>3. d \in Expr /\ Settled(M)[d] /\ Size[d] = Size[b] - Size[s[q]] + Size[x]
          BY <3>5, <4>2, <5>2
        <5> HIDE DEF a, b, c, d
        <5> QED BY <1>0, <3>2, <3>3, <3>7, <5>1, <5>3, SettledLevel
      <4> QED BY <3>1, <3>7, <4>1, <4>2
    <3>8. In(f, j)
      <4> HIDE DEF a, b, c, d
      <4> QED BY <3>1, <3>7
    <3> QED BY <3>6, <3>8
  <2> QED BY <2>1
<1>3. \A f \in Expr : f \in S
  <2> HIDE DEF S
  <2> QED BY <1>1, <1>2, LevelInduct
<1> QED BY <1>3

\* Division with remainder.
LEMMA Div == ASSUME NEW a \in Nat, NEW m \in Nat, m > 0
  PROVE /\ a \div m \in Nat /\ a % m \in Nat /\ a % m < m /\ a = m * (a \div m) + (a % m)
OBVIOUS

\* A product is smaller only if a factor is.
LEMMA Mul == ASSUME NEW q \in Nat, NEW m \in Nat, NEW n \in Nat, m * q < n * m PROVE q < n
<1>1. CASE q >= n
  <2>1. PICK d \in Nat : q = n + d
    <3>1. q - n \in Nat /\ q = n + (q - n)
      BY <1>1
    <3> QED BY <3>1
  <2>2. m * q = m * n + m * d
    BY <2>1
  <2>3. m * d >= 0 /\ m * n = n * m /\ m * d \in Nat /\ m * n \in Nat
    OBVIOUS
  <2> QED BY <2>2, <2>3
<1> QED BY <1>1

\* The pairs of places that two nested loops come to are places of the two lists.
LEMMA PairPlaces ==
    ASSUME NEW n \in Nat, NEW m \in Nat, NEW k \in 1..(n * m)
    PROVE  OuterAt(k, m) \in 1..n /\ InnerAt(k, m) \in 1..m
<1>1. m > 0
  <2>1. CASE m = 0
    <3>1. n * m = 0
      BY <2>1
    <3> QED BY <3>1
  <2> QED BY <2>1
<1>2. k - 1 \in Nat /\ k - 1 < n * m
  <2>1. n * m \in Nat
    OBVIOUS
  <2> QED BY <2>1
<1> DEFINE q == (k - 1) \div m
<1>3. q \in Nat /\ (k - 1) % m \in Nat /\ (k - 1) % m < m /\ k - 1 = m * q + ((k - 1) % m)
  BY <1>1, <1>2, Div
<1> HIDE DEF q
<1>4. m * q < n * m
  <2>1. m * q \in Nat /\ n * m \in Nat
    BY <1>3
  <2> QED BY <1>2, <1>3, <2>1
<1>5. q < n
  BY <1>3, <1>4, Mul
<1> QED BY <1>3, <1>5 DEF OuterAt, InnerAt, q
-----------------------------------------------------------------------------
(* expr_eq and expr_eliminate_eq *)

\* What __expr_eliminate_eq has made after k pairs of operands.
EqDone(same, t, ls, ms) == CHOOSE done : done = [k \in 0..Len(ls) * Len(ms) |->
            IF k = 0 THEN <<ls, ms>>
            ELSE EqPair(same, t, done[k - 1], OuterAt(k, Len(ms)), InnerAt(k, Len(ms)))]

\* What __expr_eliminate_eq has made after k pairs of operands.
LEMMA EqDoneDef ==
    ASSUME NEW same, NEW t, NEW ls \in Seq(Expr), NEW ms \in Seq(Expr)
    PROVE  EqDone(same, t, ls, ms) = [k \in 0..(Len(ls) * Len(ms)) |-> IF k = 0 THEN <<ls, ms>>
            ELSE EqPair(same, t, EqDone(same, t, ls, ms)[k - 1], OuterAt(k, Len(ms)), InnerAt(k, Len(ms)))]
<1> DEFINE B(w, k) == IF k = 0 THEN <<ls, ms>>
            ELSE EqPair(same, t, w[k - 1], OuterAt(k, Len(ms)), InnerAt(k, Len(ms)))
           S == {n \in 0..(Len(ls) * Len(ms)) : \E w : w = [k \in 0..n |-> B(w, k)]}
<1>0. (Len(ls) * Len(ms)) \in Nat
  OBVIOUS
<1>1. ASSUME NEW w, NEW x, NEW k, k # 0 => w[k - 1] = x[k - 1]
      PROVE  B(w, k) = B(x, k)
  BY <1>1
<1> HIDE DEF B
<1>2. 0 \in S
  <2> DEFINE w == [k \in 0..0 |-> B(<<>>, k)]
  <2>1. \A k \in 0..0 : B(w, k) = B(<<>>, k)
    BY <1>1
  <2>2. w = [k \in 0..0 |-> B(w, k)]
    BY <2>1
  <2> HIDE DEF w
  <2> QED BY <1>0, <2>2
<1>3. ASSUME NEW n \in 0..(Len(ls) * Len(ms)), n \in S, n < (Len(ls) * Len(ms)) PROVE n + 1 \in S
  <2>1. PICK w : w = [k \in 0..n |-> B(w, k)]
    BY <1>3
  <2> DEFINE x == [k \in 0..(n + 1) |-> B(w, k)]
  <2>2. n + 1 \in 0..(Len(ls) * Len(ms))
    BY <1>0, <1>3
  <2>3. \A k \in 0..n : w[k] = x[k]
    BY <2>1
  <2>4. ASSUME NEW k \in 0..(n + 1) PROVE B(w, k) = B(x, k)
    <3>1. k # 0 => k - 1 \in 0..n
      OBVIOUS
    <3> HIDE DEF x
    <3> QED BY <1>1, <2>3, <3>1
  <2>5. x = [k \in 0..(n + 1) |-> B(x, k)]
    BY <2>4
  <2> HIDE DEF x
  <2> QED BY <2>2, <2>5
<1>4. (Len(ls) * Len(ms)) \in S
  <2> HIDE DEF S
  <2>1. \A n \in 0..(Len(ls) * Len(ms)) : n \in S
    BY <1>0, <1>2, <1>3, Induct
  <2> QED BY <1>0, <2>1
<1> QED BY <1>4 DEF EqDone, B

\* EqLeaves is what it has made after all of them.
LEMMA EqLeavesIsDone ==
    ASSUME NEW same, NEW t, NEW ls, NEW ms
    PROVE  EqLeaves(same, t, ls, ms) = EqDone(same, t, ls, ms)[Len(ls) * Len(ms)]
BY DEF EqLeaves, EqDone

\* expr_eq for expressions that nest deeper and deeper.
LEMMA EqualDef ==
    Equal = [k \in 0..MaxDepth |-> [p \in Expr \X Expr |-> IF k = 0 THEN p[1] = p[2] ELSE Alike(Equal[k - 1], p[1], p[2])]]
<1> DEFINE B(w, k) == [p \in Expr \X Expr |-> IF k = 0 THEN p[1] = p[2] ELSE Alike(w[k - 1], p[1], p[2])]
           S == {n \in 0..MaxDepth : \E w : w = [k \in 0..n |-> B(w, k)]}
<1>0. MaxDepth \in Nat
  BY KExprAssumption
<1>1. ASSUME NEW w, NEW x, NEW k, k # 0 => w[k - 1] = x[k - 1]
      PROVE  B(w, k) = B(x, k)
  BY <1>1
<1> HIDE DEF B
<1>2. 0 \in S
  <2> DEFINE w == [k \in 0..0 |-> B(<<>>, k)]
  <2>1. \A k \in 0..0 : B(w, k) = B(<<>>, k)
    BY <1>1
  <2>2. w = [k \in 0..0 |-> B(w, k)]
    BY <2>1
  <2> HIDE DEF w
  <2> QED BY <1>0, <2>2
<1>3. ASSUME NEW n \in 0..MaxDepth, n \in S, n < MaxDepth PROVE n + 1 \in S
  <2>1. PICK w : w = [k \in 0..n |-> B(w, k)]
    BY <1>3
  <2> DEFINE x == [k \in 0..(n + 1) |-> B(w, k)]
  <2>2. n + 1 \in 0..MaxDepth
    BY <1>0, <1>3
  <2>3. \A k \in 0..n : w[k] = x[k]
    BY <2>1
  <2>4. ASSUME NEW k \in 0..(n + 1) PROVE B(w, k) = B(x, k)
    <3>1. k # 0 => k - 1 \in 0..n
      OBVIOUS
    <3> HIDE DEF x
    <3> QED BY <1>1, <2>3, <3>1
  <2>5. x = [k \in 0..(n + 1) |-> B(x, k)]
    BY <2>4
  <2> HIDE DEF x
  <2> QED BY <2>2, <2>5
<1>4. MaxDepth \in S
  <2> HIDE DEF S
  <2>1. \A n \in 0..MaxDepth : n \in S
    BY <1>0, <1>2, <1>3, Induct
  <2> QED BY <1>0, <2>1
<1> QED BY <1>4 DEF Equal, B

\* What a level makes of its operands, when one of them is replaced by the neutral constant.
LEMMA AllReplaced ==
    ASSUME NEW t \in Levels, NEW s, NEW r, NEW P, NEW q \in P, NEW val, Valuation(val), NEW k \in 1..2,
           \A p \in P : p # q => r[p] = s[p], r[q] = Neutral(t)
    PROVE  All(t, s, P, val, k) <=> Two(t, All(t, r, P, val, k), Up(s[q], val, k))
<1>1. Up(r[q], val, k) <=> t = "and"
  BY Constants01 DEF Neutral, Levels
<1>2. CASE t = "and"
  BY <1>1, <1>2 DEF All, Two
<1>3. CASE t = "or"
  BY <1>1, <1>3 DEF All, Two
<1> QED BY <1>2, <1>3 DEF Levels

\* Whether what is less deep is found equal only if it has the same value.
Sound(same) == \A val : Valuation(val) => \A e, f \in Expr : same[<<e, f>>] => Calc(e, val) = Calc(f, val)

\* Two lists of operands after some pairs of them were eliminated: no operand nests deeper than it
\* did, and both levels lack the same.
Reduced(t, ls, ms, p) ==
    /\ p = <<p[1], p[2]>>
    /\ p[1] \in Seq(Expr) /\ Len(p[1]) = Len(ls) /\ \A i \in 1..Len(ls) : NoDeeper(p[1][i], ls[i])
    /\ p[2] \in Seq(Expr) /\ Len(p[2]) = Len(ms) /\ \A i \in 1..Len(ms) : NoDeeper(p[2][i], ms[i])
    /\ \A val, k : (Valuation(val) /\ k \in 1..2) => \E c \in BOOLEAN :
          /\ All(t, ls, 1..Len(ls), val, k) <=> Two(t, All(t, p[1], 1..Len(ls), val, k), c)
          /\ All(t, ms, 1..Len(ms), val, k) <=> Two(t, All(t, p[2], 1..Len(ms), val, k), c)

\* One pair of operands: both levels lose the same value, or nothing.
LEMMA EqPairReduces ==
    ASSUME NEW same, Sound(same), NEW t \in Levels, NEW ls \in Seq(Expr), NEW ms \in Seq(Expr),
           NEW p, Reduced(t, ls, ms, p), NEW i \in 1..Len(ls), NEW j \in 1..Len(ms)
    PROVE  Reduced(t, ls, ms, EqPair(same, t, p, i, j))
<1> DEFINE x == p[1][i]
           y == p[2][j]
           r1 == [p[1] EXCEPT ![i] = Neutral(t)]
           r2 == [p[2] EXCEPT ![j] = Neutral(t)]
<1>1. CASE (x = y /\ x \in {Y, N}) \/ ~same[<<x, y>>]
  <2>1. EqPair(same, t, p, i, j) = p
    BY <1>1 DEF EqPair
  <2> QED BY <2>1
<1>2. CASE ~((x = y /\ x \in {Y, N}) \/ ~same[<<x, y>>])
  <2>1. EqPair(same, t, p, i, j) = <<r1, r2>> /\ same[<<x, y>>]
    BY <1>2 DEF EqPair
  <2>2. /\ p[1] \in Seq(Expr) /\ Len(p[1]) = Len(ls)
        /\ p[2] \in Seq(Expr) /\ Len(p[2]) = Len(ms)
        /\ x \in Expr /\ y \in Expr
    BY DEF Reduced
  <2>3. Neutral(t) \in Leaf /\ Neutral(t) \in Expr
    BY Constants01 DEF Neutral
  <2>4. /\ r1 \in Seq(Expr) /\ Len(r1) = Len(ls) /\ r2 \in Seq(Expr) /\ Len(r2) = Len(ms)
        /\ r1[i] = Neutral(t) /\ \A q \in 1..Len(ls) : q # i => r1[q] = p[1][q]
        /\ r2[j] = Neutral(t) /\ \A q \in 1..Len(ms) : q # j => r2[q] = p[2][q]
    BY <2>2, <2>3
  <2> HIDE DEF r1, r2
  <2>5. /\ \A q \in 1..Len(ls) : NoDeeper(r1[q], ls[q])
        /\ \A q \in 1..Len(ms) : NoDeeper(r2[q], ms[q])
    <3>1. /\ \A q \in 1..Len(ls) : NoDeeper(p[1][q], ls[q]) /\ ls[q] \in Expr
          /\ \A q \in 1..Len(ms) : NoDeeper(p[2][q], ms[q]) /\ ms[q] \in Expr
      BY DEF Reduced
    <3> QED BY <2>3, <2>4, <3>1, NoDeeperBuilt
  <2>6. ASSUME NEW val, NEW k, Valuation(val), k \in 1..2
        PROVE  \E c \in BOOLEAN :
                  /\ All(t, ls, 1..Len(ls), val, k) <=> Two(t, All(t, r1, 1..Len(ls), val, k), c)
                  /\ All(t, ms, 1..Len(ms), val, k) <=> Two(t, All(t, r2, 1..Len(ms), val, k), c)
    <3>1. PICK c \in BOOLEAN :
                  /\ All(t, ls, 1..Len(ls), val, k) <=> Two(t, All(t, p[1], 1..Len(ls), val, k), c)
                  /\ All(t, ms, 1..Len(ms), val, k) <=> Two(t, All(t, p[2], 1..Len(ms), val, k), c)
      BY <2>6 DEF Reduced
    <3>2. Up(x, val, k) <=> Up(y, val, k)
      BY <2>1, <2>2, <2>6 DEF Sound, Up
    <3>3. /\ All(t, p[1], 1..Len(ls), val, k) <=> Two(t, All(t, r1, 1..Len(ls), val, k), Up(x, val, k))
          /\ All(t, p[2], 1..Len(ms), val, k) <=> Two(t, All(t, r2, 1..Len(ms), val, k), Up(y, val, k))
      BY <2>4, <2>6, AllReplaced
    <3> DEFINE d == Two(t, c, Up(x, val, k))
    <3>4. d \in BOOLEAN
      BY DEF Two, Up
    <3>5. \A a, b, w : Two(t, Two(t, a, w), b) <=> Two(t, a, Two(t, b, w))
      BY DEF Two
    <3>6. /\ All(t, ls, 1..Len(ls), val, k) <=> Two(t, All(t, r1, 1..Len(ls), val, k), d)
          /\ All(t, ms, 1..Len(ms), val, k) <=> Two(t, All(t, r2, 1..Len(ms), val, k), d)
      <4> HIDE DEF x, y
      <4> QED BY <3>1, <3>2, <3>3 DEF Two
    <3> HIDE DEF d
    <3> QED BY <3>4, <3>6
  <2>7. Reduced(t, ls, ms, <<r1, r2>>)
    BY <2>4, <2>5, <2>6 DEF Reduced
  <2> QED BY <2>1, <2>7
<1> QED BY <1>1, <1>2

\* All pairs of operands.
LEMMA EqLeavesReduces ==
    ASSUME NEW same, Sound(same), NEW t \in Levels, NEW ls \in Seq(Expr), NEW ms \in Seq(Expr)
    PROVE  Reduced(t, ls, ms, EqLeaves(same, t, ls, ms))
<1> DEFINE K == Len(ls) * Len(ms)
           done == EqDone(same, t, ls, ms)
           S == {k \in 0..K : Reduced(t, ls, ms, done[k])}
<1>0. K \in Nat
  OBVIOUS
<1>1. \A k \in 0..K : done[k] = IF k = 0 THEN <<ls, ms>>
            ELSE EqPair(same, t, done[k - 1], OuterAt(k, Len(ms)), InnerAt(k, Len(ms)))
  <2> HIDE DEF done
  <2>1. done = [k \in 0..K |-> IF k = 0 THEN <<ls, ms>>
            ELSE EqPair(same, t, done[k - 1], OuterAt(k, Len(ms)), InnerAt(k, Len(ms)))]
    BY EqDoneDef DEF done
  <2> HIDE DEF K
  <2> QED BY <2>1
<1> HIDE DEF done, K
<1>2. 0 \in S
  <2>1. done[0] = <<ls, ms>>
    BY <1>0, <1>1
  <2>2. \A i \in 1..Len(ls) : NoDeeper(ls[i], ls[i])
    BY DEF NoDeeper
  <2>3. \A i \in 1..Len(ms) : NoDeeper(ms[i], ms[i])
    BY DEF NoDeeper
  <2>4. ASSUME NEW val, NEW k
        PROVE  \E c \in BOOLEAN :
          /\ All(t, ls, 1..Len(ls), val, k) <=> Two(t, All(t, ls, 1..Len(ls), val, k), c)
          /\ All(t, ms, 1..Len(ms), val, k) <=> Two(t, All(t, ms, 1..Len(ms), val, k), c)
    <3>1. CASE t = "and"
      <4>1. /\ All(t, ls, 1..Len(ls), val, k) <=> Two(t, All(t, ls, 1..Len(ls), val, k), TRUE)
            /\ All(t, ms, 1..Len(ms), val, k) <=> Two(t, All(t, ms, 1..Len(ms), val, k), TRUE)
        BY <3>1 DEF Two
      <4>2. TRUE \in BOOLEAN
        OBVIOUS
      <4> QED BY <4>1, <4>2, Zenon
    <3>2. CASE t = "or"
      <4>1. /\ All(t, ls, 1..Len(ls), val, k) <=> Two(t, All(t, ls, 1..Len(ls), val, k), FALSE)
            /\ All(t, ms, 1..Len(ms), val, k) <=> Two(t, All(t, ms, 1..Len(ms), val, k), FALSE)
        BY <3>2 DEF Two
      <4>2. FALSE \in BOOLEAN
        OBVIOUS
      <4> QED BY <4>1, <4>2, Zenon
    <3> QED BY <3>1, <3>2 DEF Levels
  <2>5. Reduced(t, ls, ms, <<ls, ms>>)
    BY <2>2, <2>3, <2>4 DEF Reduced
  <2> QED BY <1>0, <2>1, <2>5
<1>3. ASSUME NEW k \in 0..K, k \in S, k < K PROVE k + 1 \in S
  <2>1. k + 1 \in 1..K /\ k + 1 \in 0..K /\ (k + 1) - 1 = k
    BY <1>0, <1>3
  <2>2. OuterAt(k + 1, Len(ms)) \in 1..Len(ls) /\ InnerAt(k + 1, Len(ms)) \in 1..Len(ms)
    BY <2>1, PairPlaces DEF K
  <2>3. done[k + 1] = EqPair(same, t, done[k], OuterAt(k + 1, Len(ms)), InnerAt(k + 1, Len(ms)))
    BY <1>1, <2>1
  <2> QED BY <1>3, <2>1, <2>2, <2>3, EqPairReduces
<1>4. K \in S
  <2> HIDE DEF S
  <2>1. \A k \in 0..K : k \in S
    BY <1>0, <1>2, <1>3, Induct
  <2> QED BY <1>0, <2>1
<1> QED BY <1>4, EqLeavesIsDone DEF K, done

\* What a level becomes with other operands, none of which nests deeper than the one it replaces.
LEMMA WithLeavesMakes ==
    ASSUME NEW t \in Levels, NEW e \in Expr, NEW s, \A i \in 1..Len(Leaves(t, e)) : NoDeeper(s[i], Leaves(t, e)[i])
    PROVE  /\ NoDeeper(WithLeaves(t, e, s), e) /\ WithLeaves(t, e, s) \in Expr
           /\ \A val, k : k \in 1..2 =>
                 /\ Up(WithLeaves(t, e, s), val, k) <=> All(t, s, 1..Len(Leaves(t, e)), val, k)
                 /\ Up(e, val, k) <=> All(t, Leaves(t, e), 1..Len(Leaves(t, e)), val, k)
<1> DEFINE ls == Leaves(t, e)
           n == Len(Leaves(t, e))
<1>1. WithLeaves(t, e, s) = Part(t, s, e, 1)
  BY WithLeavesIsGrown DEF Part
<1>2. n \in Nat /\ 1 \in Nat
  BY LeavesType
<1>3. Places(t, e, 1) = 1..n
  <2>1. 1 + n - 1 = n
    BY <1>2
  <2> QED BY <2>1 DEF Places
<1>4. \A p \in 1..n : OperandAt(t, e, 1, p) = ls[p]
  <2>1. ASSUME NEW p \in 1..n PROVE OperandAt(t, e, 1, p) = ls[p]
    <3>1. p - 1 + 1 = p
      BY <1>2
    <3> QED BY <3>1 DEF OperandAt
  <2> QED BY <2>1
<1> HIDE DEF ls, n
<1>5. NoDeeper(Part(t, s, e, 1), e)
  BY <1>2, <1>3, <1>4, PartNoDeeper DEF ls, n
<1>6. Part(t, s, e, 1) \in Expr
  BY <1>5, NoDeeperExpr
<1>7. Part(t, ls, e, 1) = e
  BY <1>2, <1>3, <1>4, PartSame
<1>8. ASSUME NEW val, NEW k \in 1..2
      PROVE  /\ Up(Part(t, s, e, 1), val, k) <=> All(t, s, 1..n, val, k)
             /\ Up(e, val, k) <=> All(t, ls, 1..n, val, k)
  <2>1. Up(Part(t, s, e, 1), val, k) <=> All(t, s, 1..n, val, k)
    BY <1>2, <1>3, <1>6, PartWorth
  <2>2. Up(Part(t, ls, e, 1), val, k) <=> All(t, ls, 1..n, val, k)
    BY <1>2, <1>3, <1>7, PartWorth
  <2> QED BY <1>7, <2>1, <2>2
<1> QED BY <1>1, <1>5, <1>6, <1>8 DEF ls, n

\* Two sides of which one implies the other only if it did before.
Lacks(p, r) ==
    /\ r = <<r[1], r[2]>> /\ r[1] \in Expr /\ r[2] \in Expr
    /\ NoDeeper(r[1], p[1]) /\ NoDeeper(r[2], p[2])
    /\ \A val, k : (Valuation(val) /\ k \in 1..2) =>
          /\ (Up(r[1], val, k) => Up(r[2], val, k)) => (Up(p[1], val, k) => Up(p[2], val, k))
          /\ (Up(r[2], val, k) => Up(r[1], val, k)) => (Up(p[2], val, k) => Up(p[1], val, k))

\* One elimination after another.
LEMMA LacksTrans ==
    ASSUME NEW p, NEW q, NEW r, Lacks(p, q), Lacks(q, r)
    PROVE  Lacks(p, r)
<1>1. NoDeeper(r[1], p[1]) /\ NoDeeper(r[2], p[2])
  BY NoDeeperTrans DEF Lacks
<1>2. ASSUME NEW val, NEW k, Valuation(val), k \in 1..2
      PROVE  /\ (Up(r[1], val, k) => Up(r[2], val, k)) => (Up(p[1], val, k) => Up(p[2], val, k))
             /\ (Up(r[2], val, k) => Up(r[1], val, k)) => (Up(p[2], val, k) => Up(p[1], val, k))
  <2>1. /\ (Up(q[1], val, k) => Up(q[2], val, k)) => (Up(p[1], val, k) => Up(p[2], val, k))
        /\ (Up(q[2], val, k) => Up(q[1], val, k)) => (Up(p[2], val, k) => Up(p[1], val, k))
    BY <1>2 DEF Lacks
  <2>2. /\ (Up(r[1], val, k) => Up(r[2], val, k)) => (Up(q[1], val, k) => Up(q[2], val, k))
        /\ (Up(r[2], val, k) => Up(r[1], val, k)) => (Up(q[2], val, k) => Up(q[1], val, k))
    BY <1>2 DEF Lacks
  <2> QED BY <2>1, <2>2
<1> QED BY <1>1, <1>2 DEF Lacks

\* No elimination.
LEMMA LacksSame ==
    ASSUME NEW p \in Expr \X Expr
    PROVE  Lacks(p, p)
<1>1. p = <<p[1], p[2]>> /\ p[1] \in Expr /\ p[2] \in Expr
  OBVIOUS
<1> QED BY <1>1, NoDeeperBuilt DEF Lacks

\* Eliminating the common operands of one level.
LEMMA EqLevelLacks ==
    ASSUME NEW same, Sound(same), NEW t \in Levels, NEW p \in Expr \X Expr
    PROVE  Lacks(p, EqLevel(same, t, p))
<1> DEFINE ls == Leaves(t, p[1])
           ms == Leaves(t, p[2])
           q == EqLeaves(same, t, ls, ms)
           a == WithLeaves(t, p[1], q[1])
           b == WithLeaves(t, p[2], q[2])
<1>1. p[1] \in Expr /\ p[2] \in Expr
  OBVIOUS
<1>2. ls \in Seq(Expr) /\ ms \in Seq(Expr)
  BY <1>1, LeavesType
<1>3. Reduced(t, ls, ms, q)
  <2> HIDE DEF ls, ms
  <2> QED BY <1>2, EqLeavesReduces
<1> HIDE DEF q
<1>4. /\ \A i \in 1..Len(ls) : NoDeeper(q[1][i], ls[i])
      /\ \A i \in 1..Len(ms) : NoDeeper(q[2][i], ms[i])
  BY <1>3 DEF Reduced
<1>5. /\ NoDeeper(a, p[1]) /\ a \in Expr
      /\ \A val, k : k \in 1..2 =>
                 /\ Up(a, val, k) <=> All(t, q[1], 1..Len(ls), val, k)
                 /\ Up(p[1], val, k) <=> All(t, ls, 1..Len(ls), val, k)
  BY <1>1, <1>4, WithLeavesMakes
<1>6. /\ NoDeeper(b, p[2]) /\ b \in Expr
      /\ \A val, k : k \in 1..2 =>
                 /\ Up(b, val, k) <=> All(t, q[2], 1..Len(ms), val, k)
                 /\ Up(p[2], val, k) <=> All(t, ms, 1..Len(ms), val, k)
  BY <1>1, <1>4, WithLeavesMakes
<1> HIDE DEF a, b, ls, ms
<1>7. ASSUME NEW val, NEW k, Valuation(val), k \in 1..2
      PROVE  /\ (Up(a, val, k) => Up(b, val, k)) => (Up(p[1], val, k) => Up(p[2], val, k))
             /\ (Up(b, val, k) => Up(a, val, k)) => (Up(p[2], val, k) => Up(p[1], val, k))
  <2>1. PICK c \in BOOLEAN :
          /\ All(t, ls, 1..Len(ls), val, k) <=> Two(t, All(t, q[1], 1..Len(ls), val, k), c)
          /\ All(t, ms, 1..Len(ms), val, k) <=> Two(t, All(t, q[2], 1..Len(ms), val, k), c)
    BY <1>3, <1>7 DEF Reduced
  <2>2. /\ Up(p[1], val, k) <=> Two(t, All(t, q[1], 1..Len(ls), val, k), c)
        /\ Up(p[2], val, k) <=> Two(t, All(t, q[2], 1..Len(ms), val, k), c)
        /\ Up(a, val, k) <=> All(t, q[1], 1..Len(ls), val, k)
        /\ Up(b, val, k) <=> All(t, q[2], 1..Len(ms), val, k)
    BY <1>5, <1>6, <1>7, <2>1
  <2> QED BY <2>2 DEF Two
<1>8. EqLevel(same, t, p) = <<a, b>>
  BY DEF EqLevel, Regrown, a, b, q, ls, ms
<1> QED BY <1>5, <1>6, <1>7, <1>8 DEF Lacks

\* Eliminating what two expressions have in common.
LEMMA EliminatedLacks ==
    ASSUME NEW same, Sound(same), NEW p \in Expr \X Expr
    PROVE  Lacks(p, Eliminated(same, p))
<1> DEFINE q == EqLeft(same, p)
           r == EqRight(same, q)
<1>1. Lacks(p, q)
  BY EqLevelLacks, LacksSame DEF EqLeft
<1>2. q \in Expr \X Expr
  BY <1>1 DEF Lacks
<1> HIDE DEF q
<1>3. Lacks(q, r)
  BY <1>2, EqLevelLacks, LacksSame DEF EqRight
<1>4. r[1] \in Expr /\ r[2] \in Expr
  BY <1>3 DEF Lacks
<1> HIDE DEF r
<1>5. Lacks(r, BothYN(r))
  <2> DEFINE a == EliminateYN[r[1]]
             b == EliminateYN[r[2]]
  <2>1. /\ a \in Expr /\ NoDeeper(a, r[1]) /\ \A val : Valuation(val) => Calc(a, val) = Calc(r[1], val)
        /\ b \in Expr /\ NoDeeper(b, r[2]) /\ \A val : Valuation(val) => Calc(b, val) = Calc(r[2], val)
    BY <1>4, EliminateYNKeeps DEF KeepsAll
  <2>2. BothYN(r) = <<a, b>>
    BY DEF BothYN
  <2> HIDE DEF a, b
  <2>3. \A val, k : Valuation(val) => Up(a, val, k) = Up(r[1], val, k) /\ Up(b, val, k) = Up(r[2], val, k)
    BY <2>1 DEF Up
  <2> QED BY <2>1, <2>2, <2>3 DEF Lacks
<1> QED BY <1>1, <1>3, <1>5, LacksTrans DEF Eliminated, q, r

\* expr_eq finds only expressions equal that have the same value.
LEMMA EqualSound ==
    ASSUME NEW d \in Depths
    PROVE  Sound(Equal[d])
<1> DEFINE S == {c \in Depths : Sound(Equal[c])}
<1>1. ASSUME NEW c \in Depths, NEW e \in Expr, NEW f \in Expr
      PROVE  Equal[c][<<e, f>>] = IF c = 0 THEN e = f ELSE Alike(Equal[c - 1], e, f)
  <2>1. Equal[c] = [p \in Expr \X Expr |-> IF c = 0 THEN p[1] = p[2] ELSE Alike(Equal[c - 1], p[1], p[2])]
    BY EqualDef DEF Depths
  <2>2. <<e, f>> \in Expr \X Expr /\ <<e, f>>[1] = e /\ <<e, f>>[2] = f
    OBVIOUS
  <2>3. Equal[c][<<e, f>>] = IF c = 0 THEN <<e, f>>[1] = <<e, f>>[2] ELSE Alike(Equal[c - 1], <<e, f>>[1], <<e, f>>[2])
    BY <2>1, <2>2, Zenon
  <2> QED BY <2>2, <2>3, Zenon
<1>2. 0 \in S
  <2>1. ASSUME NEW e \in Expr, NEW f \in Expr PROVE Equal[0][<<e, f>>] <=> e = f
    BY <1>1, ExprsAt
  <2> QED BY <2>1, ExprsAt DEF Sound
<1>3. ASSUME NEW c \in Depths, c \in S, c < MaxDepth PROVE c + 1 \in S
  <2>1. c + 1 \in Depths /\ c + 1 # 0 /\ (c + 1) - 1 = c
    BY <1>3, KExprAssumption DEF Depths
  <2>2. ASSUME NEW val, Valuation(val), NEW e \in Expr, NEW f \in Expr, Equal[c + 1][<<e, f>>]
        PROVE  Calc(e, val) = Calc(f, val)
    <3>1. Alike(Equal[c], e, f)
      <4>1. Equal[c + 1][<<e, f>>] = Alike(Equal[c], e, f)
        <5>1. Equal[c + 1][<<e, f>>] = IF c + 1 = 0 THEN e = f ELSE Alike(Equal[(c + 1) - 1], e, f)
          BY ONLY <1>1, <2>1, e \in Expr, f \in Expr
        <5> QED BY ONLY <2>1, <5>1
      <4> QED BY <2>2, <4>1
    <3> DEFINE same == Equal[c]
    <3>2. Sound(same)
      BY <1>3
    <3> HIDE DEF same
    <3>3. CASE e \in Leaf
      <4>1. e[1] \in Comparisons \cup {"sym"}
        BY <3>3, Heads
      <4>2. e = f
        BY <3>1, <4>1, Heads DEF Alike
      <4> QED BY <4>2
    <3>4. CASE e[1] = "not"
      <4>1. f[1] = "not" /\ same[<<e[2], f[2]>>]
        BY <3>1, <3>4, Heads DEF Alike, same
      <4>2. e[2] \in Expr /\ f[2] \in Expr
        BY <3>4, <4>1, ExprKinds, Heads
      <4>3. Calc(e[2], val) = Calc(f[2], val)
        BY <2>2, <3>2, <4>1, <4>2 DEF Sound
      <4> QED BY <3>4, <4>1, <4>3, CalcEquations
    <3>5. CASE e[1] \in Levels
      <4> DEFINE r == Eliminated(same, <<e, f>>)
      <4>1. r[1] = r[2]
        BY <3>1, <3>5, Heads DEF Alike, OneSymbol, same
      <4>2. Lacks(<<e, f>>, r)
        BY <3>2, EliminatedLacks
      <4> HIDE DEF r
      <4>3. \A k \in 1..2 : Up(e, val, k) = Up(f, val, k)
        <5>1. ASSUME NEW k \in 1..2 PROVE Up(e, val, k) <=> Up(f, val, k)
          BY <2>2, <4>1, <4>2 DEF Lacks
        <5> QED BY <5>1 DEF Up
      <4> QED BY <4>3, UpTells
    <3> QED BY <3>3, <3>4, <3>5, ExprKinds
  <2> QED BY <2>1, <2>2 DEF Sound
<1>4. \A c \in Depths : c \in S
  <2> HIDE DEF S
  <2> QED BY <1>2, <1>3, KExprAssumption, Induct DEF Depths
<1> QED BY <1>4

\* Expressions found equal have the same value.
THEOREM EqSound ==
    ASSUME NEW e \in Expr, NEW f \in Expr, Eq(e, f), NEW val, Valuation(val)
    PROVE  Calc(e, val) = Calc(f, val)
BY EqualSound, ExprsAt DEF Eq, Sound

\* expr_eliminate_eq: what leaves nothing of the second side is implied by the first.
THEOREM EliminateEqImplies ==
    ASSUME NEW e \in Expr, NEW f \in Expr, EliminateEq(e, f)[2] = Y, NEW val, Valuation(val)
    PROVE  Calc(e, val) <= Calc(f, val)
<1> DEFINE r == Eliminated(Equal[MaxDepth], <<e, f>>)
<1>1. EliminateEq(e, f) = r
  BY NullIsNone DEF EliminateEq
<1>2. Lacks(<<e, f>>, r)
  BY EqualSound, ExprsAt, EliminatedLacks
<1> HIDE DEF r
<1>3. ASSUME NEW k \in 1..2 PROVE Up(e, val, k) => Up(f, val, k)
  <2>1. Up(r[2], val, k)
    BY <1>1, Constants01
  <2> QED BY <1>2, <2>1 DEF Lacks
<1> QED BY <1>3, UpTells

-----------------------------------------------------------------------------
(* expr_join_or, expr_join_and *)

\* The third of the constants is one of them.
LEMMA ThirdIsConstant == \A x, y : Third(x, y) \in Constants
<1>1. ASSUME NEW x, NEW y PROVE Third(x, y) \in Constants
  <2>1. \E z \in Constants : z \notin {x, y}
    <3>1. "y" # "m" /\ "y" # "n" /\ "m" # "n"
      OBVIOUS
    <3> QED BY <3>1 DEF Constants
  <2> QED BY <2>1 DEF Third
<1> QED BY <1>1

\* An operand and its value.
LEMMA OperandIsExpr ==
    ASSUME NEW e \in Operand, e \in Expr, NEW val
    PROVE  Calc(e, val) = OperandValue(e, val)
<1>1. CASE e \in Leaf
  BY <1>1, CalcEquations, Heads DEF OperandValue
<1>2. CASE e \notin Leaf
  <2>1. e[1] = "not" /\ e[2] \in Leaf
    BY <1>2 DEF Operand
  <2>2. Calc(e[2], val) = LeafValue(e[2], val)
    BY <2>1, CalcEquations, ExprsAt, ExprCases
  <2> QED BY <2>1, <2>2, CalcEquations DEF OperandValue, Yes
<1> QED BY <1>1, <1>2

\* Two expressions about one symbol are operands.
LEMMA SubjectOperands ==
    ASSUME NEW e \in Expr, NEW f \in Expr, SameSubject(e, f)
    PROVE  e \in Operand /\ f \in Operand
<1>1. \A g \in Expr : Plain(g) => g \in Leaf
  BY ExprKinds, Heads DEF Plain, Comparisons
<1>2. \A g \in Expr : g[1] = "not" => g[2] \in Expr /\ g = <<"not", g[2]>>
  BY ExprKinds, Heads
<1>3. e \in Operand
  <2>1. Plain(e) \/ (e[1] = "not" /\ Plain(e[2]))
    BY DEF SameSubject, SubjectL
  <2> QED BY <1>1, <1>2, <2>1 DEF Operand
<1>4. f \in Operand
  <2>1. Plain(f) \/ (f[1] = "not" /\ f[2][1] = "sym")
    BY DEF SameSubject, SubjectR
  <2> QED BY <1>1, <1>2, <2>1 DEF Operand, Plain
<1> QED BY <1>3, <1>4

\* What replaces two operands is a leaf.
LEMMA JoinsLeaf ==
    ASSUME NEW M, Foreign(M), NEW e \in Operand, NEW f \in Operand, SameSubject(e, f),
           e \notin M, f \notin M
    PROVE  /\ JoinOr(e, f) = Null \/ JoinOr(e, f) \in Leaf \ M
           /\ JoinAnd(e, f) = Null \/ JoinAnd(e, f) \in Leaf \ M
<1> DEFINE s == SubjectL(e)
<1>1. s \in Symbols
  BY OneSubject
<1>2. Constants \subseteq Symbols
  BY KLeafAssumption DEF Constants, Symbols
<1>3. /\ Sym(s) \in Leaf \ M /\ Y \in Leaf \ M /\ N \in Leaf \ M
      /\ \A c \in Constants : <<"=", s, c>> \in Leaf \ M /\ <<"!=", s, c>> \in Leaf \ M
  <2>1. /\ Sym(s) \in Leaf /\ Y \in Leaf /\ N \in Leaf
        /\ \A c \in Constants : <<"=", s, c>> \in Leaf /\ <<"!=", s, c>> \in Leaf
    BY <1>1, <1>2, Constants01 DEF Leaf, Sym, Comparisons
  <2> QED BY <1>1, <2>1, ConstantsForeign DEF Foreign
<1>4. "y" \in Constants
  BY DEF Constants
<1>5. \A x, y : <<"!=", s, Third(x, y)>> \in Leaf \ M /\ <<"=", s, Third(x, y)>> \in Leaf \ M
  BY <1>3, ThirdIsConstant
<1>6. ASSUME NEW g \in {e, f}, {e[1], f[1]} = {"=", "!="}
      PROVE  g \in Leaf \ M
  BY <1>6, Heads DEF Operand
<1>7. JoinOr(e, f) = Null \/ JoinOr(e, f) \in Leaf \ M
  <2> DEFINE a == <<"!=", s, Third(e[3], f[3])>>
             r1 == Type[s] = "tristate" /\ e[1] = "=" /\ f[1] = "=" /\ {e[3], f[3]} \subseteq Constants
             r2 == Type[s] = "bool" /\ OneOfEach(e, f, Sym(s), <<"not", Sym(s)>>)
  <2>1. JoinOr(e, f) = CASE r1 -> a [] r2 -> Y [] OTHER -> Null
    BY DEF JoinOr
  <2>2. a \in Leaf \ M
    BY <1>5
  <2> HIDE DEF a, r1, r2
  <2> QED BY <1>3, <2>1, <2>2
<1>8. JoinAnd(e, f) = Null \/ JoinAnd(e, f) \in Leaf \ M
  <2> DEFINE Eqn(x) == <<"=", s, x>>
             Neq(x) == <<"!=", s, x>>
             r1 == OneOfEach(e, f, Sym(s), Eqn("y"))
             r2 == OneOfEach(e, f, Sym(s), Neq("n"))
             r3 == OneOfEach(e, f, Sym(s), Neq("m"))
             r4 == /\ Type[s] = "tristate" /\ {e[1], f[1]} = {"=", "!="}
                   /\ {e[3], f[3]} \subseteq Flagged
             r5 == /\ Type[s] = "tristate" /\ e[1] = "!=" /\ f[1] = "!="
                   /\ {e[3], f[3]} \subseteq Constants
             j1 == Eqn("y")
             j2 == Sym(s)
             j4 == IF e[3] = f[3] THEN N ELSE IF e[1] = "=" THEN e ELSE f
             j5 == Eqn(Third(e[3], f[3]))
  <2>1. JoinAnd(e, f) = CASE r1 -> j1 [] r2 -> j2 [] r3 -> j1 [] r4 -> j4 [] r5 -> j5 [] OTHER -> Null
    BY DEF JoinAnd
  <2>2. j1 \in Leaf \ M /\ j2 \in Leaf \ M /\ j5 \in Leaf \ M
    BY <1>3, <1>4, <1>5
  <2>3. r4 => j4 \in Leaf \ M
    BY <1>3, <1>6
  <2> HIDE DEF j1, j2, j4, j5, r1, r2, r3, r4, r5
  <2> QED BY <2>1, <2>2, <2>3
<1> QED BY <1>7, <1>8

\* expr_eq finds an operand equal to itself.
LEMMA EqOfOperand ==
    ASSUME NEW e \in Operand, e \in Expr, MaxDepth >= 2
    PROVE  Eq(e, e)
<1>1. ASSUME NEW c \in Depths, NEW g \in Expr, c # 0 PROVE Equal[c][<<g, g>>] = Alike(Equal[c - 1], g, g)
  <2>1. Equal[c] = [p \in Expr \X Expr |-> IF c = 0 THEN p[1] = p[2] ELSE Alike(Equal[c - 1], p[1], p[2])]
    BY EqualDef DEF Depths
  <2>2. <<g, g>> \in Expr \X Expr /\ <<g, g>>[1] = g /\ <<g, g>>[2] = g
    OBVIOUS
  <2>3. Equal[c][<<g, g>>] = IF c = 0 THEN <<g, g>>[1] = <<g, g>>[2] ELSE Alike(Equal[c - 1], <<g, g>>[1], <<g, g>>[2])
    BY <2>1, <2>2, Zenon
  <2> QED BY <1>1, <2>2, <2>3, Zenon
<1>2. MaxDepth \in Depths /\ MaxDepth # 0 /\ MaxDepth - 1 \in Depths /\ MaxDepth - 1 # 0
  BY KExprAssumption DEF Depths
<1>3. ASSUME NEW c \in Depths, NEW l \in Leaf, c # 0 PROVE Equal[c][<<l, l>>]
  <2>1. l \in Expr /\ l[1] \in Comparisons \cup {"sym"}
    BY Heads, ExprsAt, ExprCases
  <2>2. Equal[c][<<l, l>>] = Alike(Equal[c - 1], l, l)
    BY <1>1, <1>3, <2>1, Zenon
  <2>3. Alike(Equal[c - 1], l, l)
    BY <2>1, Heads DEF Alike
  <2> QED BY <2>2, <2>3
<1>4. CASE e \in Leaf
  BY <1>2, <1>3, <1>4 DEF Eq
<1>5. CASE e \notin Leaf
  <2>1. e[1] = "not" /\ e[2] \in Leaf
    BY <1>5 DEF Operand
  <2> DEFINE same == Equal[MaxDepth - 1]
  <2>2. Equal[MaxDepth][<<e, e>>] = Alike(same, e, e)
    BY <1>1, <1>2, Zenon
  <2>3. same[<<e[2], e[2]>>]
    BY <1>2, <1>3, <2>1
  <2> HIDE DEF same
  <2>4. Alike(same, e, e)
    BY <2>1, <2>3, Heads DEF Alike
  <2> QED BY <2>2, <2>4 DEF Eq
<1> QED BY <1>4, <1>5

\* What two operands may become.
LEMMA JoinKeeps ==
    ASSUME NEW M, Foreign(M), NEW t \in Levels, NEW e \in Expr, NEW f \in Expr,
           Settled(M)[e], Settled(M)[f], MaxDepth >= 2, Join(t, e, f) # Null
    PROVE  /\ Join(t, e, f) \in Expr /\ Settled(M)[Join(t, e, f)] /\ Size[Join(t, e, f)] <= Size[e]
           /\ \A val, k : (Fit(M, val) /\ k \in 1..2) =>
                 (Up(Join(t, e, f), val, k) <=> Two(t, Up(e, val, k), Up(f, val, k)))
<1>1. CASE Eq(e, f)
  <2>1. Join(t, e, f) = e
    BY <1>1 DEF Join
  <2>2. ASSUME NEW val, NEW k, Fit(M, val) PROVE Up(e, val, k) <=> Two(t, Up(e, val, k), Up(f, val, k))
    BY <1>1, <2>2, EqSound DEF Up, Two, Fit
  <2> QED BY <2>1, <2>2, SizeType
<1>2. CASE ~Eq(e, f)
  <2> DEFINE j == Join(t, e, f)
  <2>1. SameSubject(e, f) /\ j = IF t = "or" THEN JoinOr(e, f) ELSE JoinAnd(e, f)
    BY <1>2 DEF Join
  <2>2. e \in Operand /\ f \in Operand /\ e # f
    BY <1>2, <2>1, SubjectOperands, EqOfOperand
  <2>6. e \notin M /\ f \notin M
    <3>1. \A g \in Leaf : (g \in Expr /\ Settled(M)[g]) => g \notin M
      BY SettledEquations
    <3> QED BY <3>1 DEF Foreign
  <2>3. j \in Leaf /\ j \notin M
    BY <2>1, <2>2, <2>6, JoinsLeaf
  <2>4. j \in Expr /\ Settled(M)[j] /\ Size[j] = 1 /\ Size[e] >= 1 /\ Size[e] \in Nat
    BY <2>3, ExprsAt, ExprCases, SettledEquations, SizeEquations, SizeType
  <2>5. ASSUME NEW val, NEW k, Fit(M, val), k \in 1..2
        PROVE  Up(j, val, k) <=> Two(t, Up(e, val, k), Up(f, val, k))
    <3>0. Valuation(val) /\ ~Misleading(e) /\ ~Misleading(f)
      <4>1. \A g \in Operand : (g \notin M /\ Misleading(g)) => g \notin Leaf
        BY <2>5 DEF Fit, MisleadingLeaves
      <4>2. \A g \in Operand : Misleading(g) => g \in Leaf
        BY DEF Operand, Misleading
      <4> QED BY <2>2, <2>5, <2>6, <4>1, <4>2 DEF Fit
    <3>1. Calc(j, val) = LeafValue(j, val) /\ Calc(e, val) = OperandValue(e, val) /\ Calc(f, val) = OperandValue(f, val)
      BY <2>2, <2>3, <2>4, CalcEquations, OperandIsExpr
    <3>2. Calc(e, val) \in 0..2 /\ Calc(f, val) \in 0..2
      BY CalcType
    <3>3. CASE t = "or"
      <4>1. Calc(j, val) = AtLeast(Calc(e, val), Calc(f, val))
        <5>1. LeafValue(JoinOr(e, f), val) = AtLeast(OperandValue(e, val), OperandValue(f, val))
          BY <2>1, <2>2, <3>0, <3>3, JoinOrKeepsMeaning
        <5> QED BY <2>1, <3>1, <3>3, <5>1
      <4> QED BY <2>5, <3>2, <3>3, <4>1 DEF Up, Two, AtLeast
    <3>4. CASE t = "and"
      <4>1. Calc(j, val) = AtMost(Calc(e, val), Calc(f, val))
        <5>1. LeafValue(JoinAnd(e, f), val) = AtMost(OperandValue(e, val), OperandValue(f, val))
          BY <2>1, <2>2, <3>0, <3>4, JoinAndKeepsMeaning
        <5> QED BY <2>1, <3>1, <3>4, <5>1
      <4> QED BY <2>5, <3>2, <3>4, <4>1 DEF Up, Two, AtMost
    <3> QED BY <3>3, <3>4 DEF Levels
  <2> QED BY <2>4, <2>5
<1> QED BY <1>1, <1>2

-----------------------------------------------------------------------------
(* expr_eliminate_dups1 *)

\* What is an operand of a level, as a part of it.
LEMMA PartOperands ==
    ASSUME NEW M, NEW t \in Levels, NEW s, NEW e \in Expr, NEW i \in Nat, Part(t, s, e, i) \in Expr,
           NEW q \in Places(t, e, i)
    PROVE  /\ s[q] \in Expr /\ Size[s[q]] <= Size[Part(t, s, e, i)]
           /\ Settled(M)[Part(t, s, e, i)] => Settled(M)[s[q]]
<1> DEFINE Has(f, j) == \A p \in Places(t, f, j) :
                           /\ s[p] \in Expr /\ Size[s[p]] <= Size[Part(t, s, f, j)]
                           /\ Settled(M)[Part(t, s, f, j)] => Settled(M)[s[p]]
           S == {f \in Expr : \A j \in Nat : Part(t, s, f, j) \in Expr => Has(f, j)}
<1>1. ASSUME NEW f \in Expr, f[1] # t PROVE f \in S
  <2>1. ASSUME NEW j \in Nat, Part(t, s, f, j) \in Expr PROVE Has(f, j)
    <3>1. Part(t, s, f, j) = s[j] /\ Places(t, f, j) = {j}
      BY <1>1, PartOfOperand
    <3>2. Size[s[j]] <= Size[s[j]]
      BY <2>1, <3>1, SizeType
    <3> QED BY <2>1, <3>1, <3>2
  <2> QED BY <2>1
<1>2. ASSUME NEW f \in Expr, f[1] = t, f[2] \in Expr, f[2] \in S, f[3] \in Expr, f[3] \in S PROVE f \in S
  <2>1. ASSUME NEW j \in Nat, Part(t, s, f, j) \in Expr PROVE Has(f, j)
    <3> DEFINE h == Half(t, f, j)
               a == Part(t, s, f[2], j)
               b == Part(t, s, f[3], h)
    <3>1. /\ Places(t, f, j) = Places(t, f[2], j) \cup Places(t, f[3], h)
          /\ h \in Nat
          /\ Part(t, s, f, j) = <<t, a, b>>
      <4>1. h \in Nat
        BY ONLY <1>2, PartOfLevel, t \in Levels, j \in Nat
      <4>2. Places(t, f, j) = Places(t, f[2], j) \cup Places(t, f[3], h)
        BY ONLY <1>2, PartOfLevel, t \in Levels, j \in Nat
      <4>3. Part(t, s, f, j) = <<t, a, b>>
        BY ONLY f \in Expr, f[1] = t, PartOfLevel, t \in Levels, j \in Nat
      <4> QED BY <4>1, <4>2, <4>3
    <3> HIDE DEF h, a, b
    <3>2. a \in Expr /\ b \in Expr /\ <<t, a, b>> \in Expr
      BY <2>1, <3>1, ExprKinds, Heads
    <3>3. Has(f[2], j) /\ Has(f[3], h)
      <4> HIDE DEF Has
      <4> QED BY <1>2, <3>1, <3>2 DEF a, b
    <3>4. /\ Size[<<t, a, b>>] = Size[a] + Size[b] /\ Size[a] \in Nat /\ Size[b] \in Nat
          /\ Settled(M)[<<t, a, b>>] => Settled(M)[a] /\ Settled(M)[b]
      BY <3>2, SizeEquations, SizeType, SettledEquations
    <3>5. ASSUME NEW p \in Places(t, f, j)
          PROVE  /\ s[p] \in Expr /\ Size[s[p]] <= Size[<<t, a, b>>]
                 /\ Settled(M)[<<t, a, b>>] => Settled(M)[s[p]]
      <4>1. CASE p \in Places(t, f[2], j)
        <5>1. s[p] \in Expr /\ Size[s[p]] <= Size[a] /\ (Settled(M)[a] => Settled(M)[s[p]])
          BY <3>3, <4>1 DEF a
        <5> QED BY <3>4, <5>1, SizeType
      <4>2. CASE p \in Places(t, f[3], h)
        <5>1. s[p] \in Expr /\ Size[s[p]] <= Size[b] /\ (Settled(M)[b] => Settled(M)[s[p]])
          BY <3>3, <4>2 DEF b
        <5> QED BY <3>4, <5>1, SizeType
      <4> QED BY <3>1, <4>1, <4>2
    <3> QED BY <3>1, <3>5
  <2> QED BY <2>1
<1>3. \A f \in Expr : f \in S
  <2> HIDE DEF S
  <2> QED BY <1>1, <1>2, LevelInduct
<1> QED BY <1>3

\* What a level makes of its operands, when two of them are joined in the place of one.
LEMMA AllJoined ==
    ASSUME NEW t \in Levels, NEW s, NEW r, NEW P, NEW i \in P, NEW j \in P, i # j, NEW val, Valuation(val),
           NEW k \in 1..2, r[i] = Neutral(t), \A p \in P : (p # i /\ p # j) => r[p] = s[p],
           Up(r[j], val, k) <=> Two(t, Up(s[i], val, k), Up(s[j], val, k))
    PROVE  All(t, s, P, val, k) <=> All(t, r, P, val, k)
<1>1. Up(r[i], val, k) <=> t = "and"
  BY Constants01 DEF Neutral, Levels
<1>2. CASE t = "and"
  BY <1>1, <1>2 DEF All, Two
<1>3. CASE t = "or"
  BY <1>1, <1>3 DEF All, Two
<1> QED BY <1>2, <1>3 DEF Levels

\* Operands e may have after some of them were joined.
Joined(M, t, e, s) ==
    /\ s \in Seq(Expr) /\ Len(s) = Len(Leaves(t, e))
    /\ WithLeaves(t, e, s) \in Expr /\ Settled(M)[WithLeaves(t, e, s)] /\ Size[WithLeaves(t, e, s)] <= Size[e]
    /\ \A val, k : (Fit(M, val) /\ k \in 1..2) => (Up(e, val, k) <=> All(t, s, 1..Len(s), val, k))

\* A pass that keeps what is settled and small.
Cleans(M, within) == \A x \in Expr : (Settled(M)[x] /\ Size[x] <= MaxDepth) => Keeps(M, within[x][1], x)

\* The places of all operands of a level.
LEMMA WholePlaces ==
    ASSUME NEW t \in Levels, NEW e \in Expr
    PROVE  /\ Places(t, e, 1) = 1..Len(Leaves(t, e)) /\ Len(Leaves(t, e)) \in Nat
           /\ \A p \in Places(t, e, 1) : OperandAt(t, e, 1, p) = Leaves(t, e)[p]
<1> DEFINE n == Len(Leaves(t, e))
<1>1. n \in Nat
  BY LeavesType
<1>2. 1 + n - 1 = n /\ \A p \in 1..n : p - 1 + 1 = p
  <2> HIDE DEF n
  <2> QED BY <1>1
<1> QED BY <1>1, <1>2 DEF Places, OperandAt

\* The same of the whole level.
SwapsInWhole(M, t, e, s, r, q, x) ==
    /\ x \in Expr /\ Settled(M)[x] /\ r[q] = x /\ s[q] \in Expr /\ q \in Places(t, e, 1)
    /\ \A p \in Places(t, e, 1) : p # q => r[p] = s[p]
    /\ WithLeaves(t, e, s) \in Expr /\ Settled(M)[WithLeaves(t, e, s)]
    /\ Size[WithLeaves(t, e, s)] - Size[s[q]] + Size[x] <= MaxDepth

\* One operand of a settled level is replaced, by what leaves it small enough.
LEMMA OperandReplaced ==
    ASSUME NEW M, NEW t \in Levels, NEW e \in Expr, NEW s, NEW r, NEW q, NEW x, SwapsInWhole(M, t, e, s, r, q, x)
    PROVE  /\ WithLeaves(t, e, r) \in Expr /\ Settled(M)[WithLeaves(t, e, r)]
           /\ Size[WithLeaves(t, e, r)] = Size[WithLeaves(t, e, s)] - Size[s[q]] + Size[x]
<1>1. /\ WithLeaves(t, e, s) = Part(t, s, e, 1)
      /\ WithLeaves(t, e, r) = Part(t, r, e, 1)
  BY WithLeavesIsGrown DEF Part
<1>2. PICK i \in Nat : i = 1
  OBVIOUS
<1>3. /\ Swaps(M, t, e, i, s, r, q, x)
      /\ q \in Places(t, e, i)
      /\ Size[Part(t, s, e, i)] - Size[s[q]] + Size[x] <= MaxDepth
  BY <1>1, <1>2 DEF Swaps, SwapsInWhole
<1>4. /\ Part(t, r, e, i) \in Expr /\ Settled(M)[Part(t, r, e, i)]
      /\ Size[Part(t, r, e, i)] = Size[Part(t, s, e, i)] - Size[s[q]] + Size[x]
  BY ONLY <1>3, t \in Levels, e \in Expr, i \in Nat, PartReplaced
<1> QED BY <1>1, <1>2, <1>4

\* An operand of a level is an expression no larger than it, and settled if the level is.
LEMMA OperandOfWhole ==
    ASSUME NEW M, NEW t \in Levels, NEW e \in Expr, NEW s, WithLeaves(t, e, s) \in Expr, NEW q \in Places(t, e, 1)
    PROVE  /\ s[q] \in Expr /\ Size[s[q]] <= Size[WithLeaves(t, e, s)]
           /\ Settled(M)[WithLeaves(t, e, s)] => Settled(M)[s[q]]
<1>1. WithLeaves(t, e, s) = Part(t, s, e, 1)
  BY WithLeavesIsGrown DEF Part
<1>2. PICK i \in Nat : i = 1
  OBVIOUS
<1>3. Places(t, e, i) = Places(t, e, 1)
  BY <1>2
<1>4. /\ s[q] \in Expr /\ Size[s[q]] <= Size[Part(t, s, e, i)]
      /\ Settled(M)[Part(t, s, e, i)] => Settled(M)[s[q]]
  <2>1. Part(t, s, e, i) \in Expr /\ q \in Places(t, e, i)
    BY <1>1, <1>2, <1>3
  <2> QED BY ONLY <2>1, t \in Levels, e \in Expr, i \in Nat, PartOperands
<1> QED BY <1>1, <1>2, <1>4

\* One pair of operands: the level keeps its value, stays settled and does not grow.
LEMMA DupsPairJoins ==
    ASSUME NEW M, Foreign(M), NEW within, Cleans(M, within), NEW t \in Levels, NEW e \in Expr, Size[e] <= MaxDepth, MaxDepth >= 2,
           NEW p, Joined(M, t, e, p[1]), NEW i \in Places(t, e, 1), NEW j \in Places(t, e, 1)
    PROVE  Joined(M, t, e, DupsPair(within, t, p, i, j)[1])
<1> DEFINE s == p[1]
           x == s[i]
           first == IF x[1] \in Levels THEN within[x] ELSE <<x, FALSE>>
           f == first[1]
           joint == Join(t, f, s[j])
           n == Len(s)
<1>1. CASE i = j
  BY <1>1 DEF DupsPair
<1>2. CASE i # j
  <2>1. /\ s \in Seq(Expr) /\ n = Len(Leaves(t, e)) /\ n \in Nat
        /\ WithLeaves(t, e, s) \in Expr /\ Settled(M)[WithLeaves(t, e, s)] /\ Size[WithLeaves(t, e, s)] <= Size[e]
    BY DEF Joined
  <2>2. Places(t, e, 1) = 1..n
    BY <2>1, WholePlaces
  <2>13. i \in 1..n /\ j \in 1..n
    BY <2>2
  <2>3. \A q \in 1..n : s[q] \in Expr /\ Size[s[q]] <= Size[WithLeaves(t, e, s)] /\ Settled(M)[s[q]]
    BY <2>1, <2>2, OperandOfWhole
  <2>4. DupsPair(within, t, p, i, j)[1] = IF joint = Null THEN [s EXCEPT ![i] = f]
                                          ELSE [s EXCEPT ![i] = Neutral(t), ![j] = joint]
    BY <1>2 DEF DupsPair, JoinFirst, JoinPair
  <2>5. /\ \A q \in 1..n : Size[s[q]] \in Nat /\ Size[s[q]] >= 1
        /\ Size[WithLeaves(t, e, s)] \in Nat /\ Size[e] \in Nat
    BY <2>1, <2>3, SizeType
  <2>6. Keeps(M, f, x)
    <3>1. Keeps(M, x, x)
      BY <2>3, <2>5, <2>13 DEF Keeps
    <3>2. Size[x] <= MaxDepth
      BY <2>1, <2>3, <2>5, <2>13, KExprAssumption
    <3> QED BY <2>3, <2>13, <3>1, <3>2 DEF Cleans
  <2>7. f \in Expr /\ Settled(M)[f] /\ Size[f] <= Size[x] /\ Size[f] \in Nat
    BY <2>3, <2>6, <2>13, SizeType DEF Keeps
  <2>8. \A val, k : Fit(M, val) => Up(f, val, k) = Up(x, val, k)
    BY <2>6 DEF Keeps, Up
  <2>9. \A val, k : (Fit(M, val) /\ k \in 1..2) => (Up(e, val, k) <=> All(t, s, 1..n, val, k))
    BY DEF Joined
  <2>12. /\ s[i] \in Expr /\ s[j] \in Expr
         /\ Size[s[i]] \in Nat /\ Size[s[i]] >= 1 /\ Size[s[j]] \in Nat /\ Size[s[j]] >= 1
    BY <2>3, <2>5, <2>13
  <2> HIDE DEF first, f, joint, n, x, s
  <2>10. CASE joint = Null
    <3> DEFINE r == [s EXCEPT ![i] = f]
    <3>1. r \in Seq(Expr) /\ Len(r) = n /\ r[i] = f /\ \A q \in 1..n : q # i => r[q] = s[q]
      BY <2>1, <2>7, <2>12, <2>13 DEF n
    <3> HIDE DEF r
    <3>2. Size[WithLeaves(t, e, s)] - Size[s[i]] + Size[f] <= Size[WithLeaves(t, e, s)]
      BY <2>5, <2>7, <2>12 DEF x
    <3>3. WithLeaves(t, e, r) \in Expr /\ Settled(M)[WithLeaves(t, e, r)] /\ Size[WithLeaves(t, e, r)] = Size[WithLeaves(t, e, s)] - Size[s[i]] + Size[f]
      <4>1. Size[WithLeaves(t, e, s)] - Size[s[i]] + Size[f] <= MaxDepth
        BY <2>1, <2>5, <2>7, <2>12, <3>2, KExprAssumption
      <4>2. i \in Places(t, e, 1) /\ \A q \in Places(t, e, 1) : q # i => r[q] = s[q]
        BY <2>2, <3>1
      <4>3. s[i] \in Expr
        BY <2>12
      <4>4. /\ WithLeaves(t, e, s) \in Expr /\ Settled(M)[WithLeaves(t, e, s)]
            /\ f \in Expr /\ Settled(M)[f] /\ r[i] = f
        BY <2>1, <2>7, <3>1
      <4>5. SwapsInWhole(M, t, e, s, r, i, f)
        BY <4>1, <4>2, <4>3, <4>4 DEF SwapsInWhole
      <4> QED BY ONLY t \in Levels, e \in Expr, <4>5, OperandReplaced
    <3>4. Size[WithLeaves(t, e, r)] <= Size[e]
      BY <2>1, <2>5, <2>7, <2>12, <3>2, <3>3, SizeType
    <3>5. ASSUME NEW val, NEW k, Fit(M, val), k \in 1..2
          PROVE  All(t, r, 1..n, val, k) <=> All(t, s, 1..n, val, k)
      <4>1. \A q \in 1..n : Up(r[q], val, k) = Up(s[q], val, k)
        BY <2>8, <3>1, <3>5 DEF x
      <4> QED BY <4>1, Zenon DEF All
    <3>6. Joined(M, t, e, r)
      BY <2>1, <2>9, <3>1, <3>3, <3>4, <3>5 DEF Joined
    <3> QED BY <2>4, <2>10, <3>6 DEF r
  <2>11. CASE joint # Null
    <3> DEFINE q1 == [s EXCEPT ![i] = Neutral(t)]
               r == [s EXCEPT ![i] = Neutral(t), ![j] = joint]
    <3>1. /\ joint \in Expr /\ Settled(M)[joint] /\ Size[joint] <= Size[f] /\ Size[joint] \in Nat
          /\ \A val, k : (Fit(M, val) /\ k \in 1..2) =>
                 (Up(joint, val, k) <=> Two(t, Up(f, val, k), Up(s[j], val, k)))
      <4>2. s[j] \in Expr /\ Settled(M)[s[j]]
        BY <2>3, <2>12, <2>13
      <4> QED BY <2>7, <2>11, <4>2, JoinKeeps, SizeType DEF joint
    <3>2. Neutral(t) \in Expr /\ Settled(M)[Neutral(t)] /\ Size[Neutral(t)] = 1
      BY Constants01, ConstantsForeign, SettledEquations, SizeEquations DEF Neutral
    <3>3. /\ q1[i] = Neutral(t) /\ \A q \in 1..n : q # i => q1[q] = s[q]
          /\ r \in Seq(Expr) /\ Len(r) = n /\ r[i] = Neutral(t) /\ r[j] = joint
          /\ \A q \in 1..n : q # j => r[q] = q1[q]
          /\ \A q \in 1..n : (q # i /\ q # j) => r[q] = s[q]
      BY <1>2, <2>1, <2>12, <2>13, <3>1, <3>2 DEF n
    <3> HIDE DEF q1, r
    <3>4. i \in 1..n /\ j \in 1..n
      BY <2>13
    <3>5. Size[WithLeaves(t, e, s)] - Size[s[i]] + 1 <= Size[WithLeaves(t, e, s)]
      BY <2>5, <2>12
    <3>6. WithLeaves(t, e, q1) \in Expr /\ Settled(M)[WithLeaves(t, e, q1)] /\ Size[WithLeaves(t, e, q1)] = Size[WithLeaves(t, e, s)] - Size[s[i]] + 1
      <4>1. Size[WithLeaves(t, e, s)] - Size[s[i]] + Size[Neutral(t)] <= MaxDepth
        BY <2>1, <2>5, <2>12, <3>2, <3>5, KExprAssumption
      <4>2. i \in Places(t, e, 1) /\ \A q \in Places(t, e, 1) : q # i => q1[q] = s[q]
        BY <2>2, <3>3
      <4>3. WithLeaves(t, e, q1) \in Expr /\ Settled(M)[WithLeaves(t, e, q1)] /\ Size[WithLeaves(t, e, q1)] = Size[WithLeaves(t, e, s)] - Size[s[i]] + Size[Neutral(t)]
        <5>1. /\ WithLeaves(t, e, s) \in Expr /\ Settled(M)[WithLeaves(t, e, s)] /\ s[i] \in Expr
              /\ Neutral(t) \in Expr /\ Settled(M)[Neutral(t)] /\ q1[i] = Neutral(t)
          BY <2>1, <2>12, <3>2, <3>3
        <5>2. SwapsInWhole(M, t, e, s, q1, i, Neutral(t))
          BY <4>1, <4>2, <5>1 DEF SwapsInWhole
        <5> QED BY ONLY t \in Levels, e \in Expr, <5>2, OperandReplaced
      <4> QED BY <3>2, <4>3
    <3>7. Size[WithLeaves(t, e, q1)] - Size[s[j]] + Size[joint] <= Size[WithLeaves(t, e, s)]
      BY <2>5, <2>7, <2>12, <3>1, <3>6 DEF x
    <3>8. WithLeaves(t, e, r) \in Expr /\ Settled(M)[WithLeaves(t, e, r)] /\ Size[WithLeaves(t, e, r)] = Size[WithLeaves(t, e, q1)] - Size[s[j]] + Size[joint]
      <4>1. q1[j] = s[j] /\ s[j] \in Expr
        BY <1>2, <2>12, <3>3, <3>4
      <4>2. Size[WithLeaves(t, e, q1)] - Size[q1[j]] + Size[joint] <= MaxDepth
        BY <2>1, <2>5, <2>12, <3>1, <3>6, <3>7, <4>1, KExprAssumption
      <4>3. j \in Places(t, e, 1) /\ \A q \in Places(t, e, 1) : q # j => r[q] = q1[q]
        BY <2>2, <3>3
      <4>4. /\ WithLeaves(t, e, q1) \in Expr /\ Settled(M)[WithLeaves(t, e, q1)]
            /\ joint \in Expr /\ Settled(M)[joint] /\ r[j] = joint /\ q1[j] \in Expr
        BY <3>1, <3>3, <3>6, <4>1
      <4>5. /\ WithLeaves(t, e, r) \in Expr /\ Settled(M)[WithLeaves(t, e, r)]
            /\ Size[WithLeaves(t, e, r)] = Size[WithLeaves(t, e, q1)] - Size[q1[j]] + Size[joint]
        <5>1. SwapsInWhole(M, t, e, q1, r, j, joint)
          BY <4>2, <4>3, <4>4 DEF SwapsInWhole
        <5> QED BY ONLY t \in Levels, e \in Expr, <5>1, OperandReplaced
      <4> QED BY <4>1, <4>5
    <3>9. Size[WithLeaves(t, e, r)] <= Size[e]
      BY <2>1, <2>5, <3>7, <3>8, SizeType
    <3>10. ASSUME NEW val, NEW k, Fit(M, val), k \in 1..2
           PROVE  All(t, s, 1..n, val, k) <=> All(t, r, 1..n, val, k)
      <4>1. Up(r[j], val, k) <=> Two(t, Up(s[i], val, k), Up(s[j], val, k))
        BY <2>8, <3>1, <3>3, <3>10 DEF x
      <4>2. \A q \in 1..n : (q # i /\ q # j) => r[q] = s[q]
        BY <3>3
      <4>3. r[i] = Neutral(t)
        BY <3>3
      <4> DEFINE P == 1..n
      <4>4. i \in P /\ j \in P /\ \A q \in P : (q # i /\ q # j) => r[q] = s[q]
        BY <3>4, <4>2
      <4> HIDE DEF P
      <4>5. All(t, s, P, val, k) <=> All(t, r, P, val, k)
        BY <1>2, <3>10, <4>1, <4>3, <4>4, AllJoined DEF Fit
      <4> QED BY <4>5 DEF P
    <3>11. Joined(M, t, e, r)
      BY <2>1, <2>9, <3>3, <3>8, <3>9, <3>10 DEF Joined
    <3> QED BY <2>4, <2>11, <3>11 DEF r
  <2> QED BY <2>10, <2>11
<1> QED BY <1>1, <1>2

\* What expr_eliminate_dups1 has made after k pairs of operands.
DupsDone(within, t, ls) == CHOOSE done : done = [k \in 0..Len(ls) * Len(ls) |->
            IF k = 0 THEN <<ls, FALSE>>
            ELSE DupsPair(within, t, done[k - 1], OuterAt(k, Len(ls)), InnerAt(k, Len(ls)))]

\* What expr_eliminate_dups1 has made after k pairs of operands.
LEMMA DupsDoneDef ==
    ASSUME NEW within, NEW t, NEW ls \in Seq(Expr)
    PROVE  DupsDone(within, t, ls) = [k \in 0..(Len(ls) * Len(ls)) |-> IF k = 0 THEN <<ls, FALSE>>
            ELSE DupsPair(within, t, DupsDone(within, t, ls)[k - 1], OuterAt(k, Len(ls)), InnerAt(k, Len(ls)))]
<1> DEFINE B(w, k) == IF k = 0 THEN <<ls, FALSE>>
            ELSE DupsPair(within, t, w[k - 1], OuterAt(k, Len(ls)), InnerAt(k, Len(ls)))
           S == {n \in 0..(Len(ls) * Len(ls)) : \E w : w = [k \in 0..n |-> B(w, k)]}
<1>0. (Len(ls) * Len(ls)) \in Nat
  OBVIOUS
<1>1. ASSUME NEW w, NEW x, NEW k, k # 0 => w[k - 1] = x[k - 1]
      PROVE  B(w, k) = B(x, k)
  BY <1>1
<1> HIDE DEF B
<1>2. 0 \in S
  <2> DEFINE w == [k \in 0..0 |-> B(<<>>, k)]
  <2>1. \A k \in 0..0 : B(w, k) = B(<<>>, k)
    BY <1>1
  <2>2. w = [k \in 0..0 |-> B(w, k)]
    BY <2>1
  <2> HIDE DEF w
  <2> QED BY <1>0, <2>2
<1>3. ASSUME NEW n \in 0..(Len(ls) * Len(ls)), n \in S, n < (Len(ls) * Len(ls)) PROVE n + 1 \in S
  <2>1. PICK w : w = [k \in 0..n |-> B(w, k)]
    BY <1>3
  <2> DEFINE x == [k \in 0..(n + 1) |-> B(w, k)]
  <2>2. n + 1 \in 0..(Len(ls) * Len(ls))
    BY <1>0, <1>3
  <2>3. \A k \in 0..n : w[k] = x[k]
    BY <2>1
  <2>4. ASSUME NEW k \in 0..(n + 1) PROVE B(w, k) = B(x, k)
    <3>1. k # 0 => k - 1 \in 0..n
      OBVIOUS
    <3> HIDE DEF x
    <3> QED BY <1>1, <2>3, <3>1
  <2>5. x = [k \in 0..(n + 1) |-> B(x, k)]
    BY <2>4
  <2> HIDE DEF x
  <2> QED BY <2>2, <2>5
<1>4. (Len(ls) * Len(ls)) \in S
  <2> HIDE DEF S
  <2>1. \A n \in 0..(Len(ls) * Len(ls)) : n \in S
    BY <1>0, <1>2, <1>3, Induct
  <2> QED BY <1>0, <2>1
<1> QED BY <1>4 DEF DupsDone, B

\* DupsLeaves is what it has made after all of them.
LEMMA DupsLeavesIsDone ==
    ASSUME NEW within, NEW t, NEW ls
    PROVE  DupsLeaves(within, t, ls) = DupsDone(within, t, ls)[Len(ls) * Len(ls)]
BY DEF DupsLeaves, DupsDone

\* expr_eliminate_dups1 for expressions that nest deeper and deeper.
LEMMA DupsDef ==
    Dups = [k \in 0..MaxDepth |-> [e \in Expr |-> IF k = 0 \/ e[1] \notin Levels THEN <<e, FALSE>> ELSE DupsLevel(Dups[k - 1], e)]]
<1> DEFINE B(w, k) == [e \in Expr |-> IF k = 0 \/ e[1] \notin Levels THEN <<e, FALSE>> ELSE DupsLevel(w[k - 1], e)]
           S == {n \in 0..MaxDepth : \E w : w = [k \in 0..n |-> B(w, k)]}
<1>0. MaxDepth \in Nat
  BY KExprAssumption
<1>1. ASSUME NEW w, NEW x, NEW k, k # 0 => w[k - 1] = x[k - 1]
      PROVE  B(w, k) = B(x, k)
  BY <1>1
<1> HIDE DEF B
<1>2. 0 \in S
  <2> DEFINE w == [k \in 0..0 |-> B(<<>>, k)]
  <2>1. \A k \in 0..0 : B(w, k) = B(<<>>, k)
    BY <1>1
  <2>2. w = [k \in 0..0 |-> B(w, k)]
    BY <2>1
  <2> HIDE DEF w
  <2> QED BY <1>0, <2>2
<1>3. ASSUME NEW n \in 0..MaxDepth, n \in S, n < MaxDepth PROVE n + 1 \in S
  <2>1. PICK w : w = [k \in 0..n |-> B(w, k)]
    BY <1>3
  <2> DEFINE x == [k \in 0..(n + 1) |-> B(w, k)]
  <2>2. n + 1 \in 0..MaxDepth
    BY <1>0, <1>3
  <2>3. \A k \in 0..n : w[k] = x[k]
    BY <2>1
  <2>4. ASSUME NEW k \in 0..(n + 1) PROVE B(w, k) = B(x, k)
    <3>1. k # 0 => k - 1 \in 0..n
      OBVIOUS
    <3> HIDE DEF x
    <3> QED BY <1>1, <2>3, <3>1
  <2>5. x = [k \in 0..(n + 1) |-> B(x, k)]
    BY <2>4
  <2> HIDE DEF x
  <2> QED BY <2>2, <2>5
<1>4. MaxDepth \in S
  <2> HIDE DEF S
  <2>1. \A n \in 0..MaxDepth : n \in S
    BY <1>0, <1>2, <1>3, Induct
  <2> QED BY <1>0, <2>1
<1> QED BY <1>4 DEF Dups, B

\* The first of a pair.
LEMMA First == \A a, b : <<a, b>>[1] = a
OBVIOUS

\* All pairs of operands.
LEMMA DupsLeavesJoins ==
    ASSUME NEW M, Foreign(M), NEW within, Cleans(M, within), NEW t \in Levels, NEW e \in Expr, Settled(M)[e], Size[e] <= MaxDepth, MaxDepth >= 2
    PROVE  Joined(M, t, e, DupsLeaves(within, t, Leaves(t, e))[1])
<1> DEFINE ls == Leaves(t, e)
           K == Len(ls) * Len(ls)
           done == DupsDone(within, t, ls)
           S == {k \in 0..K : Joined(M, t, e, done[k][1])}
<1>0. ls \in Seq(Expr) /\ Len(ls) \in Nat /\ Places(t, e, 1) = 1..Len(ls)
  BY LeavesType, WholePlaces
<1>1. \A k \in 0..K : done[k] = IF k = 0 THEN <<ls, FALSE>>
            ELSE DupsPair(within, t, done[k - 1], OuterAt(k, Len(ls)), InnerAt(k, Len(ls)))
  <2> HIDE DEF done, ls
  <2>1. done = [k \in 0..K |-> IF k = 0 THEN <<ls, FALSE>>
            ELSE DupsPair(within, t, done[k - 1], OuterAt(k, Len(ls)), InnerAt(k, Len(ls)))]
    BY <1>0, DupsDoneDef DEF done
  <2> HIDE DEF K
  <2> QED BY <2>1
<1>2. K \in Nat
  <2> HIDE DEF ls
  <2> QED BY <1>0
<1>3. Joined(M, t, e, ls)
  <2>1. \A i \in 1..Len(ls) : NoDeeper(ls[i], ls[i])
    BY DEF NoDeeper
  <2>2. WithLeaves(t, e, ls) = e
    <3>1. WithLeaves(t, e, ls) = Part(t, ls, e, 1)
      BY WithLeavesIsGrown DEF Part
    <3>2. \A p \in Places(t, e, 1) : ls[p] = OperandAt(t, e, 1, p)
      BY WholePlaces
    <3>3. 1 \in Nat
      OBVIOUS
    <3> HIDE DEF ls
    <3> QED BY <3>1, <3>2, <3>3, PartSame
  <2>3. \A val, k : k \in 1..2 => (Up(e, val, k) <=> All(t, ls, 1..Len(ls), val, k))
    BY <2>1, WithLeavesMakes
  <2>4. Size[e] <= Size[e]
    BY SizeType
  <2> QED BY <1>0, <2>2, <2>3, <2>4 DEF Joined, Fit
<1> HIDE DEF done, K
<1>4. 0 \in S
  <2>1. done[0] = <<ls, FALSE>>
    <3>1. 0 \in 0..K
      BY <1>2
    <3> QED BY <1>1, <3>1, Zenon
  <2>2. done[0][1] = ls
    BY <2>1, First, Zenon
  <2> QED BY <1>2, <1>3, <2>2
<1>5. ASSUME NEW k \in 0..K, k \in S, k < K PROVE k + 1 \in S
  <2>1. k + 1 \in 1..K /\ k + 1 \in 0..K /\ (k + 1) - 1 = k
    BY <1>2, <1>5
  <2> DEFINE i == OuterAt(k + 1, Len(ls))
             j == InnerAt(k + 1, Len(ls))
  <2>2. i \in Places(t, e, 1) /\ j \in Places(t, e, 1)
    <3>1. i \in 1..Len(ls) /\ j \in 1..Len(ls)
      <4> HIDE DEF ls
      <4> QED BY <1>0, <2>1, PairPlaces DEF K
    <3> QED BY <1>0, <3>1
  <2>3. done[k + 1] = DupsPair(within, t, done[k], i, j)
    BY <1>1, <2>1
  <2>4. Joined(M, t, e, done[k][1])
    BY <1>5
  <2> HIDE DEF i, j, ls
  <2>5. Joined(M, t, e, DupsPair(within, t, done[k], i, j)[1])
    BY <2>2, <2>4, DupsPairJoins
  <2> QED BY <2>1, <2>3, <2>5
<1>6. K \in S
  <2> HIDE DEF S
  <2>1. \A k \in 0..K : k \in S
    BY <1>2, <1>4, <1>5, Induct
  <2> QED BY <1>2, <2>1
<1> QED BY <1>6, DupsLeavesIsDone DEF K, done

\* One pass of expr_eliminate_dups1 keeps the value of what expr_transform made.
LEMMA DupsKeeps ==
    ASSUME NEW M, Foreign(M), NEW d \in Depths, MaxDepth >= 2
    PROVE  Cleans(M, Dups[d])
<1> DEFINE S == {c \in Depths : Cleans(M, Dups[c])}
<1>1. ASSUME NEW c \in Depths, NEW e \in Expr
      PROVE  Dups[c][e] = IF c = 0 \/ e[1] \notin Levels THEN <<e, FALSE>> ELSE DupsLevel(Dups[c - 1], e)
  <2>1. Dups[c] = [f \in Expr |-> IF c = 0 \/ f[1] \notin Levels THEN <<f, FALSE>> ELSE DupsLevel(Dups[c - 1], f)]
    BY DupsDef DEF Depths
  <2> QED BY <2>1, Zenon
<1>2. \A e \in Expr : Keeps(M, e, e)
  BY SizeType DEF Keeps
<1>3. 0 \in S
  <2>1. \A e \in Expr : Dups[0][e][1] = e
    BY <1>1, ExprsAt, First, Zenon
  <2> QED BY <1>2, <2>1, ExprsAt DEF Cleans
<1>4. ASSUME NEW c \in Depths, c \in S, c < MaxDepth PROVE c + 1 \in S
  <2>1. c + 1 \in Depths /\ c + 1 # 0 /\ (c + 1) - 1 = c
    BY <1>4, KExprAssumption DEF Depths
  <2> DEFINE within == Dups[c]
  <2>2. Cleans(M, within)
    BY <1>4
  <2>3. ASSUME NEW e \in Expr PROVE Dups[c + 1][e] = IF e[1] \notin Levels THEN <<e, FALSE>> ELSE DupsLevel(within, e)
    <3>1. Dups[c + 1][e] = IF c + 1 = 0 \/ e[1] \notin Levels THEN <<e, FALSE>> ELSE DupsLevel(Dups[(c + 1) - 1], e)
      BY ONLY <1>1, <2>1, e \in Expr
    <3> QED BY ONLY <2>1, <3>1
  <2> HIDE DEF within
  <2>4. ASSUME NEW e \in Expr, Settled(M)[e], Size[e] <= MaxDepth PROVE Keeps(M, Dups[c + 1][e][1], e)
    <3>1. CASE e[1] \notin Levels
      <4>1. Dups[c + 1][e][1] = e
        BY <2>3, <3>1, First, Zenon
      <4> QED BY <1>2, <4>1
    <3>2. CASE e[1] \in Levels
      <4> DEFINE t == e[1]
                 s == DupsLeaves(within, t, Leaves(t, e))[1]
                 x == WithLeaves(t, e, s)
      <4>1. Dups[c + 1][e][1] = x
        <5>1. Dups[c + 1][e] = DupsLevel(within, e)
          BY <2>3, <3>2, Zenon
        <5> QED BY <5>1, First, Zenon DEF DupsLevel, DupsGrown
      <4>2. Joined(M, t, e, s)
        BY <2>2, <2>4, <3>2, DupsLeavesJoins
      <4> HIDE DEF s, t
      <4>3. t \in Levels
        BY <3>2 DEF t
      <4>4. x \in Expr /\ Settled(M)[x] /\ Size[x] <= Size[e]
        BY <4>2 DEF Joined
      <4>5. ASSUME NEW val, NEW k \in 1..2, Fit(M, val) PROVE Up(x, val, k) = Up(e, val, k)
        <5>1. Up(e, val, k) <=> All(t, s, 1..Len(s), val, k)
          BY <4>2, <4>5 DEF Joined
        <5>2. Up(x, val, k) <=> All(t, s, 1..Len(s), val, k)
          <6>1. x = Part(t, s, e, 1) /\ Places(t, e, 1) = 1..Len(s) /\ 1 \in Nat
            BY <4>2, <4>3, WithLeavesIsGrown, WholePlaces DEF Part, Joined
          <6>2. Up(Part(t, s, e, 1), val, k) <=> All(t, s, Places(t, e, 1), val, k)
            BY <4>3, <4>4, <4>5, <6>1, PartWorth DEF Fit
          <6> QED BY <6>1, <6>2
        <5>3. Up(x, val, k) \in BOOLEAN /\ Up(e, val, k) \in BOOLEAN
          BY DEF Up
        <5> QED BY <5>1, <5>2, <5>3
      <4> HIDE DEF x
      <4>6. \A val : Fit(M, val) => Calc(x, val) = Calc(e, val)
        BY <4>4, <4>5, UpTells
      <4> QED BY <4>1, <4>4, <4>6 DEF Keeps
    <3> QED BY <3>1, <3>2
  <2> QED BY <2>1, <2>4 DEF Cleans
<1>5. \A c \in Depths : c \in S
  <2> HIDE DEF S
  <2> QED BY <1>3, <1>4, KExprAssumption, Induct DEF Depths
<1>6. Cleans(M, Dups[d])
  BY <1>5
<1> QED BY <1>6 DEF Cleans

\* One pass of expr_eliminate_dups.
LEMMA DupsPassKeeps ==
    ASSUME NEW M, Foreign(M), NEW e \in Expr, Settled(M)[e], Size[e] <= MaxDepth, MaxDepth >= 2, NEW p, Keeps(M, p[1], e)
    PROVE  Keeps(M, DupsPass(p)[1], e)
<1>1. CASE ~p[2]
  BY <1>1 DEF DupsPass
<1>2. CASE p[2]
  <2> DEFINE x == p[1]
             q == Dups[MaxDepth][x]
  <2>1. DupsPass(p)[1] = IF q[2] THEN EliminateYN[q[1]] ELSE x
    BY <1>2 DEF DupsPass, Cleaned
  <2>2. x \in Expr /\ Settled(M)[x] /\ Size[x] <= MaxDepth
    BY SizeType, KExprAssumption DEF Keeps
  <2>3. Keeps(M, q[1], x)
    <3>1. Cleans(M, Dups[MaxDepth])
      BY DupsKeeps, ExprsAt
    <3> QED BY <2>2, <3>1 DEF Cleans
  <2> HIDE DEF q, x
  <2>4. Keeps(M, EliminateYN[q[1]], q[1])
    BY <2>3, EliminateYNKeeps DEF Keeps, KeepsAll, Fit
  <2>5. Keeps(M, EliminateYN[q[1]], e)
    BY <2>3, <2>4, SizeType DEF Keeps, x
  <2> QED BY <2>1, <2>5 DEF x
<1> QED BY <1>1, <1>2

\* The passes of expr_eliminate_dups.
Passes(e) == CHOOSE pass : pass = [n \in 0..Size[e] |-> IF n = 0 THEN <<e, TRUE>> ELSE DupsPass(pass[n - 1])]

\* The passes of expr_eliminate_dups.
LEMMA PassesDef ==
    ASSUME NEW e \in Expr
    PROVE  Passes(e) = [k \in 0..Size[e] |-> IF k = 0 THEN <<e, TRUE>> ELSE DupsPass(Passes(e)[k - 1])]
<1> DEFINE B(w, k) == IF k = 0 THEN <<e, TRUE>> ELSE DupsPass(w[k - 1])
           S == {n \in 0..Size[e] : \E w : w = [k \in 0..n |-> B(w, k)]}
<1>0. Size[e] \in Nat
  BY SizeType
<1>1. ASSUME NEW w, NEW x, NEW k, k # 0 => w[k - 1] = x[k - 1]
      PROVE  B(w, k) = B(x, k)
  BY <1>1
<1> HIDE DEF B
<1>2. 0 \in S
  <2> DEFINE w == [k \in 0..0 |-> B(<<>>, k)]
  <2>1. \A k \in 0..0 : B(w, k) = B(<<>>, k)
    BY <1>1
  <2>2. w = [k \in 0..0 |-> B(w, k)]
    BY <2>1
  <2> HIDE DEF w
  <2> QED BY <1>0, <2>2
<1>3. ASSUME NEW n \in 0..Size[e], n \in S, n < Size[e] PROVE n + 1 \in S
  <2>1. PICK w : w = [k \in 0..n |-> B(w, k)]
    BY <1>3
  <2> DEFINE x == [k \in 0..(n + 1) |-> B(w, k)]
  <2>2. n + 1 \in 0..Size[e]
    BY <1>0, <1>3
  <2>3. \A k \in 0..n : w[k] = x[k]
    BY <2>1
  <2>4. ASSUME NEW k \in 0..(n + 1) PROVE B(w, k) = B(x, k)
    <3>1. k # 0 => k - 1 \in 0..n
      OBVIOUS
    <3> HIDE DEF x
    <3> QED BY <1>1, <2>3, <3>1
  <2>5. x = [k \in 0..(n + 1) |-> B(x, k)]
    BY <2>4
  <2> HIDE DEF x
  <2> QED BY <2>2, <2>5
<1>4. Size[e] \in S
  <2> HIDE DEF S
  <2>1. \A n \in 0..Size[e] : n \in S
    BY <1>0, <1>2, <1>3, Induct
  <2> QED BY <1>0, <2>1
<1> QED BY <1>4 DEF Passes, B

\* expr_eliminate_dups keeps the value of what expr_transform made.
THEOREM EliminateDupsKeeps ==
    ASSUME NEW M, Foreign(M), NEW e \in Expr, Settled(M)[e], Size[e] <= MaxDepth, MaxDepth >= 2
    PROVE  Keeps(M, EliminateDups(e), e)
<1> DEFINE pass == Passes(e)
           K == Size[e]
           S == {n \in 0..K : Keeps(M, pass[n][1], e)}
<1>0. K \in Nat
  BY SizeType
<1>1. \A n \in 0..K : pass[n] = IF n = 0 THEN <<e, TRUE>> ELSE DupsPass(pass[n - 1])
  <2> HIDE DEF pass
  <2>1. pass = [n \in 0..K |-> IF n = 0 THEN <<e, TRUE>> ELSE DupsPass(pass[n - 1])]
    BY PassesDef DEF pass
  <2> HIDE DEF K
  <2> QED BY <2>1
<1> HIDE DEF pass, K
<1>2. 0 \in S
  <2>1. pass[0] = <<e, TRUE>>
    <3>1. 0 \in 0..K
      BY <1>0
    <3> QED BY <1>1, <3>1, Zenon
  <2>2. Keeps(M, e, e)
    BY SizeType DEF Keeps
  <2>3. pass[0][1] = e
    BY <2>1, First, Zenon
  <2> QED BY <1>0, <2>2, <2>3
<1>3. ASSUME NEW n \in 0..K, n \in S, n < K PROVE n + 1 \in S
  <2>1. n + 1 \in 0..K /\ n + 1 # 0 /\ (n + 1) - 1 = n
    BY <1>0, <1>3
  <2>2. pass[n + 1] = DupsPass(pass[n])
    BY <1>1, <2>1
  <2> QED BY <1>3, <2>1, <2>2, DupsPassKeeps
<1>4. Keeps(M, pass[K][1], e)
  <2> HIDE DEF S
  <2>1. \A n \in 0..K : n \in S
    BY <1>0, <1>2, <1>3, Induct
  <2> QED BY <1>0, <2>1 DEF S
<1>5. EliminateDups(e) = pass[K][1]
  BY NullIsNone DEF EliminateDups, Passes, pass, K
<1> QED BY <1>4, <1>5

-----------------------------------------------------------------------------
(* expr_transform and expr_trans_bool *)

\* What the negation of an expression becomes, from its operands.
LEMMA OpposedEquations ==
    ASSUME NEW e \in Expr
    PROVE  /\ e[1] \in Levels => Opposed[e] = <<Swapped(e[1]), Opposed[e[2]], Opposed[e[3]]>>
           /\ e[1] = "not" => Opposed[e] = e[2]
           /\ e[1] \in Comparisons => Opposed[e] = Opposite(e)
           /\ e[1] = "sym" => Opposed[e] = IF e[2] \in Constants THEN OppositeConstant(e[2]) ELSE <<"not", e>>
<1> DEFINE a == <<Swapped(e[1]), Opposed[e[2]], Opposed[e[3]]>>
           c == Opposite(e)
           s == IF e[2] \in Constants THEN OppositeConstant(e[2]) ELSE <<"not", e>>
<1>1. Opposed[e] = CASE e[1] \in Levels -> a [] e[1] = "not" -> e[2] [] e[1] \in Comparisons -> c [] e[1] = "sym" -> s
  BY OpposedDef, Zenon
<1>2. /\ e[1] \in Levels => e[1] # "not" /\ e[1] \notin Comparisons /\ e[1] # "sym"
      /\ e[1] = "not" => e[1] \notin Comparisons /\ e[1] # "sym"
      /\ e[1] \in Comparisons => e[1] # "sym"
  BY DEF Levels, Comparisons
<1> HIDE DEF a, c, s
<1>3. /\ e[1] \in Levels => Opposed[e] = a
      /\ e[1] = "not" => Opposed[e] = e[2]
      /\ e[1] \in Comparisons => Opposed[e] = c
      /\ e[1] = "sym" => Opposed[e] = s
  BY <1>1, <1>2, Zenon
<1> QED BY <1>3 DEF a, c, s

\* What expr_transform makes of an expression, from its operands.
LEMMA TransformedEquations ==
    ASSUME NEW e \in Expr
    PROVE  /\ e[1] \in Levels => Transformed[e] = <<e[1], Transformed[e[2]], Transformed[e[3]]>>
           /\ e[1] = "not" => Transformed[e] = Opposed[Transformed[e[2]]]
           /\ e \in Leaf => Transformed[e] = IF TestsBool(e) THEN TestedBool(e) ELSE e
<1> DEFINE a == <<e[1], Transformed[e[2]], Transformed[e[3]]>>
           b == Opposed[Transformed[e[2]]]
           c == TestedBool(e)
<1>1. Transformed[e] = CASE e[1] \in Levels -> a [] e[1] = "not" -> b [] TestsBool(e) -> c [] OTHER -> e
  BY TransformedDef, Zenon
<1>2. /\ e[1] \in Levels => e[1] # "not" /\ ~TestsBool(e)
      /\ e[1] = "not" => ~TestsBool(e)
  BY DEF Levels, TestsBool
<1>3. e \in Leaf => e[1] \notin Levels /\ e[1] # "not"
  BY Heads
<1> HIDE DEF a, b, c
<1>4. /\ e[1] \in Levels => Transformed[e] = a
      /\ e[1] = "not" => Transformed[e] = b
      /\ e \in Leaf => Transformed[e] = IF TestsBool(e) THEN c ELSE e
  BY <1>1, <1>2, <1>3, Zenon
<1> QED BY <1>4 DEF a, b, c

\* What expr_trans_bool makes of an expression, from its operands.
LEMMA TransBoolEquations ==
    ASSUME NEW e \in Expr
    PROVE  /\ e[1] \in Levels => TransBool[e] = <<e[1], TransBool[e[2]], TransBool[e[3]]>>
           /\ e[1] = "not" => TransBool[e] = <<"not", TransBool[e[2]]>>
           /\ e \in Leaf => TransBool[e] = IF IsNotNo(e) THEN Sym(e[2]) ELSE e
<1> DEFINE a == <<e[1], TransBool[e[2]], TransBool[e[3]]>>
           b == <<"not", TransBool[e[2]]>>
           c == Sym(e[2])
<1>1. TransBool[e] = CASE e[1] \in Levels -> a [] e[1] = "not" -> b [] IsNotNo(e) -> c [] OTHER -> e
  BY TransBoolDef, Zenon
<1>2. /\ e[1] \in Levels => e[1] # "not" /\ ~IsNotNo(e)
      /\ e[1] = "not" => ~IsNotNo(e)
  BY DEF Levels, IsNotNo
<1>3. e \in Leaf => e[1] \notin Levels /\ e[1] # "not"
  BY Heads
<1> HIDE DEF a, b, c
<1>4. /\ e[1] \in Levels => TransBool[e] = a
      /\ e[1] = "not" => TransBool[e] = b
      /\ e \in Leaf => TransBool[e] = IF IsNotNo(e) THEN c ELSE e
  BY <1>1, <1>2, <1>3, Zenon
<1> QED BY <1>4 DEF a, b, c

\* A negated symbol.
LEMMA NegatedSymbol ==
    ASSUME NEW M, NEW l \in Leaf, l[1] = "sym", MaxDepth >= 1
    PROVE  /\ <<"not", l>> \in Expr /\ Settled(M)[<<"not", l>>] /\ Size[<<"not", l>>] = 1
           /\ \A val : Calc(<<"not", l>>, val) = 2 - LeafValue(l, val)
<1>1. 1 \in Depths /\ 1 # 0 /\ 1 - 1 = 0
  BY KExprAssumption DEF Depths
<1>2. l \in Exprs[0] /\ "and" \in Levels
  BY ExprsAt DEF Levels
<1>3. <<"not", l>> \in Expr
  BY <1>1, <1>2, Builds
<1>4. l \in Expr
  BY ExprsAt, ExprCases
<1> QED BY <1>3, <1>4, SettledEquations, SizeEquations, CalcEquations

\* A leaf as an expression.
LEMMA LeafIsSettled ==
    ASSUME NEW M, NEW l \in Leaf
    PROVE  l \in Expr /\ (Settled(M)[l] <=> l \notin M) /\ Size[l] = 1 /\ \A val : Calc(l, val) = LeafValue(l, val)
<1>1. l \in Expr
  BY ExprsAt, ExprCases
<1> QED BY <1>1, SettledEquations, SizeEquations, CalcEquations

\* What is left of e if it is settled, has as many leaves and the value v.
Settles(M, x, e) == x \in Expr /\ Settled(M)[x] /\ Size[x] = Size[e]

\* The negation of a settled expression is settled, as large, and worth the opposite.
LEMMA OpposedNegates ==
    ASSUME NEW M, Foreign(M), NEW e \in Expr, Settled(M)[e], Size[e] <= MaxDepth
    PROVE  Settles(M, Opposed[e], e) /\ \A val : Valuation(val) => Calc(Opposed[e], val) = 2 - Calc(e, val)
<1> DEFINE Good(f) == (Settled(M)[f] /\ Size[f] <= MaxDepth) =>
                        /\ Settles(M, Opposed[f], f)
                        /\ \A val : Valuation(val) => Calc(Opposed[f], val) = 2 - Calc(f, val)
           S == {f \in Expr : Good(f)}
<1>1. ASSUME NEW f \in Leaf PROVE f \in S
  <2>1. f \in Expr /\ (Settled(M)[f] <=> f \notin M) /\ Size[f] = 1 /\ \A val : Calc(f, val) = LeafValue(f, val)
    BY LeafIsSettled
  <2>2. CASE f[1] \in Comparisons
    <3>1. f = <<f[1], f[2], f[3]>> /\ f[2] \in Symbols /\ f[3] \in Symbols
      BY <2>2, Heads
    <3>2. Opposite(f) \in Leaf
      BY <2>2, <3>1 DEF Opposite, Negated, Leaf, Comparisons
    <3>3. Opposed[f] = Opposite(f)
      BY <2>1, <2>2, OpposedEquations
    <3>4. Opposed[f] \in Expr /\ (f \notin M => Settled(M)[Opposed[f]]) /\ Size[Opposed[f]] = 1
          /\ \A val : Calc(Opposed[f], val) = LeafValue(Opposite(f), val)
      BY <2>2, <3>2, <3>3, LeafIsSettled DEF Foreign
    <3>5. \A val : Valuation(val) => LeafValue(Opposite(f), val) = 2 - LeafValue(f, val)
      BY <2>2, <3>1, OppositeNegates DEF Yes
    <3> QED BY <2>1, <3>4, <3>5 DEF Settles
  <2>3. CASE f[1] = "sym" /\ f[2] \in Constants
    <3>1. f = Sym(f[2])
      BY <2>3, Heads DEF Sym
    <3>2. Opposed[f] = OppositeConstant(f[2])
      BY <2>1, <2>3, OpposedEquations
    <3>3. OppositeConstant(f[2]) \in Leaf /\ OppositeConstant(f[2]) \notin M
      <4>1. TriName(Yes - Tri(f[2])) \in Constants
        BY <2>3 DEF Constants, Tri, TriName, Yes, Mod, No
      <4>2. Constants \subseteq Symbols
        BY KLeafAssumption DEF Symbols, Constants
      <4>3. OppositeConstant(f[2]) \in Leaf
        BY <4>1, <4>2 DEF OppositeConstant, Leaf, Sym
      <4> QED BY <4>1, <4>2, <4>3 DEF OppositeConstant, Foreign
    <3>4. Opposed[f] \in Expr /\ Settled(M)[Opposed[f]] /\ Size[Opposed[f]] = 1
          /\ \A val : Calc(Opposed[f], val) = LeafValue(OppositeConstant(f[2]), val)
      BY <3>2, <3>3, LeafIsSettled
    <3>5. \A val : Valuation(val) => LeafValue(OppositeConstant(f[2]), val) = 2 - LeafValue(f, val)
      <4>1. \A val : Valuation(val) => LeafValue(OppositeConstant(f[2]), val) = Yes - LeafValue(Sym(f[2]), val)
        BY <2>3, ConstantNegates
      <4> QED BY <3>1, <4>1 DEF Yes
    <3> QED BY <2>1, <3>4, <3>5 DEF Settles
  <2>4. CASE f[1] = "sym" /\ f[2] \notin Constants
    <3>1. Opposed[f] = <<"not", f>>
      BY <2>1, <2>4, OpposedEquations
    <3>2. ASSUME Size[f] <= MaxDepth
          PROVE  /\ Opposed[f] \in Expr /\ Settled(M)[Opposed[f]] /\ Size[Opposed[f]] = 1
                 /\ \A val : Calc(Opposed[f], val) = 2 - LeafValue(f, val)
      <4>1. MaxDepth >= 1
        BY <2>1, <3>2, KExprAssumption
      <4> QED BY <2>4, <3>1, <4>1, NegatedSymbol
    <3> QED BY <2>1, <3>2 DEF Settles
  <2> QED BY <2>2, <2>3, <2>4, Heads
<1>2. ASSUME NEW f \in Expr, f[1] = "not", f[2] \in Expr, f[2] \in S PROVE f \in S
  <2>1. ASSUME Settled(M)[f]
        PROVE  /\ Settles(M, Opposed[f], f)
               /\ \A val : Valuation(val) => Calc(Opposed[f], val) = 2 - Calc(f, val)
    <3>1. f[2][1] = "sym"
      BY <1>2, <2>1, SettledEquations
    <3>2. f[2] \in Leaf
      BY <1>2, <3>1, ExprKinds, Heads DEF Levels
    <3>3. Opposed[f] = f[2]
      BY <1>2, OpposedEquations
    <3>7. f[2] \notin M
      BY <3>1, <3>2, Heads DEF Foreign, Sym
    <3>4. Settled(M)[f[2]] /\ Size[f[2]] = 1 /\ \A val : Calc(f[2], val) = LeafValue(f[2], val)
      BY <3>2, <3>7, LeafIsSettled
    <3>5. Size[f] = Size[f[2]]
      BY <1>2, SizeEquations
    <3>6. ASSUME NEW val PROVE Calc(f[2], val) = 2 - Calc(f, val)
      <4>1. Calc(f, val) = 2 - Calc(f[2], val) /\ Calc(f[2], val) \in 0..2
        BY <1>2, CalcEquations, CalcType
      <4> QED BY <4>1
    <3> QED BY <1>2, <3>3, <3>4, <3>5, <3>6 DEF Settles
  <2> QED BY <2>1
<1>3. ASSUME NEW f \in Expr, f[1] \in Levels, f[2] \in Expr, f[2] \in S, f[3] \in Expr, f[3] \in S
      PROVE  f \in S
  <2>1. ASSUME Settled(M)[f], Size[f] <= MaxDepth
        PROVE  /\ Settles(M, Opposed[f], f)
               /\ \A val : Valuation(val) => Calc(Opposed[f], val) = 2 - Calc(f, val)
    <3> DEFINE t == Swapped(f[1])
               l == Opposed[f[2]]
               r == Opposed[f[3]]
    <3>1. /\ Size[f] = Size[f[2]] + Size[f[3]]
          /\ Size[f[2]] \in Nat /\ Size[f[2]] >= 1 /\ Size[f[3]] \in Nat /\ Size[f[3]] >= 1
          /\ Settled(M)[f[2]] /\ Settled(M)[f[3]]
      BY <1>3, <2>1, SizeEquations, SizeType, SettledEquations
    <3>2. Size[f[2]] <= MaxDepth /\ Size[f[3]] <= MaxDepth
      BY <2>1, <3>1, KExprAssumption
    <3>3. /\ l \in Expr /\ Settled(M)[l] /\ Size[l] = Size[f[2]]
          /\ r \in Expr /\ Settled(M)[r] /\ Size[r] = Size[f[3]]
      BY <1>3, <3>1, <3>2 DEF Settles
    <3>4. \A val : Valuation(val) => Calc(l, val) = 2 - Calc(f[2], val) /\ Calc(r, val) = 2 - Calc(f[3], val)
      BY <1>3, <3>1, <3>2
    <3>5. t \in Levels /\ (t = "or" <=> f[1] = "and") /\ (t = "and" <=> f[1] = "or")
      BY <1>3 DEF Swapped, Levels
    <3>6. Opposed[f] = <<t, l, r>>
      BY <1>3, OpposedEquations
    <3> HIDE DEF t, l, r
    <3>7. <<t, l, r>> \in Expr /\ Settled(M)[<<t, l, r>>] /\ Size[<<t, l, r>>] = Size[l] + Size[r]
      <4>1. Size[l] + Size[r] <= MaxDepth
        BY <2>1, <3>1, <3>3
      <4> QED BY <3>3, <3>5, <4>1, SettledLevel
    <3>8. ASSUME NEW val, Valuation(val) PROVE Calc(<<t, l, r>>, val) = 2 - Calc(f, val)
      <4>1. /\ t = "and" => Calc(<<t, l, r>>, val) = AtMost(Calc(l, val), Calc(r, val))
            /\ t = "or" => Calc(<<t, l, r>>, val) = AtLeast(Calc(l, val), Calc(r, val))
        BY <3>7, CalcEquations
      <4>2. /\ f[1] = "and" => Calc(f, val) = AtMost(Calc(f[2], val), Calc(f[3], val))
            /\ f[1] = "or" => Calc(f, val) = AtLeast(Calc(f[2], val), Calc(f[3], val))
        BY CalcEquations
      <4>3. Calc(f[2], val) \in 0..2 /\ Calc(f[3], val) \in 0..2
        BY <1>3, CalcType
      <4>4. Calc(l, val) = 2 - Calc(f[2], val) /\ Calc(r, val) = 2 - Calc(f[3], val)
        BY <3>4, <3>8
      <4> QED BY <1>3, <3>5, <4>1, <4>2, <4>3, <4>4 DEF AtMost, AtLeast, Levels
    <3> QED BY <3>1, <3>3, <3>6, <3>7, <3>8 DEF Settles
  <2> QED BY <2>1
<1>4. \A f \in Expr : f \in S
  <2> HIDE DEF S
  <2> QED BY <1>1, <1>2, <1>3, ExprInduct
<1> QED BY <1>4

\* expr_transform keeps the value of an expression, and leaves only symbols negated.
THEOREM TransformKeeps ==
    ASSUME NEW M, Foreign(M), NEW e \in Expr, ~Uses(e, M), Size[e] <= MaxDepth
    PROVE  Settles(M, Transformed[e], e) /\ \A val : Valuation(val) => Calc(Transformed[e], val) = Calc(e, val)
<1> DEFINE Good(f) == (~Uses(f, M) /\ Size[f] <= MaxDepth) =>
                        /\ Settles(M, Transformed[f], f)
                        /\ \A val : Valuation(val) => Calc(Transformed[f], val) = Calc(f, val)
           S == {f \in Expr : Good(f)}
<1>1. ASSUME NEW f \in Leaf PROVE f \in S
  <2>1. f \in Expr /\ (~Uses(f, M) => Settled(M)[f]) /\ Size[f] = 1 /\ \A val : Calc(f, val) = LeafValue(f, val)
    BY LeafIsSettled, UsesEquations
  <2>2. CASE ~TestsBool(f)
    <3>1. Transformed[f] = f
      BY <2>1, <2>2, TransformedEquations
    <3> QED BY <2>1, <3>1 DEF Settles
  <2>3. CASE TestsBool(f)
    <3> DEFINE x == TestedBool(f)
    <3>1. Transformed[f] = x
      BY <2>1, <2>3, TransformedEquations
    <3>2. Sym(f[2]) \in Leaf /\ Sym(f[2])[1] = "sym"
      BY <2>3 DEF TestsBool, Leaf, Sym
    <3>3. (x \in Leaf /\ x \notin M) \/ x = <<"not", Sym(f[2])>>
      <4>1. f[2] \in Symbols
        BY <2>3, Heads DEF TestsBool, Comparisons
      <4> QED BY <3>2, <4>1, Constants01, ConstantsForeign DEF TestedBool, Foreign
    <3>4. \A val : Valuation(val) => OperandValue(x, val) = LeafValue(f, val)
      BY <2>3, TestKeepsMeaning
    <3> HIDE DEF x
    <3>5. ASSUME MaxDepth >= 1
          PROVE  /\ x \in Expr /\ Settled(M)[x] /\ Size[x] = 1
                 /\ \A val : Calc(x, val) = OperandValue(x, val)
      <4>1. CASE x \in Leaf /\ x \notin M
        BY <4>1, LeafIsSettled, Heads DEF OperandValue
      <4>2. CASE x = <<"not", Sym(f[2])>>
        BY <3>2, <3>5, <4>2, NegatedSymbol DEF OperandValue, Yes
      <4> QED BY <3>3, <4>1, <4>2
    <3>6. Size[f] <= MaxDepth => MaxDepth >= 1
      BY <2>1, KExprAssumption
    <3> QED BY <2>1, <3>1, <3>4, <3>5, <3>6 DEF Settles
  <2> QED BY <2>2, <2>3
<1>2. ASSUME NEW f \in Expr, f[1] = "not", f[2] \in Expr, f[2] \in S PROVE f \in S
  <2>1. ASSUME ~Uses(f, M), Size[f] <= MaxDepth
        PROVE  /\ Settles(M, Transformed[f], f)
               /\ \A val : Valuation(val) => Calc(Transformed[f], val) = Calc(f, val)
    <3> DEFINE x == Transformed[f[2]]
    <3>1. Size[f] = Size[f[2]] /\ ~Uses(f[2], M)
      BY <1>2, <2>1, SizeEquations, UsesEquations
    <3>2. /\ x \in Expr /\ Settled(M)[x] /\ Size[x] = Size[f[2]]
          /\ \A val : Valuation(val) => Calc(x, val) = Calc(f[2], val)
      BY <1>2, <2>1, <3>1 DEF Settles
    <3>3. Transformed[f] = Opposed[x]
      BY <1>2, TransformedEquations
    <3> HIDE DEF x
    <3>4. Settles(M, Opposed[x], x) /\ \A val : Valuation(val) => Calc(Opposed[x], val) = 2 - Calc(x, val)
      BY <2>1, <3>1, <3>2, OpposedNegates
    <3>5. \A val : Calc(f, val) = 2 - Calc(f[2], val)
      BY <1>2, CalcEquations
    <3> QED BY <3>1, <3>2, <3>3, <3>4, <3>5 DEF Settles
  <2> QED BY <2>1
<1>3. ASSUME NEW f \in Expr, f[1] \in Levels, f[2] \in Expr, f[2] \in S, f[3] \in Expr, f[3] \in S
      PROVE  f \in S
  <2>1. ASSUME ~Uses(f, M), Size[f] <= MaxDepth
        PROVE  /\ Settles(M, Transformed[f], f)
               /\ \A val : Valuation(val) => Calc(Transformed[f], val) = Calc(f, val)
    <3> DEFINE t == f[1]
               l == Transformed[f[2]]
               r == Transformed[f[3]]
    <3>1. /\ Size[f] = Size[f[2]] + Size[f[3]]
          /\ Size[f[2]] \in Nat /\ Size[f[2]] >= 1 /\ Size[f[3]] \in Nat /\ Size[f[3]] >= 1
          /\ ~Uses(f[2], M) /\ ~Uses(f[3], M)
      BY <1>3, <2>1, SizeEquations, SizeType, UsesEquations
    <3>2. Size[f[2]] <= MaxDepth /\ Size[f[3]] <= MaxDepth
      BY <2>1, <3>1, KExprAssumption
    <3>3. /\ l \in Expr /\ Settled(M)[l] /\ Size[l] = Size[f[2]]
          /\ r \in Expr /\ Settled(M)[r] /\ Size[r] = Size[f[3]]
      BY <1>3, <3>1, <3>2 DEF Settles
    <3>4. \A val : Valuation(val) => Calc(l, val) = Calc(f[2], val) /\ Calc(r, val) = Calc(f[3], val)
      BY <1>3, <3>1, <3>2
    <3>5. Transformed[f] = <<t, l, r>>
      BY <1>3, TransformedEquations
    <3> HIDE DEF l, r
    <3>6. <<t, l, r>> \in Expr /\ Settled(M)[<<t, l, r>>] /\ Size[<<t, l, r>>] = Size[l] + Size[r]
      <4>1. Size[l] + Size[r] <= MaxDepth
        BY <2>1, <3>1, <3>3
      <4> QED BY <1>3, <3>3, <4>1, SettledLevel
    <3>7. ASSUME NEW val, Valuation(val) PROVE Calc(<<t, l, r>>, val) = Calc(f, val)
      <4>1. /\ t = "and" => Calc(<<t, l, r>>, val) = AtMost(Calc(l, val), Calc(r, val))
            /\ t = "or" => Calc(<<t, l, r>>, val) = AtLeast(Calc(l, val), Calc(r, val))
        BY <3>6, CalcEquations
      <4>2. /\ t = "and" => Calc(f, val) = AtMost(Calc(f[2], val), Calc(f[3], val))
            /\ t = "or" => Calc(f, val) = AtLeast(Calc(f[2], val), Calc(f[3], val))
        BY CalcEquations
      <4>3. Calc(l, val) = Calc(f[2], val) /\ Calc(r, val) = Calc(f[3], val)
        BY <3>4, <3>7
      <4> QED BY <1>3, <4>1, <4>2, <4>3 DEF Levels
    <3> QED BY <3>1, <3>3, <3>5, <3>6, <3>7 DEF Settles
  <2> QED BY <2>1
<1>4. \A f \in Expr : f \in S
  <2> HIDE DEF S
  <2> QED BY <1>1, <1>2, <1>3, ExprInduct
<1> QED BY <1>4

\* expr_trans_bool keeps whether what expr_transform made is n.
THEOREM TransBoolKeepsNo ==
    ASSUME NEW M, NEW e \in Expr, Settled(M)[e]
    PROVE  /\ TransBool[e] \in Expr
           /\ \A val : Valuation(val) => (Calc(TransBool[e], val) = No <=> Calc(e, val) = No)
<1> DEFINE Good(f) == Settled(M)[f] =>
                        /\ NoDeeper(TransBool[f], f) /\ TransBool[f] \in Expr
                        /\ \A val : Valuation(val) => (Calc(TransBool[f], val) = 0 <=> Calc(f, val) = 0)
           S == {f \in Expr : Good(f)}
<1>1. ASSUME NEW f \in Leaf PROVE f \in S /\ (f[1] = "sym" => TransBool[f] = f)
  <2>1. f \in Expr /\ NoDeeper(f, f)
    BY ExprsAt, ExprCases, NoDeeperBuilt
  <2>2. CASE ~IsNotNo(f)
    <3>1. TransBool[f] = f
      BY <2>1, <2>2, TransBoolEquations
    <3> QED BY <2>1, <3>1
  <2>3. CASE IsNotNo(f)
    <3>1. TransBool[f] = Sym(f[2]) /\ f[1] # "sym"
      BY <2>1, <2>3, TransBoolEquations DEF IsNotNo
    <3>2. Sym(f[2]) \in Leaf
      BY <2>3 DEF IsNotNo, Leaf, Sym
    <3>3. NoDeeper(Sym(f[2]), f) /\ Sym(f[2]) \in Expr
      BY <2>1, <3>2, NoDeeperBuilt, ExprsAt, ExprCases
    <3>4. \A val : Calc(Sym(f[2]), val) = LeafValue(Sym(f[2]), val) /\ Calc(f, val) = LeafValue(f, val)
      BY <3>2, LeafIsSettled
    <3>5. \A val : Valuation(val) => (Calc(Sym(f[2]), val) = 0 <=> Calc(f, val) = 0)
      BY <2>3, <3>4, NotNoKeepsNo DEF No
    <3> QED BY <2>1, <3>1, <3>3, <3>5
  <2> QED BY <2>2, <2>3
<1>2. ASSUME NEW f \in Expr, f[1] = "not", f[2] \in Expr, f[2] \in S PROVE f \in S
  <2>1. ASSUME Settled(M)[f] PROVE TransBool[f] = f
    <3>1. f[2][1] = "sym"
      BY <1>2, <2>1, SettledEquations
    <3>2. f[2] \in Leaf
      BY <1>2, <3>1, ExprKinds, Heads DEF Levels
    <3>3. TransBool[f[2]] = f[2]
      BY <1>1, <3>1, <3>2
    <3>4. f = <<"not", f[2]>>
      BY <1>2, ExprKinds, Heads
    <3> QED BY <1>2, <3>3, <3>4, TransBoolEquations
  <2>2. NoDeeper(f, f)
    BY NoDeeperBuilt
  <2> QED BY <2>1, <2>2
<1>3. ASSUME NEW f \in Expr, f[1] \in Levels, f[2] \in Expr, f[2] \in S, f[3] \in Expr, f[3] \in S
      PROVE  f \in S
  <2>1. ASSUME Settled(M)[f] PROVE Good(f)
    <3> DEFINE t == f[1]
               l == TransBool[f[2]]
               r == TransBool[f[3]]
    <3>1. Settled(M)[f[2]] /\ Settled(M)[f[3]]
      BY <1>3, <2>1, SettledEquations
    <3>2. /\ NoDeeper(l, f[2]) /\ l \in Expr /\ NoDeeper(r, f[3]) /\ r \in Expr
          /\ \A val : Valuation(val) => (Calc(l, val) = 0 <=> Calc(f[2], val) = 0)
          /\ \A val : Valuation(val) => (Calc(r, val) = 0 <=> Calc(f[3], val) = 0)
      BY <1>3, <3>1
    <3>3. TransBool[f] = <<t, l, r>>
      BY <1>3, TransBoolEquations
    <3> HIDE DEF l, r
    <3>4. NoDeeper(<<t, l, r>>, f) /\ <<t, l, r>> \in Expr
      BY <1>3, <3>2, NoDeeperLevel, NoDeeperExpr
    <3>5. ASSUME NEW val, Valuation(val) PROVE Calc(<<t, l, r>>, val) = 0 <=> Calc(f, val) = 0
      <4>1. /\ t = "and" => Calc(<<t, l, r>>, val) = AtMost(Calc(l, val), Calc(r, val))
            /\ t = "or" => Calc(<<t, l, r>>, val) = AtLeast(Calc(l, val), Calc(r, val))
        BY <3>4, CalcEquations
      <4>2. /\ t = "and" => Calc(f, val) = AtMost(Calc(f[2], val), Calc(f[3], val))
            /\ t = "or" => Calc(f, val) = AtLeast(Calc(f[2], val), Calc(f[3], val))
        BY CalcEquations
      <4>3. /\ Calc(l, val) \in 0..2 /\ Calc(r, val) \in 0..2
            /\ Calc(f[2], val) \in 0..2 /\ Calc(f[3], val) \in 0..2
        BY <1>3, <3>2, CalcType
      <4>4. (Calc(l, val) = 0 <=> Calc(f[2], val) = 0) /\ (Calc(r, val) = 0 <=> Calc(f[3], val) = 0)
        BY <3>2, <3>5
      <4> QED BY <1>3, <4>1, <4>2, <4>3, <4>4 DEF AtMost, AtLeast, Levels
    <3> QED BY <3>3, <3>4, <3>5
  <2> QED BY <2>1
<1>4. \A f \in Expr : f \in S
  <2> HIDE DEF S
  <2> QED BY <1>1, <1>2, <1>3, ExprInduct
<1> QED BY <1>4 DEF No

-----------------------------------------------------------------------------
(* menu_finalize *)

\* What an expression with at most MaxLeaves operands is.
AsWritten(e) ==
    /\ e \in Expr /\ Size[e] <= MaxLeaves /\ e \in Exprs[2 * Size[e]]
    /\ e[1] # "not" => e \in Exprs[2 * Size[e] - 1]

\* What is written before the passes may still grow by the parent's dependencies.
Before(e) == e \in Exprs[2 * MaxLeaves] /\ e \in Expr /\ Size[e] <= MaxLeaves

\* No pass makes a misleading leaf.
LEMMA MisleadingForeign == Foreign(MisleadingLeaves)
<1>1. \A s \in Symbols, o \in {"=", "!="} : \A c \in Constants : <<o, s, c>> \notin MisleadingLeaves
  BY KLeafAssumption DEF MisleadingLeaves, Misleading, Constants
<1>2. \A s : Sym(s) \notin MisleadingLeaves
  BY DEF MisleadingLeaves, Misleading, Sym
<1>3. ASSUME NEW l \in Leaf, l[1] \in Comparisons, Opposite(l) \in MisleadingLeaves PROVE l \in MisleadingLeaves
  <2>1. Opposite(l)[1] = Negated[l[1]] /\ Opposite(l)[2] = l[2] /\ Opposite(l)[3] = l[3]
    BY DEF Opposite
  <2>2. Negated[l[1]] \in {"=", "!="} => l[1] \in {"=", "!="}
    BY <1>3 DEF Negated, Comparisons
  <2> QED BY <1>3, <2>1, <2>2 DEF MisleadingLeaves, Misleading
<1> QED BY <1>1, <1>2, <1>3 DEF Foreign, MisleadingLeaves

\* What an expression may have to do without: nothing, to nest no deeper than it has leaves, and
\* what is misleading, to keep its value.
Spared == {{}, MisleadingLeaves}

LEMMA SparedForeign == \A M \in Spared : Foreign(M)
BY MisleadingForeign DEF Spared, Foreign

\* What the passes keep: the value, until expr_trans_bool only keeps whether it is n; and what the
\* next pass relies on.
PassInv ==
    \/ passed = "none" /\ AsWritten(source) /\ expr = source
    \/ /\ passed = "transform" /\ Before(source)
       /\ expr \in Expr /\ Size[expr] <= MaxLeaves
       /\ \A M \in Spared : ~Uses(source, M) => Settled(M)[expr]
       /\ \A val : Valuation(val) => Calc(source, val) = Calc(expr, val)
    \/ /\ passed = "join" /\ source \in Expr /\ expr \in Expr
       /\ \A M \in Spared : ~Uses(source, M) =>
             Settled(M)[expr] /\ \A val : Fit(M, val) => Calc(source, val) = Calc(expr, val)
    \/ /\ passed = "bool" /\ source \in Expr /\ expr \in Expr
       /\ \A M \in Spared : ~Uses(source, M) =>
             \A val : Fit(M, val) => (Calc(source, val) = No <=> Calc(expr, val) = No)

\* The bounds leave room for what is written and the parent's dependencies.
LEMMA Bounds ==
    /\ MaxLeaves \in Nat /\ MaxLeaves >= 1 /\ MaxDepth \in Nat /\ MaxDepth >= 3
    /\ 2 * MaxLeaves + 1 <= MaxDepth
    /\ 2 * MaxLeaves \in Depths /\ 2 * MaxLeaves + 1 \in Depths
<1>1. MaxLeaves \in Nat /\ MaxLeaves # 0 /\ 2 * MaxLeaves < MaxDepth /\ MaxDepth \in Nat
  BY KPassesAssumption, KExprAssumption
<1>2. MaxLeaves >= 1 /\ MaxDepth >= 3 /\ 2 * MaxLeaves + 1 <= MaxDepth
  BY <1>1
<1> QED BY <1>1, <1>2 DEF Depths

\* An operand is as the parser writes it.
LEMMA OperandWritten ==
    ASSUME NEW a \in Operands
    PROVE  AsWritten(a) /\ Size[a] = 1 /\ a \in Exprs[1]
<1>1. 1 \in Depths /\ 1 # 0 /\ 2 \in Depths /\ 1 - 1 = 0 /\ 1 \in 0..2 /\ 0 \in 0..1
  BY Bounds DEF Depths
<1>2. a \in Leaf \/ (a[1] = "not" /\ a[2] \in Leaf /\ a = <<"not", a[2]>>)
  BY KPassesAssumption
<1>3. CASE a \in Leaf
  <2>1. a \in Exprs[1] /\ a \in Expr /\ Size[a] = 1
    BY <1>1, <1>3, ExprsAt, ExprCases, SizeEquations
  <2>2. a \in Exprs[2]
    BY <1>1, <2>1, ExprsGrow
  <2>3. 2 * Size[a] = 2 /\ 2 * Size[a] - 1 = 1
    BY <2>1
  <2> QED BY <2>1, <2>2, <2>3, Bounds DEF AsWritten
<1>4. CASE a[1] = "not" /\ a[2] \in Leaf /\ a = <<"not", a[2]>>
  <2>1. a \in Exprs[1] /\ a \in Expr
    <3>1. a[2] \in Exprs[0] /\ "and" \in Levels
      BY <1>4, ExprsAt DEF Levels
    <3>2. <<"not", a[2]>> \in Exprs[1] /\ <<"not", a[2]>> \in Expr
      BY <1>1, <3>1, Builds
    <3> QED BY <1>4, <3>2
  <2>2. Size[a] = 1
    <3>1. Size[a] = Size[a[2]]
      BY <1>4, <2>1, SizeEquations
    <3> QED BY <1>4, <3>1, LeafIsSettled
  <2>3. a \in Exprs[2]
    BY <1>1, <2>1, ExprsGrow
  <2>4. 2 * Size[a] = 2
    BY <2>2
  <2> QED BY <1>4, <2>1, <2>2, <2>3, <2>4, Bounds DEF AsWritten
<1> QED BY <1>2, <1>3, <1>4

\* One more operand on either side, or the whole negated, is as the parser writes it.
LEMMA WrittenGrows ==
    ASSUME NEW e, AsWritten(e)
    PROVE  /\ \A a \in Operands, t \in Levels : Size[e] < MaxLeaves => AsWritten(<<t, e, a>>) /\ AsWritten(<<t, a, e>>)
           /\ e[1] # "not" => AsWritten(<<"not", e>>)
<1> DEFINE n == Size[e]
<1>1. n \in Nat /\ n >= 1 /\ n <= MaxLeaves /\ e \in Expr /\ e \in Exprs[2 * n] /\ (e[1] # "not" => e \in Exprs[2 * n - 1])
  BY SizeType DEF AsWritten
<1>2. 2 * n \in Depths /\ 2 * n # 0 /\ 2 * n - 1 \in Depths
  <2> HIDE DEF n
  <2> QED BY <1>1, Bounds DEF Depths
<1>3. ASSUME e[1] # "not" PROVE AsWritten(<<"not", e>>)
  <2>1. <<"not", e>> \in Exprs[2 * n] /\ <<"not", e>> \in Expr
    <3>1. "and" \in Levels
      BY DEF Levels
    <3> HIDE DEF n
    <3> QED BY <1>1, <1>2, <1>3, <3>1, Builds
  <2>2. Size[<<"not", e>>] = n
    BY <2>1, SizeEquations
  <2> QED BY <1>1, <2>1, <2>2 DEF AsWritten
<1>4. ASSUME NEW a \in Operands, NEW t \in Levels, n < MaxLeaves
      PROVE  AsWritten(<<t, e, a>>) /\ AsWritten(<<t, a, e>>)
  <2> DEFINE d == 2 * n + 1
  <2>1. d \in Depths /\ d # 0 /\ d - 1 = 2 * n /\ 1 \in 0..(2 * n) /\ d + 1 \in Depths /\ d \in 0..(d + 1)
    <3> HIDE DEF n
    <3> QED BY <1>1, <1>4, Bounds DEF Depths
  <2>2. a \in Exprs[1] /\ Size[a] = 1 /\ a \in Expr
    BY OperandWritten DEF AsWritten
  <2>3. a \in Exprs[2 * n]
    <3> HIDE DEF n
    <3> QED BY <1>2, <2>1, <2>2, ExprsGrow
  <2> HIDE DEF n, d
  <2>4. ASSUME NEW l \in Exprs[2 * n], NEW r \in Exprs[2 * n], Size[l] + Size[r] = n + 1, l \in Expr, r \in Expr
        PROVE  AsWritten(<<t, l, r>>)
    <3> DEFINE x == <<t, l, r>>
    <3>1. x \in Exprs[d] /\ x \in Expr /\ x[1] = t /\ x[2] = l /\ x[3] = r
      BY <2>1, Builds
    <3>2. x \in Exprs[d + 1]
      BY <2>1, <3>1, ExprsGrow
    <3> HIDE DEF x
    <3>3. Size[x] = n + 1
      BY <2>4, <3>1, SizeEquations
    <3>4. 2 * Size[x] = d + 1 /\ 2 * Size[x] - 1 = d /\ Size[x] <= MaxLeaves
      BY <1>1, <1>4, <3>3, Bounds DEF d
    <3> QED BY <3>1, <3>2, <3>4 DEF AsWritten, x
  <2>5. Size[e] + Size[a] = n + 1 /\ Size[a] + Size[e] = n + 1
    BY <1>1, <2>2 DEF n
  <2> QED BY <1>1, <2>2, <2>3, <2>4, <2>5
<1> QED BY <1>3, <1>4

\* Conjoining what has the value of what is conjoined.
LEMMA AndKeeps ==
    ASSUME NEW e \in Expr, NEW f \in Expr, NEW x \in Expr, NEW y \in Expr,
           <<"and", e, f>> \in Expr, <<"and", x, y>> \in Expr, NEW val,
           Calc(e, val) = Calc(x, val), Calc(f, val) = Calc(y, val)
    PROVE  Calc(<<"and", e, f>>, val) = Calc(<<"and", x, y>>, val)
BY CalcEquations

\* Every step of menu_finalize keeps the invariant.
LEMMA PassStep == ASSUME PassInv, [PassNext]_passVars PROVE PassInv'
<1> USE DEF PassInv
<1>1. CASE Write
  <2>1. AsWritten(source) /\ expr = source
    BY <1>1 DEF Write
  <2>2. AsWritten(source')
    <3>1. ASSUME NEW a \in Operands, NEW t \in Levels, Size[source] < MaxLeaves,
                 source' \in {<<t, source, a>>, <<t, a, source>>}
          PROVE  AsWritten(source')
      BY <2>1, <3>1, WrittenGrows
    <3>2. ASSUME source[1] # "not", source' = <<"not", source>> PROVE AsWritten(source')
      BY <2>1, <3>2, WrittenGrows
    <3> QED BY <1>1, <3>1, <3>2 DEF Write
  <2>3. passed' = "none" /\ expr' = source'
    BY <1>1 DEF Write
  <2>4. AsWritten(source)' <=> AsWritten(source')
    BY DEF AsWritten
  <2> QED BY <2>2, <2>3, <2>4
<1>2. CASE PassTransform
  <2>1. AsWritten(source) /\ expr = source
    BY <1>2 DEF PassTransform
  <2>2. source \in Expr /\ Size[source] <= MaxLeaves /\ Size[source] \in Nat /\ source \in Exprs[2 * Size[source]]
    BY <2>1, SizeType DEF AsWritten
  <2>3. Before(source)
    <3>1. 2 * MaxLeaves \in Depths /\ 2 * Size[source] \in 0..(2 * MaxLeaves)
      BY <2>2, Bounds
    <3> QED BY <2>2, <3>1, ExprsGrow DEF Before
  <2>4. Size[source] <= MaxDepth
    BY <2>2, Bounds
  <2>5. expr' = Transformed[source]
    BY <1>2, <2>1, <2>2, NullIsNone DEF PassTransform, Transform
  <2>10. ASSUME NEW M \in Spared, ~Uses(source, M)
         PROVE  /\ Settles(M, Transformed[source], source)
                /\ \A val : Valuation(val) => Calc(Transformed[source], val) = Calc(source, val)
    BY <2>2, <2>4, <2>10, SparedForeign, TransformKeeps
  <2>6. /\ Settles({}, Transformed[source], source)
        /\ \A val : Valuation(val) => Calc(Transformed[source], val) = Calc(source, val)
    BY <2>2, <2>10, UsesNone DEF Spared
  <2>7. passed' = "transform" /\ source' = source
    BY <1>2 DEF PassTransform
  <2>8. Before(source')
    BY <2>3, <2>7
  <2>9. /\ expr' \in Expr /\ Size[expr'] <= MaxLeaves
        /\ \A M \in Spared : ~Uses(source', M) => Settled(M)[expr']
        /\ \A val : Valuation(val) => Calc(source', val) = Calc(expr', val)
    BY <2>2, <2>5, <2>6, <2>7, <2>10 DEF Settles
  <2> QED BY <2>7, <2>8, <2>9 DEF Before
<1>3. CASE PassJoin
  <2>1. /\ Before(source) /\ expr \in Expr /\ Size[expr] <= MaxLeaves
        /\ \A M \in Spared : ~Uses(source, M) => Settled(M)[expr]
        /\ \A val : Valuation(val) => Calc(source, val) = Calc(expr, val)
    BY <1>3 DEF PassJoin
  <2>2. PICK p \in Parents : /\ source' = AllocAnd(p, source)
                             /\ expr' = EliminateDups(AllocAnd(Transform(p), expr))
    BY <1>3 DEF PassJoin
  <2> DEFINE e == AllocAnd(Transform(p), expr)
             s == AllocAnd(p, source)
  <2>3. source # Null /\ expr # Null /\ source \in Expr /\ Size[expr] \in Nat
    BY <2>1, NullIsNone, SizeType DEF Before
  <2>8. /\ s \in Expr
        /\ p = Null => s = source
        /\ p # Null => s = <<"and", p, source>>
    <3>1. CASE p = Null
      BY <2>3, <3>1 DEF AllocAnd
    <3>2. CASE p # Null
      <4>1. p \in Exprs[2 * MaxLeaves] /\ "and" \in Levels
        BY <3>2, KPassesAssumption DEF Levels
      <4>2. s = <<"and", p, source>>
        BY <2>3, <3>2 DEF AllocAnd
      <4> DEFINE d == 2 * MaxLeaves + 1
      <4>3. d \in Depths /\ d # 0 /\ d - 1 = 2 * MaxLeaves
        BY Bounds
      <4> HIDE DEF d, s
      <4> QED BY <2>1, <3>2, <4>1, <4>2, <4>3, Builds DEF Before
    <3> QED BY <3>1, <3>2
  <2>4. ASSUME NEW M \in Spared, ~Uses(s, M)
        PROVE  /\ e \in Expr /\ Settled(M)[e] /\ Size[e] <= MaxDepth
               /\ \A val : Valuation(val) => Calc(s, val) = Calc(e, val)
    <3>1. CASE p = Null
      <4>1. s = source /\ e = expr /\ Settled(M)[expr]
        BY <2>1, <2>4, <3>1 DEF AllocAnd, Transform
      <4>2. Size[expr] <= MaxDepth
        BY <2>1, <2>3, Bounds
      <4> HIDE DEF s, e
      <4> QED BY <2>1, <2>3, <4>1, <4>2
    <3>2. CASE p # Null
      <4> DEFINE x == Transformed[p]
      <4>1. p \in Exprs[2 * MaxLeaves] /\ Size[p] <= MaxLeaves
        BY <3>2, KPassesAssumption
      <4>2. p \in Expr /\ Size[p] \in Nat
        BY <4>1, Bounds, ExprCases, SizeType
      <4>3. Size[p] <= MaxDepth
        BY <4>1, <4>2, Bounds
      <4>11. <<"and", p, source>> \in Expr /\ ~Uses(<<"and", p, source>>, M)
        <5> HIDE DEF s, e
        <5> QED BY <2>4, <2>8, <3>2
      <4>12. ~Uses(p, M) /\ ~Uses(source, M)
        BY <4>11, UsesEquations DEF Levels
      <4>4. /\ x \in Expr /\ Settled(M)[x] /\ Size[x] = Size[p]
            /\ \A val : Valuation(val) => Calc(x, val) = Calc(p, val)
        BY <4>2, <4>3, <4>12, SparedForeign, TransformKeeps DEF Settles
      <4> HIDE DEF x
      <4>5. x # Null
        BY <4>4, NullIsNone
      <4>6. s = <<"and", p, source>> /\ e = <<"and", x, expr>>
        BY <2>3, <3>2, <4>5 DEF AllocAnd, Transform, x
      <4>7. "and" \in Levels
        BY DEF Levels
      <4>9. <<"and", x, expr>> \in Expr /\ Settled(M)[<<"and", x, expr>>] /\ Size[<<"and", x, expr>>] <= MaxDepth
        <5>1. Size[x] + Size[expr] <= MaxDepth
          BY <2>1, <2>3, <4>1, <4>2, <4>4, Bounds
        <5> QED BY <2>1, <4>4, <4>7, <4>12, <5>1, SettledLevel
      <4>10. \A val : Valuation(val) => Calc(<<"and", p, source>>, val) = Calc(<<"and", x, expr>>, val)
        BY <2>1, <2>3, <4>2, <4>4, <4>9, <4>11, AndKeeps
      <4> HIDE DEF s, e
      <4> QED BY <4>6, <4>9, <4>10
    <3> QED BY <3>1, <3>2
  <2> HIDE DEF s, e
  <2>5. ASSUME NEW M \in Spared, ~Uses(s, M) PROVE Keeps(M, EliminateDups(e), e)
    BY <2>4, <2>5, Bounds, SparedForeign, EliminateDupsKeeps
  <2>9. EliminateDups(e) \in Expr
    BY <2>5, <2>8, UsesNone DEF Spared, Keeps
  <2>6. /\ expr' \in Expr /\ source' \in Expr
        /\ \A M \in Spared : ~Uses(source', M) =>
              Settled(M)[expr'] /\ \A val : Fit(M, val) => Calc(source', val) = Calc(expr', val)
    <3>1. source' = s /\ expr' = EliminateDups(e)
      BY <2>2 DEF s, e
    <3>2. ASSUME NEW M \in Spared, ~Uses(s, M)
          PROVE  Settled(M)[EliminateDups(e)] /\ \A val : Fit(M, val) => Calc(s, val) = Calc(EliminateDups(e), val)
      BY <2>4, <2>5, <3>2 DEF Keeps, Fit
    <3> QED BY <2>8, <2>9, <3>1, <3>2
  <2>7. passed' = "join"
    BY <1>3 DEF PassJoin
  <2> QED BY <2>6, <2>7
<1>4. CASE PassTransBool
  <2>1. /\ source \in Expr /\ expr \in Expr
        /\ \A M \in Spared : ~Uses(source, M) =>
              Settled(M)[expr] /\ \A val : Fit(M, val) => Calc(source, val) = Calc(expr, val)
    BY <1>4 DEF PassTransBool
  <2>2. passed' = "bool" /\ source' = source /\ expr' = TransBool[expr]
    BY <1>4 DEF PassTransBool
  <2>3. expr' \in Expr
    <3>1. Settled({})[expr]
      BY <2>1, UsesNone DEF Spared
    <3> QED BY <2>1, <2>2, <3>1, TransBoolKeepsNo
  <2>4. ASSUME NEW M \in Spared, ~Uses(source, M), NEW val, Fit(M, val)
        PROVE  Calc(source, val) = No <=> Calc(TransBool[expr], val) = No
    BY <2>1, <2>4, TransBoolKeepsNo DEF Fit
  <2> QED BY <2>1, <2>2, <2>3, <2>4
<1>5. CASE UNCHANGED passVars
  BY <1>5 DEF passVars, AsWritten, Before
<1> QED BY <1>1, <1>2, <1>3, <1>4, <1>5 DEF PassNext

\* The invariant holds after every pass.
LEMMA PassAlways == PassSpec => []PassInv
<1>1. PassInit => PassInv
  BY OperandWritten DEF PassInit, PassInv
<1> QED BY <1>1, PassStep, PTL DEF PassSpec

\* An expression means what was written through every pass of menu_finalize, whatever is written,
\* whatever the symbols are and whatever values they have, unless a comparison in it is misleading.
THEOREM MeaningAlways == PassSpec => []MeaningKept
<1>1. ASSUME PassInv, ~Misled(source) PROVE KeptSoFar
  <2>1. \A v \in Valuations : Valuation(v) /\ Fit(MisleadingLeaves, v)
    BY KPassesAssumption DEF Fit
  <2>2. MisleadingLeaves \in Spared /\ ~Uses(source, MisleadingLeaves)
    BY <1>1 DEF Spared, Misled
  <2>3. CASE passed = "bool"
    <3>1. ASSUME NEW v \in Valuations PROVE (Calc(source, v) = No) = (Calc(expr, v) = No)
      BY <1>1, <2>1, <2>2, <2>3 DEF PassInv
    <3> QED BY <2>3, <3>1 DEF KeptSoFar
  <2>4. CASE passed # "bool"
    BY <1>1, <2>1, <2>2, <2>4 DEF PassInv, KeptSoFar, Same
  <2> QED BY <2>3, <2>4
<1>2. PassInv => MeaningKept
  BY <1>1 DEF MeaningKept
<1> QED BY <1>2, PassAlways, PTL

\* Where eliminating what an expression and another have in common leaves nothing of the other, the
\* other is implied, after every pass.
THEOREM EliminatedImpliedAlways == PassSpec => []EliminatedIsImplied
<1>1. ASSUME PassInv PROVE EliminatedIsImplied
  <2>1. expr \in Expr
    BY <1>1 DEF PassInv, AsWritten
  <2>2. ASSUME NEW f \in Samples, EliminateEq(expr, f)[2] = Y PROVE Implies(expr, f)
    <3>1. f \in Expr /\ \A v \in Valuations : Valuation(v)
      BY KPassesAssumption
    <3> QED BY <2>1, <2>2, <3>1, EliminateEqImplies DEF Implies
  <2> QED BY <2>2 DEF EliminatedIsImplied
<1> QED BY <1>1, PassAlways, PTL
=============================================================================
