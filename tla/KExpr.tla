------------------------------- MODULE KExpr -------------------------------
(***************************************************************************)
(* support/kconfig/expr.c: the dependency expressions of the Config.in     *)
(* files and the passes menu_finalize() runs over them.                    *)
(*                                                                         *)
(* An expression is a tuple headed by its type: <<"sym", s>>, <<"not", e>>,*)
(* <<"and", l, r>>, <<"or", l, r>>, or a comparison <<"=", s, t>> and its  *)
(* like.  The missing expression, which reads as y, is Null.  The C code   *)
(* rewrites trees in place; here a pass returns the rewritten tree, and a  *)
(* pass over the operands of one level works on the sequence of them.      *)
(* What needs no recursion is in KLeaf; recursion is by functions on Expr, *)
(* or on how deep a pass may still go, so that theorems reach it.          *)
(***************************************************************************)
EXTENDS KLeaf

CONSTANT MaxDepth       \* bound: how deep expressions nest

ASSUME KExprAssumption == MaxDepth \in Nat

\* The expressions made of those in S, those that nest no deeper than d, and all of them.
Deeper(S) == Leaf \cup ({"not"} \X S) \cup (Levels \X S \X S)
Exprs[d \in 0..MaxDepth] == Deeper(IF d = 0 THEN {} ELSE Exprs[d - 1])
Expr == Exprs[MaxDepth]

AllocAnd(e, f) == IF e = Null THEN f ELSE IF f = Null THEN e ELSE <<"and", e, f>>
AllocOr(e, f)  == IF e = Null THEN f ELSE IF f = Null THEN e ELSE <<"or", e, f>>
-----------------------------------------------------------------------------
(* expr_eliminate_yn *)
WithoutYN(t, l, r) ==
    LET zero == IF t = "and" THEN N ELSE Y
        unit == IF t = "and" THEN Y ELSE N
    IN CASE zero \in {l, r} -> zero
         [] zero \notin {l, r} /\ l = unit -> r
         [] zero \notin {l, r} /\ l # unit /\ r = unit -> l
         [] OTHER -> <<t, l, r>>

EliminateYN[e \in Expr] ==
    IF e[1] \in Levels THEN WithoutYN(e[1], EliminateYN[e[2]], EliminateYN[e[3]]) ELSE e

\* The operands of one level of && or ||, and the level with other operands.
Leaves(t, e) ==
    LET leaves[f \in Expr] == IF f[1] = t THEN leaves[f[2]] \o leaves[f[3]] ELSE <<f>>
    IN leaves[e]

WithLeaves(t, e, s) ==
    LET grown[f \in Expr] ==   \* with the operands from place i of s on
            [i \in Nat |-> IF f[1] = t
                          THEN <<t, grown[f[2]][i], grown[f[3]][i + Len(Leaves(t, f[2]))]>>
                          ELSE s[i]]
    IN grown[e][1]

\* The k-th of the pairs of places that two nested loops come to, the inner one up to n.
OuterAt(k, n) == ((k - 1) \div n) + 1
InnerAt(k, n) == ((k - 1) % n) + 1

\* A plausible bug: one constant for both levels.
NeutralYes(t) == Y

\* What an operand found on both sides becomes (__expr_eliminate_eq).
Neutral(t) == IF t = "or" THEN N ELSE Y

(* expr_eq and expr_eliminate_eq, which call each other.  same is expr_eq for what is less deep; *)
(* p holds both sides, first as their operands, then as trees.                                   *)

\* __expr_eliminate_eq for operands i and j: equal operands become neutral.
EqPair(same, t, p, i, j) ==
    IF (p[1][i] = p[2][j] /\ p[1][i] \in {Y, N}) \/ ~same[<<p[1][i], p[2][j]>>] THEN p
    ELSE <<[p[1] EXCEPT ![i] = Neutral(t)], [p[2] EXCEPT ![j] = Neutral(t)]>>

EqLeaves(same, t, ls, ms) ==
    LET done[k \in 0..Len(ls) * Len(ms)] ==
            IF k = 0 THEN <<ls, ms>>
            ELSE EqPair(same, t, done[k - 1], OuterAt(k, Len(ms)), InnerAt(k, Len(ms)))
    IN done[Len(ls) * Len(ms)]

Regrown(t, p, s)   == <<WithLeaves(t, p[1], s[1]), WithLeaves(t, p[2], s[2])>>
EqLevel(same, t, p) == Regrown(t, p, EqLeaves(same, t, Leaves(t, p[1]), Leaves(t, p[2])))
EqLeft(same, p)    == IF p[1][1] \in Levels THEN EqLevel(same, p[1][1], p) ELSE p
EqRight(same, p)   == IF p[1][1] # p[2][1] /\ p[2][1] \in Levels THEN EqLevel(same, p[2][1], p) ELSE p
BothYN(p)          == <<EliminateYN[p[1]], EliminateYN[p[2]]>>
OneSymbol(p)       == p[1][1] = "sym" /\ p[1] = p[2]
Eliminated(same, p) == BothYN(EqRight(same, EqLeft(same, p)))

Alike(same, e, f) ==
    /\ e[1] = f[1]
    /\ CASE e[1] \in Comparisons \cup {"sym"} -> e = f
         [] e[1] = "not"                      -> same[<<e[2], f[2]>>]
         [] e[1] \in Levels                   -> OneSymbol(Eliminated(same, <<e, f>>))

\* expr_eq of expressions that nest no deeper than d.
Equal[d \in 0..MaxDepth] ==
    [p \in Expr \X Expr |-> IF d = 0 THEN p[1] = p[2] ELSE Alike(Equal[d - 1], p[1], p[2])]

Eq(e, f)          == Equal[MaxDepth][<<e, f>>]
EliminateEq(e, f) == IF Null \in {e, f} THEN <<e, f>> ELSE Eliminated(Equal[MaxDepth], <<e, f>>)
-----------------------------------------------------------------------------
(* expr_trans_bool: FOO!=n -> FOO *)
TransBool[e \in Expr] ==
    CASE e[1] \in Levels -> <<e[1], TransBool[e[2]], TransBool[e[3]]>>
      [] e[1] = "not"    -> <<"not", TransBool[e[2]]>>
      [] IsNotNo(e)      -> Sym(e[2])
      [] OTHER -> e

Join(t, e, f) ==
    IF Eq(e, f) THEN e
    ELSE IF ~SameSubject(e, f) THEN Null
    ELSE IF t = "or" THEN JoinOr(e, f) ELSE JoinAnd(e, f)

(* expr_eliminate_dups1 on one tree: every operand against every other.  The result, as that of  *)
(* its steps, is what it has made and whether any two were joined; within is the same for what is *)
(* less deep.                                                                                     *)

\* Operand i, first without the duplicates inside it, joined with operand j if that can be.
JoinPair(t, p, i, j, first, joint) ==
    IF joint = Null THEN <<[p[1] EXCEPT ![i] = first[1]], p[2] \/ first[2]>>
    ELSE <<[p[1] EXCEPT ![i] = Neutral(t), ![j] = joint], TRUE>>
JoinFirst(t, p, i, j, first) == JoinPair(t, p, i, j, first, Join(t, first[1], p[1][j]))
DupsPair(within, t, p, i, j) ==
    IF i = j THEN p
    ELSE JoinFirst(t, p, i, j, IF p[1][i][1] \in Levels THEN within[p[1][i]] ELSE <<p[1][i], FALSE>>)

DupsLeaves(within, t, ls) ==
    LET done[k \in 0..Len(ls) * Len(ls)] ==
            IF k = 0 THEN <<ls, FALSE>>
            ELSE DupsPair(within, t, done[k - 1], OuterAt(k, Len(ls)), InnerAt(k, Len(ls)))
    IN done[Len(ls) * Len(ls)]

DupsGrown(e, p)     == <<WithLeaves(e[1], e, p[1]), p[2]>>
DupsLevel(within, e) == DupsGrown(e, DupsLeaves(within, e[1], Leaves(e[1], e)))

\* The same for expressions that nest no deeper than d.
Dups[d \in 0..MaxDepth] ==
    [e \in Expr |-> IF d = 0 \/ e[1] \notin Levels THEN <<e, FALSE>> ELSE DupsLevel(Dups[d - 1], e)]

Size[e \in Expr] ==
    CASE e[1] \in Levels -> Size[e[2]] + Size[e[3]] [] e[1] = "not" -> Size[e[2]] [] OTHER -> 1

(* expr_eliminate_dups: passes until one changes nothing; each of the others removes an operand *)
Cleaned(e, p)  == IF p[2] THEN <<EliminateYN[p[1]], TRUE>> ELSE <<e, FALSE>>
DupsPass(p)    == IF p[2] THEN Cleaned(p[1], Dups[MaxDepth][p[1]]) ELSE p
EliminateDups(e) ==
    LET pass[n \in 0..Size[e]] == IF n = 0 THEN <<e, TRUE>> ELSE DupsPass(pass[n - 1])
    IN IF e = Null THEN Null ELSE pass[Size[e]][1]

(* expr_transform *)
Swapped(t) == IF t = "or" THEN "and" ELSE "or"

\* !e for a transformed e.  Its operands are transformed again there, which changes nothing.
Opposed[e \in Expr] ==
    CASE e[1] \in Levels      -> <<Swapped(e[1]), Opposed[e[2]], Opposed[e[3]]>>
      [] e[1] = "not"         -> e[2]
      [] e[1] \in Comparisons -> Opposite(e)
      [] e[1] = "sym"         -> IF e[2] \in Constants THEN OppositeConstant(e[2]) ELSE <<"not", e>>

Transformed[e \in Expr] ==
    CASE e[1] \in Levels -> <<e[1], Transformed[e[2]], Transformed[e[3]]>>
      [] e[1] = "not"    -> Opposed[Transformed[e[2]]]
      [] TestsBool(e)    -> TestedBool(e)
      [] OTHER -> e

Transform(e) == IF e = Null THEN Null ELSE Transformed[e]
-----------------------------------------------------------------------------
ContainsSymbol(e, s) ==
    LET has[f \in Expr] ==
            CASE f[1] \in Levels      -> has[f[2]] \/ has[f[3]]
              [] f[1] = "not"         -> has[f[2]]
              [] f[1] = "sym"         -> f[2] = s
              [] f[1] \in Comparisons -> s \in {f[2], f[3]}
    IN e # Null /\ has[e]

DependsSymbol(e, s) ==
    LET depends[f \in Expr] ==
            \/ f[1] = "and" /\ (depends[f[2]] \/ depends[f[3]])
            \/ f \in {Sym(s), <<"=", s, "y">>, <<"=", s, "m">>, <<"!=", s, "n">>}
    IN e # Null /\ depends[e]

\* expr_trans_compare for sym = n, the only value the program passes: e = n or e != n.
TransCompareNo(e, type) ==
    LET asked(t, f) == IF t = "!=" THEN <<"not", f>> ELSE f
        trans[t \in {"=", "!="}, f \in Expr] ==
            CASE f[1] \in Levels -> asked(t, <<Swapped(f[1]), trans["=", f[2]], trans["=", f[3]]>>)
              [] f[1] = "not" -> trans[Negated[t], f[2]]
              [] f[1] \in Comparisons -> IF t = "=" THEN <<"not", f>> ELSE f
              [] f[1] = "sym" -> <<t, f[2], "n">>
    IN IF e = Null THEN asked(type, N) ELSE trans[type, e]
-----------------------------------------------------------------------------
(* expr_calc_value; val is the string value of every symbol *)
Calc(e, val) ==
    LET worth[f \in Expr] ==
            CASE f[1] = "and" -> AtMost(worth[f[2]], worth[f[3]])
              [] f[1] = "or"  -> AtLeast(worth[f[2]], worth[f[3]])
              [] f[1] = "not" -> Yes - worth[f[2]]
              [] f[1] \in Comparisons \cup {"sym"} -> LeafValue(f, val)
    IN IF e = Null THEN Yes ELSE worth[e]
=============================================================================
