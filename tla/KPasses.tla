------------------------------ MODULE KPasses ------------------------------
(***************************************************************************)
(* The passes of menu_finalize() (support/kconfig/menu.c) on expressions   *)
(* that grow operand by operand, as the parser and the inheritance of      *)
(* dependencies build them, taken through the passes in their order.       *)
(***************************************************************************)
EXTENDS KExpr

CONSTANTS
    MaxLeaves,      \* bound: operands an expression is written with
    Operands,       \* what the parser may read as one
    Parents,        \* the dependencies of the menu above, as written; Null without any
    Samples,        \* what eliminating common operands is tried with
    Valuations      \* the values the symbols may have

ASSUME KPassesAssumption ==
    /\ MaxLeaves \in Nat \ {0} /\ 2 * MaxLeaves < MaxDepth
    /\ Operands \subseteq Leaf \cup ({"not"} \X Leaf)
    /\ \A p \in Parents : p = Null \/ (p \in Exprs[2 * MaxLeaves] /\ Size[p] <= MaxLeaves)
    /\ Samples \subseteq Expr
    /\ \A val \in Valuations : Valuation(val)

VARIABLES
    source,     \* the expression as written
    expr,       \* the same after the passes that ran
    passed      \* the passes that ran

passVars == <<source, expr, passed>>

PassInit == /\ source \in Operands
            /\ expr = source
            /\ passed = "none"

\* The parser: one more operand, or the whole negated.
Write == /\ passed = "none"
         /\ \/ \E a \in Operands, t \in Levels :
                  /\ Size[source] < MaxLeaves
                  /\ source' \in {<<t, source, a>>, <<t, a, source>>}
            \/ source[1] # "not" /\ source' = <<"not", source>>
         /\ expr' = source'
         /\ UNCHANGED passed

\* expr_transform(), of what rewrite_m() left of the source.
PassTransform == /\ passed = "none"
                 /\ expr' = Transform(expr)
                 /\ passed' = "transform"
                 /\ UNCHANGED source

\* Joining with the parent's dependencies, transformed before, and removing the duplicates.
PassJoin == /\ passed = "transform"
            /\ \E p \in Parents :
                  /\ source' = AllocAnd(p, source)
                  /\ expr' = EliminateDups(AllocAnd(Transform(p), expr))
            /\ passed' = "join"

\* expr_trans_bool(), for what is not a tristate symbol.
PassTransBool == /\ passed = "join"
                 /\ expr' = TransBool[expr]
                 /\ passed' = "bool"
                 /\ UNCHANGED source

PassNext == Write \/ PassTransform \/ PassJoin \/ PassTransBool
PassSpec == PassInit /\ [][PassNext]_passVars
-----------------------------------------------------------------------------
Same(e, f)    == \A v \in Valuations : Calc(e, v) = Calc(f, v)
Implies(e, f) == \A v \in Valuations : Calc(e, v) <= Calc(f, v)

\* A leaf of e is among L.
Uses(e, L) ==
    LET uses[f \in Expr] ==
            CASE f[1] \in Levels -> uses[f[2]] \/ uses[f[3]]
              [] f[1] = "not"    -> uses[f[2]]
              [] OTHER           -> f \in L
    IN uses[e]

\* expr_join_and takes literals in quotes for different when their names are: to it, no tristate
\* symbol equals both m and "1".
Misled(e) == Uses(e, MisleadingLeaves)

KeptSoFar ==
    IF passed = "bool" THEN \A v \in Valuations : (Calc(source, v) = No) = (Calc(expr, v) = No)
    ELSE Same(source, expr)

\* An expression means what was written through every pass of menu_finalize, unless a comparison
\* in it is misleading; expr_trans_bool, for what is no tristate, only has to keep whether it is n.
MeaningKept == ~Misled(source) => KeptSoFar

\* The same of every expression: what the comment over expr_eliminate_dups promises, that only
\* redundant operands go.  A="1" && A!="m" becomes A="1" and is y, no longer n, where A is m.
MeaningAlwaysKept == KeptSoFar

\* expr_contains_symbol's caller and the menu's flattening rely on it: where eliminating the common
\* operands leaves nothing of f, f is never below expr.
EliminatedIsImplied == \A f \in Samples : EliminateEq(expr, f)[2] = Y => Implies(expr, f)
=============================================================================
