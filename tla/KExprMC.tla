------------------------------ MODULE KExprMC ------------------------------
(***************************************************************************)
(* The expressions of KPasses over a tristate symbol, a bool one and an    *)
(* int, and what becomes of one that is printed and read again             *)
(* (support/kconfig/expr.c, zconf.y).                                      *)
(***************************************************************************)
EXTENDS KPasses, TLC

MCType == [A |-> "tristate", B |-> "bool", I |-> "int",
           y |-> "unknown", m |-> "unknown", n |-> "unknown"] @@ [s \in {"9", "'1'", "'3'"} |-> "unknown"]
MCQuoted == ("'1'" :> "1") @@ ("'3'" :> "3")
Decimals == ("1" :> 1) @@ ("3" :> 3) @@ ("9" :> 9) @@ ("10" :> 10)
MCNumber == [tristate |-> [n |-> 0, m |-> 1, y |-> 2], bool |-> [n |-> 0, m |-> 1, y |-> 2],
             int |-> Decimals, unknown |-> Decimals]
MCAscii == <<"", "1", "10", "3", "9", "m", "n", "y">>

MCValuations ==
    {[A |-> a, B |-> b, I |-> i, y |-> "y", m |-> "m", n |-> "n"] @@ ("9" :> "9") @@ MCQuoted :
        a \in {"n", "m", "y"}, b \in {"n", "y"}, i \in {"9", "10"}}

Atoms == {Sym("A"), Sym("B"), Y, N, Sym("m"), <<"=", "A", "B">>, <<"<", "I", "9">>, <<"<=", "I", "9">>}
         \cup {<<c, "A", x>> : c \in {"=", "!="}, x \in Constants}
         \cup {<<c, "B", x>> : c \in {"=", "!="}, x \in Constants}
         \cup {<<c, "A", x>> : c \in {"=", "!="}, x \in DOMAIN MCQuoted}
MCOperands == Atoms \cup {<<"not", a>> : a \in {Sym("A"), Sym("B"), <<"=", "A", "y">>}}

MCParents == {Null, Sym("A"), <<"!=", "A", "m">>, <<"or", Sym("B"), Sym("A")>>,
            <<"and", <<"=", "A", "y">>, Sym("B")>>}

MCSamples == {Sym("A"), Sym("B"), <<"=", "A", "y">>, <<"not", Sym("A")>>,
            <<"and", Sym("A"), Sym("B")>>, <<"or", Sym("B"), Sym("A")>>,
            <<"and", Sym("B"), <<"or", Sym("B"), Sym("A")>>>>,
            <<"or", Sym("A"), <<"and", Sym("B"), Sym("A")>>>>}

-----------------------------------------------------------------------------
(* expr_print: the tokens of e inside an expression of type prev, and the   *)
(* grammar's "expr" (zconf.y), which reads them.                           *)
\* Plausible bug: !(a && b) loses its parentheses.
TighterForgetsNot(t1, t2) == t1 = "and" /\ t2 = "or"

Tighter(t1, t2) == \/ t1 = "not" /\ t2 \in Levels
                   \/ t1 = "and" /\ t2 = "or"

Token == [and |-> "&&", or |-> "||"]

RECURSIVE Tokens(_, _)
Tokens(e, prev) ==
    LET text == CASE e = Null -> <<"y">>
                  [] e[1] = "sym" -> <<e[2]>>
                  [] e[1] \in Comparisons -> <<e[2], e[1], e[3]>>
                  [] e[1] = "not" -> <<"!">> \o Tokens(e[2], "not")
                  [] e[1] \in Levels ->
                       Tokens(e[2], e[1]) \o <<Token[e[1]]>> \o Tokens(e[3], e[1])
    IN IF Tighter(prev, e[1]) THEN <<"(">> \o text \o <<")">> ELSE text

NextIs(ts, x) == ts # <<>> /\ Head(ts) = x

\* Each returns what it has read and the tokens it leaves; || and && group to the left.
RECURSIVE ReadUnit(_), ReadLevel(_, _)
ReadUnit(ts) ==
    CASE Head(ts) = "(" -> LET p == ReadLevel("or", Tail(ts)) IN <<p[1], Tail(p[2])>>
      [] Head(ts) = "!" -> LET p == ReadUnit(Tail(ts)) IN <<<<"not", p[1]>>, p[2]>>
      [] OTHER -> IF Len(ts) > 1 /\ ts[2] \in Comparisons
                  THEN <<<<ts[2], ts[1], ts[3]>>, SubSeq(ts, 4, Len(ts))>>
                  ELSE <<Sym(ts[1]), Tail(ts)>>

ReadLevel(t, ts) ==
    LET operand(us) == IF t = "or" THEN ReadLevel("and", us) ELSE ReadUnit(us)
        RECURSIVE more(_)
        more(p) == IF NextIs(p[2], Token[t])
                   THEN LET q == operand(Tail(p[2])) IN more(<<<<t, p[1], q[1]>>, q[2]>>)
                   ELSE p
    IN more(operand(ts))

Read(ts) == ReadLevel("or", ts)[1]
-----------------------------------------------------------------------------
\* expr_print's parentheses are enough: its text, read with zconf.y's precedences, means the same.
ReadsBack == Same(Read(Tokens(expr, "none")), expr)
=============================================================================
