------------------------------- MODULE KLeaf -------------------------------
(***************************************************************************)
(* support/kconfig/expr.c: what an expression is made of, what its leaves  *)
(* are worth, and the rules that rewrite one leaf or two of them; and what *)
(* a line of a file may say of a symbol (confdata.c).                      *)
(*                                                                         *)
(* A leaf is <<"sym", s>> or a comparison <<c, s, t>> of two symbols; the  *)
(* rules are about leaves and negated leaves.                              *)
(***************************************************************************)
EXTENDS Integers, Sequences

CONSTANTS
    Type,       \* the type of every symbol, "unknown" for the constants y, m, n and for literals
    Quoted,     \* [literal in quotes -> its text]; "y", "m" and "n" in quotes are y, m and n
    Number,     \* [type -> [string -> number]]: what expr_parse_string makes of a string
    Ascii       \* every string a symbol can have as its value, in strcmp order

Symbols == DOMAIN Type

ASSUME KLeafAssumption ==
    /\ {"y", "m", "n"} \subseteq DOMAIN Type
    /\ \A c \in {"y", "m", "n"} : Type[c] = "unknown" /\ c \notin DOMAIN Number["unknown"]
    /\ DOMAIN Quoted \subseteq DOMAIN Type \ {"y", "m", "n"}
    /\ \A q \in DOMAIN Quoted : Type[q] = "unknown" /\ Quoted[q] \notin {"y", "m", "n"}
    /\ \A s \in Symbols : Type[s] \in DOMAIN Number
    /\ \A t \in DOMAIN Number : \A v \in DOMAIN Number[t] : Number[t][v] \in Int

No  == 0
Mod == 1
Yes == 2
Tristates  == {"bool", "tristate"}
Tri(v)     == CASE v = "y" -> Yes [] v = "m" -> Mod [] OTHER -> No
TriName(t) == <<"n", "m", "y">>[t + 1]

AtLeast(a, b) == IF a > b THEN a ELSE b             \* EXPR_OR
AtMost(a, b)  == IF a < b THEN a ELSE b             \* EXPR_AND

\* conf_set_sym_val, without the range.
Settable(s, v) ==
    CASE Type[s] = "tristate" -> v \in {"n", "m", "y"}
      [] Type[s] = "bool"     -> v \in {"n", "y"}
      [] Type[s] = "int"      -> v \in DOMAIN Number["int"]
      [] OTHER                -> TRUE

Null == <<"null">>
Sym(s) == <<"sym", s>>
Y == Sym("y")
N == Sym("n")
Constants   == {"y", "m", "n"}
Flagged     == Constants \cup DOMAIN Quoted         \* SYMBOL_CONST
Levels      == {"and", "or"}
Comparisons == {"=", "!=", "<", "<=", ">", ">="}
Negated     == [c \in Comparisons |->
                  CASE c = "=" -> "!=" [] c = "!=" -> "=" [] c = "<" -> ">="
                    [] c = ">=" -> "<" [] c = ">" -> "<=" [] c = "<=" -> ">"]

\* What is not made of other expressions.
Leaf == ({"sym"} \X Symbols) \cup (Comparisons \X Symbols \X Symbols)
-----------------------------------------------------------------------------
(* expr_join_or and expr_join_and *)

\* What expr_join_or and expr_join_and take to be the symbol an operand is about.
Plain(e)    == e[1] \in {"=", "!=", "sym"}
SubjectL(e) == IF Plain(e) THEN e[2]
               ELSE IF e[1] = "not" /\ Plain(e[2]) THEN e[2][2] ELSE "none"
SubjectR(e) == IF Plain(e) THEN e[2]
               ELSE IF e[1] = "not" /\ e[2][1] = "sym" THEN e[2][2] ELSE "none"
SameSubject(e, f) ==
    /\ SubjectL(e) # "none"
    /\ SubjectL(e) = SubjectR(f)
    /\ Type[SubjectL(e)] \in Tristates
Third(x, y) == CHOOSE z \in Constants : z \notin {x, y}
OneOfEach(e, f, p, q) == (e = p /\ f = q) \/ (e = q /\ f = p)

\* Two operands about one symbol.
JoinOr(e, f) ==
    LET s == SubjectL(e)
    IN CASE Type[s] = "tristate" /\ e[1] = "=" /\ f[1] = "=" /\ {e[3], f[3]} \subseteq Constants ->
              <<"!=", s, Third(e[3], f[3])>>
         [] Type[s] = "bool" /\ OneOfEach(e, f, Sym(s), <<"not", Sym(s)>>) -> Y
         [] OTHER -> Null

\* Plausible bug: (a!='m') && (a!='n') -> (a='m'), as the comment beside the rule has it.
JoinAndAsCommented(e, f) ==
    IF e[1] = "!=" /\ f[1] = "!=" /\ {e[3], f[3]} = {"m", "n"}
    THEN <<"=", e[2], "m">> ELSE Null

JoinAnd(e, f) ==
    LET s == SubjectL(e)
        Eqn(x) == <<"=", s, x>>
        Neq(x) == <<"!=", s, x>>
    IN CASE OneOfEach(e, f, Sym(s), Eqn("y")) -> Eqn("y")
         [] OneOfEach(e, f, Sym(s), Neq("n")) -> Sym(s)
         [] OneOfEach(e, f, Sym(s), Neq("m")) -> Eqn("y")
         [] /\ Type[s] = "tristate" /\ {e[1], f[1]} = {"=", "!="}
            /\ {e[3], f[3]} \subseteq Flagged ->
              IF e[3] = f[3] THEN N ELSE IF e[1] = "=" THEN e ELSE f
         [] /\ Type[s] = "tristate" /\ e[1] = "!=" /\ f[1] = "!="
            /\ {e[3], f[3]} \subseteq Constants ->
              Eqn(Third(e[3], f[3]))
         [] OTHER -> Null
-----------------------------------------------------------------------------
(* The rules of expr_transform and expr_trans_bool for one leaf *)

\* !e, of a comparison and of a constant.
Opposite(e)         == <<Negated[e[1]], e[2], e[3]>>
OppositeConstant(c) == Sym(TriName(Yes - Tri(c)))

\* A comparison of a bool symbol with a constant, and what becomes of it.
TestsBool(e) == e[1] \in {"=", "!="} /\ Type[e[2]] = "bool" /\ e[3] \in Constants

TestedBool(e) ==
    IF e[3] = "m" THEN IF e[1] = "=" THEN N ELSE Y
    ELSE IF <<e[1], e[3]>> \in {<<"=", "y">>, <<"!=", "n">>} THEN Sym(e[2])
    ELSE <<"not", Sym(e[2])>>

\* FOO!=n
IsNotNo(e) == e[1] = "!=" /\ Type[e[2]] = "tristate" /\ e[3] = "n"
-----------------------------------------------------------------------------
(* expr_calc_value for a leaf; val is the string value of every symbol *)
Rank(v) == CHOOSE i \in 1..Len(Ascii) : Ascii[i] = v

Holds(c, a, b) ==
    CASE c = "=" -> a = b [] c = "!=" -> a # b [] c = "<" -> a < b
      [] c = "<=" -> a <= b [] c = ">" -> a > b [] c = ">=" -> a >= b

Numeric(s, val) == val[s] \in DOMAIN Number[Type[s]]
AsNumber(s, numeric, val) == IF numeric THEN Number[Type[s]][val[s]] ELSE Rank(val[s])
CompareAs(c, s, t, numeric, val) == Holds(c, AsNumber(s, numeric, val), AsNumber(t, numeric, val))

Compare(c, s, t, val) ==
    CompareAs(c, s, t, /\ Type[s] # "string" \/ Type[t] # "string"
                       /\ Numeric(s, val) /\ Numeric(t, val), val)

\* A constant's tristate value is its own; other symbols have one if they are of such a type.
TriOf(s, val) == IF s \in Constants \/ Type[s] \in Tristates THEN Tri(val[s]) ELSE No

LeafValue(e, val) ==
    IF e[1] = "sym" THEN TriOf(e[2], val)
    ELSE IF Compare(e[1], e[2], e[3], val) THEN Yes ELSE No

\* A comparison of a tristate symbol with a literal in quotes that is no tristate value but reads
\* as the number of one: A="1" is true of an A that is m.
SpellsAValue(s, q) ==
    LET text == Quoted[q]
    IN /\ text \in DOMAIN Number["unknown"]
       /\ \E v \in Constants \cap DOMAIN Number[Type[s]] : Number["unknown"][text] = Number[Type[s]][v]
Misleading(e) ==
    /\ e[1] \in {"=", "!="}
    /\ Type[e[2]] = "tristate"
    /\ e[3] \in DOMAIN Quoted /\ SpellsAValue(e[2], e[3])
MisleadingLeaves == {l \in Leaf : Misleading(l)}

\* The values sym_calc_value gives: one Ascii knows to every symbol, their own to the constants,
\* its text to a literal, and to a bool or tristate symbol one it can have.
Valuation(val) ==
    /\ \A s \in Symbols : \E i \in 1..Len(Ascii) : val[s] = Ascii[i]
    /\ \A c \in Constants : val[c] = c
    /\ \A q \in DOMAIN Quoted : val[q] = Quoted[q]
    /\ \A s \in Symbols : Type[s] = "tristate" => val[s] \in {"n", "m", "y"}
    /\ \A s \in Symbols : Type[s] = "bool" => val[s] \in {"n", "y"}
=============================================================================
