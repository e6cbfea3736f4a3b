------------------------------- MODULE KTrees -------------------------------
(***************************************************************************)
(* Small Config.in trees with the hard cases of kconfig in them, and the   *)
(* symbols and values they use.                                            *)
(***************************************************************************)
EXTENDS KMenu

CONSTANTS Names, Literals   \* the symbols of the trees, and the strings that stand for themselves

Prompt(c)     == [kind |-> "prompt", arg |-> Null, cond |-> c]
Default(e, c) == [kind |-> "default", arg |-> e, cond |-> c]
Select(s, c)  == [kind |-> "select", arg |-> s, cond |-> c]
Imply(s, c)   == [kind |-> "imply", arg |-> s, cond |-> c]
Range_(a, b, c) == [kind |-> "range", arg |-> <<a, b>>, cond |-> c]
Entry(kind, s, dep, props, list) ==
    [kind |-> kind, name |-> s, optional |-> FALSE, dep |-> dep, visibility |-> Null,
     props |-> props, list |-> list]
Config(s, dep, props)       == Entry("config", s, dep, props, <<>>)
Choice(s, dep, props, list) == Entry("choice", s, dep, props, list)
Root(list)                  == Entry("menu", "", Null, <<Prompt(Null)>>, list)
Shown == Prompt(Null)

Trees ==
    [ select |-> Root(<<
        Config("MODULES", Null, <<Shown>>),
        Config("A", Null, <<Shown>>),
        Config("B", Sym("A"), <<Shown, Default(Y, <<"=", "A", "y">>)>>),
        Config("C", Null, <<Shown, Select("B", Null)>>)>>),
      choice |-> Root(<<
        Config("D", Null, <<Shown>>),
        Choice("CH", Null, <<Shown, Default(Sym("CY"), Null)>>, <<
            Config("CX", Null, <<Shown>>),
            Config("CY", Sym("D"), <<Shown>>),
            Config("CZ", Null, <<Shown>>)>>)>>),
      numbers |-> Root(<<
        Config("D", Null, <<Shown>>),
        Config("I", Null, <<Shown, Range_("5", "9", Sym("D")), Range_("0", "10", Null), Default(Sym("9"), Sym("D")), Default(Sym("0"), Null)>>),
        Config("S", Null, <<Prompt(Sym("D")), Default(Sym("s1"), Sym("D")), Default(Sym("s2"), Null)>>)>>),
      stale |-> Root(<<
        Config("I", Null, <<Shown, Range_("5", "9", Null), Default(Sym("9"), Null)>>),
        Config("S", Null, <<Shown, Default(Sym("s1"), <<"=", "I", "5">>), Default(Sym("s2"), Null)>>)>>),
      modchoice |-> Root(<<
        Config("MODULES", Null, <<Shown>>),
        Choice("TC", Null, <<Shown>>, <<Config("P", Null, <<Shown>>), Config("Q", Sym("MODULES"), <<Shown>>)>>)>>),
      menus |-> Root(<<
        Config("D", Null, <<Shown>>),
        [Entry("menu", "", Null, <<Shown>>, <<
            Config("E", Null, <<Shown, Default(Y, Null), Imply("F", Null)>>),
            Config("F", Sym("E"), <<Shown>>)>>) EXCEPT !.visibility = Sym("D")]>>),
      loop |-> Root(<<
        Config("E", <<"not", Sym("F")>>, <<Shown, Select("F", Null)>>),
        Config("F", Null, <<Shown>>),
        Config("D", Null, <<Shown>>)>>),
      panel |-> Root(<<
        Entry("menuconfig", "D", Null, <<Shown>>, <<>>),
        Config("S", Sym("D"), <<Shown, Default(Sym("s1"), Null)>>),
        [Entry("menu", "", Null, <<Shown>>, <<
            Config("E", Null, <<Shown, Default(Y, Null)>>)>>) EXCEPT !.visibility = Sym("D")]>>),
      under |-> Root(<<
        Choice("CH", Null, <<Shown>>, <<
            Config("CX", Null, <<Shown>>),
            Config("E", Sym("CX"), <<Shown>>),
            Config("CY", Null, <<Shown>>)>>)>>),
      picks |-> Root(<<
        Config("E", Null, <<Shown, Select("F", Null)>>),
        Config("F", Null, <<Shown>>)>>) ]

MCType == [s \in Names \cup Literals |->
    CASE s \in {"A", "B", "TC", "P", "Q"} -> "tristate"
      [] s = "I" -> "int" [] s = "S" -> "string"
      [] s \in Literals -> "unknown" [] OTHER -> "bool"]
Decimals == ("0" :> 0) @@ ("5" :> 5) @@ ("9" :> 9) @@ ("10" :> 10)
TriNumber == [n |-> 0, m |-> 1, y |-> 2]
MCNumber == [type \in Tristates \cup {"int", "string", "unknown"} |->
    IF type \in Tristates THEN TriNumber ELSE Decimals]
MCQuoted == ("s1" :> "s1") @@ ("s2" :> "s2")
MCAscii == <<"", "0", "10", "5", "9", "m", "n", "s1", "s2", "y">>

Values(s) == CASE Type[s] = "tristate" -> {"n", "m", "y"} [] Type[s] = "bool" -> {"n", "y"}
               [] Type[s] = "int" -> {"0", "5", "10"} [] Type[s] = "string" -> {"s1", "s2"}
=============================================================================
