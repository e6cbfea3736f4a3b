------------------------------ MODULE AutoConf ------------------------------
(***************************************************************************)
(* support/kconfig/confdata.c, conf_write_autoconf: how syncconfig tells   *)
(* kbuild which symbols have changed.  kbuild rebuilds what depends on a   *)
(* symbol when the symbol's file in include/config is newer than           *)
(* auto.conf, so all of those are touched before auto.conf is renamed.     *)
(*                                                                         *)
(* A file is a function from the symbols that have a line to their values. *)
(* Where the values come from is left open here.                           *)
(***************************************************************************)
EXTENDS KLeaf

VARIABLES
    config,     \* .config
    auto,       \* auto.conf
    touched,    \* the symbols whose files are newer than auto.conf
    stage       \* of a sync: "none", "split" or "auto"

vars == <<config, auto, touched, stage>>

Strings == {Ascii[i] : i \in DOMAIN Ascii}
Empty   == [s \in {} |-> ""]

\* A file that conf_write may write: the values of some symbols.
Written(file) ==
    /\ DOMAIN file \subseteq Symbols
    /\ file \in [DOMAIN file -> Strings]
    /\ \A s \in DOMAIN file : Type[s] \in Tristates => Settable(s, file[s])

\* conf_read_simple for S_DEF_AUTO: does the file give the symbol a value?
Gives(file, s) == s \in DOMAIN file /\ Settable(s, file[s])

\* Plausible bug: a symbol that is no longer written has no file to be touched.
TouchesOnlyWritten(s, old, new) ==
    /\ s \in DOMAIN new
    /\ IF Gives(old, s) THEN new[s] # old[s]
       ELSE Type[s] \in Tristates => Tri(new[s]) # No

\* conf_split_config: is the symbol's value new other than what the last auto.conf, old, gives it?
Touches(s, old, new) ==
    \/ s \in DOMAIN new /\ Gives(old, s) /\ new[s] # old[s]
    \/ s \in DOMAIN new /\ ~Gives(old, s) /\ (Type[s] \in Tristates => Tri(new[s]) # No)
    \/ s \notin DOMAIN new /\ Gives(old, s)

\* What is written to auto.conf: 'no' (unset) is not.
HasLine(s, file) == s \in DOMAIN file /\ (Type[s] \in Tristates => file[s] # "n")
AutoOf(file)     == [s \in {s \in DOMAIN file : HasLine(s, file)} |-> file[s]]

Init ==
    /\ config \in [DOMAIN config -> Strings]
    /\ auto = Empty
    /\ touched = {}
    /\ stage = "none"

\* Any other program, and a sync before it comes to conf_write_autoconf.
Configure ==
    /\ stage = "none"
    /\ config' \in [DOMAIN config' -> Strings]
    /\ UNCHANGED <<auto, touched, stage>>

\* A sync has brought the .config up to date.
Begin ==
    /\ stage = "none"
    /\ Written(config')
    /\ stage' = "split"
    /\ UNCHANGED <<auto, touched>>

\* conf_split_config: the files of some of the symbols that are due are touched; unless of all,
\* the run has ended there.
Due == {s \in Symbols : Touches(s, auto, config)}
Split ==
    /\ stage = "split"
    /\ \E some \in SUBSET Due :
          /\ touched' = touched \cup some
          /\ stage' \in {"none"} \cup {go \in {"auto"} : some = Due}
    /\ UNCHANGED <<config, auto>>

\* The rest of conf_write_autoconf: auto.conf is renamed last.
WriteAuto ==
    /\ stage = "auto"
    /\ auto' = AutoOf(config)
    /\ touched' = {}
    /\ stage' = "none"
    /\ UNCHANGED config

Interrupt ==
    /\ stage # "none"
    /\ stage' = "none"
    /\ UNCHANGED <<config, auto, touched>>

Next == Configure \/ Begin \/ Split \/ WriteAuto \/ Interrupt

Spec == Init /\ [][Next]_vars
-----------------------------------------------------------------------------
\* What a file says to kbuild about a symbol; a line without a value that can be read says nothing.
Says(file, s) == IF Gives(file, s) THEN {file[s]} ELSE {}

\* The file of every symbol about which a new auto.conf says something new is newer than the last
\* auto.conf, however many syncs broke off since with other values.
TouchedInTime ==
    [][ auto' # auto => \A s \in Symbols : Says(auto', s) # Says(auto, s) => s \in touched ]_vars

\* No symbol's file is touched that kbuild will not be told something new about by the .config of
\* that sync, except for a number without a value, which reads back as nothing every time.
NothingElseTouched ==
    [][ \A s \in touched' \ touched :
          \/ Says(AutoOf(config), s) # Says(auto, s)
          \/ s \in DOMAIN config /\ ~Settable(s, config[s]) ]_vars

\* "'no' (unset) isn't saved in auto.conf, so the old value is always different from 'no'", on which
\* conf_split_config relies for symbols that are not written any more.
OldIsNeverNo == \A s \in DOMAIN auto : Type[s] \in Tristates => auto[s] # "n"
=============================================================================
