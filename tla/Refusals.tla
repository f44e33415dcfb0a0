------------------------------- MODULE Refusals -------------------------------
(***************************************************************************)
(* How the Python gates and release tools refuse.  A tool that raises at   *)
(* its first failed check is FirstOf of its checks in source order; a tool *)
(* that collects diagnostics is the set of the codes that apply.           *)
(***************************************************************************)
EXTENDS Naturals, Sequences, FiniteSets

Ok == "ok"

\* A check: the refusal code and the condition under which it is raised.
Refuse(code, condition) == [code |-> code, when |-> condition]

\* The code of the first check that fails, in order, or Ok.
FirstOf(checks) ==
    LET failed == {i \in DOMAIN checks : checks[i].when}
    IN  IF failed = {} THEN Ok
        ELSE checks[CHOOSE i \in failed : \A j \in failed : i <= j].code

\* The codes of all the checks that fail.
AllOf(checks) == {c.code : c \in {d \in checks : d.when}}

(***************************************************************************)
(* Two finite collections name each other exactly once: the bijection the  *)
(* gates demand of a declared and a found list, as sequences of names.     *)
(***************************************************************************)
NoDuplicates(s) == \A i, j \in DOMAIN s : s[i] = s[j] => i = j
Names(s) == {s[i] : i \in DOMAIN s}
=============================================================================
