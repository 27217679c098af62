------------------------------ MODULE MCSystem ------------------------------
(* The functions of Programs, translated and executed; and sessions, in    *)
(* which statements are.                                                   *)
EXTENDS Session, Programs

(* Names that one declares may be hidden by another. None returns from the *)
(* session: see MCReturnInputs. *)
MCInputs == {
    Do(StringVar("s", gs)), Do(StringVar("t", f(<<s>>))), Do(StringVar("gs", x)),
    Do(Add(gs, s)), Do(Set(s, f(<<gs, s>>))), Do(IntVar("i", gi)),
    When1(n(<<StringVar("s", x)>>), Do(StringVar("t", s))),
    When2(i, Do(StringVar("t", gs)), Do(Set(gs, x)))}

(* string s = "x"; if (n()) return; s = f(s); *)
MCReturnInputs ==
    {Do(StringVar("s", x)), When1(n(<<>>), Returns), Do(Set(s, f(<<s>>)))}

Outside == entry = 0 /\ topScope = Scope(<<>>, {}, "nothing")
               /\ initializers = <<>> /\ inputs = 0

MCNext == \/ entry = 0 /\ SystemNext /\ UNCHANGED sessionVars
          \/ entry # 0 /\ SessionNext

Fairness == WF_machineVars(MachineStep)

MCSpec == ((SystemInit /\ Outside) \/ SessionInit)
              /\ [][MCNext]_<<systemVars, sessionVars>> /\ Fairness
SessionSpec == SessionInit /\ [][SessionNext]_<<systemVars, sessionVars>> /\ Fairness
=============================================================================
