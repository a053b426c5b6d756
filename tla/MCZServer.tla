----------------------------- MODULE MCZServer ------------------------------
(* Small instances of ZServer for TLC. *)
EXTENDS ZServer

Login    == [kind |-> "C2ZS_R_LOGIN"]
Register == [kind |-> "C2ZS_R_REGISTER"]
Check(i, c) == [kind |-> "DS2ZS_R_CHECKDYNMICCODE", id |-> i, code |-> c]

\* One code is enough where no property reads it.
OneCode == {1}

LoginCheck    == {Login, Check(1, 1)}
LoginRegister == {Login, Register}
LoginOnly     == {Login}
=============================================================================
