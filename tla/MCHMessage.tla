----------------------------- MODULE MCHMessage -----------------------------
(* A small instance of HMessage for TLC. *)
EXTENDS HMessage

\* The code's numbers are 0x2001 with 1 .. 6, 1002, 1003; 0x1037 with 1000,
\* 1001, 1004, 1005; and 0x2006 with 2.  Distinct, in two bytes each.
MCProtocol == [
  C2ZS_R_RegisterAccount  |-> <<129, 1>>,
  ZS2C_A_RegisterAccount  |-> <<129, 2>>,
  C2ZS_R_Login            |-> <<129, 3>>,
  ZS2C_A_Login            |-> <<129, 4>>,
  C2DS_R_GetAllRole       |-> <<129, 5>>,
  DS2C_A_GetAllRole       |-> <<129, 6>>,
  DS2ZS_R_CheckDynmicCode |-> <<103, 100>>,
  ZS2DS_A_CheckDynmicCode |-> <<103, 101>>,
  C2GS_R_Login            |-> <<129, 102>>,
  GS2C_A_Login            |-> <<129, 103>>,
  GS2DS_R_CheckDynmicCode |-> <<103, 104>>,
  DS2GS_A_CheckDynmicCode |-> <<103, 105>>,
  ZS2C_A_ErrorMessage     |-> <<134, 2>>]

\* Base 12: both ends of the ranges and values all of whose bytes differ.
MCSample == [
  char   |-> {11},
  ushort |-> {0, 1 * 12 + 11},
  uint   |-> {12 * 12 * 12 * 12 - 1, 1 * 12 * 12 * 12 + 2 * 12 * 12 + 3 * 12 + 4},
  string |-> {<<>>, <<7>>, <<8, 0, 9>>, <<1, 2, 3, 4, 5, 6, 7, 8, 9>>}]
=============================================================================
