------------------------------- MODULE MCPrograms -------------------------------
(***************************************************************************)
(* Toolchain on the families of programs about control flow, about          *)
(* functions and about data.                                                *)
(***************************************************************************)
EXTENDS Toolchain

CONSTANT Lines

Control   == INSTANCE MCControl
FunctionCalls == INSTANCE MCFunctions
Data      == INSTANCE MCData

AllPrograms == Control!ControlPrograms \o FunctionCalls!FunctionPrograms \o Data!DataPrograms
=============================================================================
