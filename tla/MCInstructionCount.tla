------------------------ MODULE MCInstructionCount ------------------------
(* Small instances of InstructionCount.                                    *)
EXTENDS InstructionCount
=============================================================================
